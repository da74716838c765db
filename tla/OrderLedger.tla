---------------------------- MODULE OrderLedger ----------------------------
(***************************************************************************)
(* The balances of orders.  An order carries the amount that was invoiced  *)
(* and a cached balance; the balance owed is the amount less the receipts  *)
(* bound to the order that are not waiting for a signature.  A transfer    *)
(* moves an overpayment: it raises the amount of its source and generates  *)
(* a receipt on its target.                                                *)
(*                                                                         *)
(* A request reads outside a transaction (step "checked"), runs one        *)
(* transaction (step "open", then one commit) and may owe refreshes of     *)
(* cached balances afterwards (steps "owes" and "read").  A transaction    *)
(* sees the tables as they were at its first read, except for the rows it  *)
(* has itself written: those it sees in their latest committed version,    *)
(* with its own change.  The transactions modelled here commit in one      *)
(* action, which stands for all their writes.  Which orders carry the      *)
(* same number is left open: any two may.                                  *)
(***************************************************************************)
EXTENDS Integers, FiniteSets, Functions

CONSTANTS
  Orders, Receipts, Handlers,  \* identifiers; none is given out twice
  NoOrder,                     \* the order of an unmatched receipt
  NewOrder,                    \* a lookup found no order: one is to be created
  Invoiced, Entered,           \* the orders and receipts that exist at first
  Amounts,                     \* the sums of money that requests may name
  MaxAmount,                   \* bound on what is invoiced for one order
  Ops,                         \* the operations of an instance
  Deposits,                    \* whether receipts may be deposits
  Crashes                      \* whether the process may stop after a commit

ASSUME LedgerAssumption ==
  /\ Invoiced \subseteq Orders /\ Entered \subseteq Receipts /\ NoOrder \notin Orders /\ NewOrder \notin Orders
  /\ NoOrder # NewOrder /\ Amounts \subseteq Nat \ {0} /\ MaxAmount \in Nat
  /\ Deposits \in BOOLEAN /\ Crashes \in BOOLEAN

ASSUME IdentifiersAssumption ==
  /\ IsFiniteSet(Orders) /\ IsFiniteSet(Receipts)
  /\ NoOrder \notin Receipts /\ Orders \cap Receipts = {}

VARIABLES
  orders,     \* the Order table: existing orders to their rows
  receipts,   \* the Receipt table
  transfers,  \* the BalanceTransfer table, by generated receipt
  issued,     \* identifiers given out so far
  work        \* what each handler is doing

vars == <<orders, receipts, transfers, issued, work>>

Order == [amount : Int, cached : Int, pool : BOOLEAN]
Statuses == {"SIGNING_PENDING", "SR_Received", "Bank_Transfer", "RECEIVED"}
Receipt == [order : Orders \cup {NoOrder}, usd : Amounts, status : Statuses,
            deposit : BOOLEAN]  \* a deposit that is not merged into an order yet
Transfer == [from : Orders, to : Orders, amount : Amounts]

\* isReceiptIncludedInOrderBalance
Counted(receipt) == receipt.status # "SIGNING_PENDING"

ReceiptsOf(rs, o) == {r \in DOMAIN rs : rs[r].order = o}

\* A sum of amounts, as the number of its units; balances may be negative.
Units(sums) == UNION {{x} \X (1..sums[x]) : x \in DOMAIN sums}
SumOf(sums) == Cardinality(Units(sums))
Balance(sums) == SumOf(sums) - SumOf([x \in DOMAIN sums |-> -sums[x]])

Total(rs, R) == SumOf([r \in R |-> rs[r].usd])

\* computeOrderBalanceFromReceipts
Owed(os, rs, o) == os[o].amount - Total(rs, {r \in ReceiptsOf(rs, o) : Counted(rs[r])})

New(S) == CHOOSE x \in S \ issued : TRUE
Delete(f, S) == Restrict(f, DOMAIN f \ S)
With(table, x, row) == [y \in DOMAIN table \cup {x} |-> IF y = x THEN row ELSE table[y]]

Moved(rs, R, o) == [r \in DOMAIN rs |-> IF r \in R THEN [rs[r] EXCEPT !.order = o] ELSE rs[r]]

\* Foreign keys: an order with transfers cannot be deleted, and the receipts
\* of a deleted order lose it.
HasTransfers(ts, o) == \E t \in DOMAIN ts : o \in {ts[t].from, ts[t].to}

WithoutOrders(rs, S) == Moved(rs, {r \in DOMAIN rs : rs[r].order \in S}, NoOrder)

-----------------------------------------------------------------------------
(* The steps that the requests have in common.                             *)

Is(h, step, op) == work[h].step = step /\ work[h].job.op = op
Idle(h) == work[h] = [step |-> "idle"]
Owes(due, saving) ==
  IF due = {} THEN [step |-> "idle"] ELSE [step |-> "owes", due |-> due, saving |-> saving]

Begin(h, job) ==
  /\ Idle(h) /\ job.op \in Ops
  /\ work' = [work EXCEPT ![h] = [step |-> "checked", job |-> job]]
  /\ UNCHANGED <<orders, receipts, transfers, issued>>

\* The first read of the transaction.
OpenWith(h, job) ==
  /\ work' = [work EXCEPT ![h] =
       [step |-> "open", job |-> job,
        view |-> [orders |-> orders, receipts |-> receipts, transfers |-> transfers]]]
  /\ UNCHANGED <<orders, receipts, transfers, issued>>

Open(h) ==
  /\ work[h].step = "checked" /\ work[h].job.op \notin {"update", "deleteOrder"}
  /\ OpenWith(h, work[h].job)

\* A transaction that relies on nothing that was read before it.
OpenAtOnce(h, job) ==
  /\ Idle(h) /\ job.op \in Ops
  /\ OpenWith(h, job)

\* What a transaction sees of a table once it has written the rows "own".
Overlay(seen, latest, own) ==
  [x \in (DOMAIN seen \ own) \cup (DOMAIN latest \cap own) |->
     IF x \in own THEN latest[x] ELSE seen[x]]

\* Fault: the balance is computed from the snapshot, without the own writes.
RefreshedBefore(view, os, rs, ownOrders, ownReceipts, refreshed) ==
  [o \in DOMAIN os |->
     IF o \in refreshed \cap DOMAIN view.orders
     THEN [os[o] EXCEPT !.cached = Owed(view.orders, view.receipts, o)] ELSE os[o]]

\* updateOrderBalance inside a transaction: the orders of "refreshed" get the
\* balance that the transaction sees.
Refreshed(view, os, rs, ownOrders, ownReceipts, refreshed) ==
  LET seen == Overlay(view.orders, os, ownOrders)
      seenReceipts == Overlay(view.receipts, rs, ownReceipts)
  IN [o \in DOMAIN os |->
        IF o \in refreshed \cap DOMAIN seen
        THEN LET owed == Owed(seen, seenReceipts, o)
             IN IF seen[o].cached = owed THEN os[o] ELSE [os[o] EXCEPT !.cached = owed]
        ELSE os[o]]

\* A transaction that fails, or never starts, leaves nothing behind.
Refuse(h) ==
  /\ work[h].step \in {"checked", "open"}
  /\ work' = [work EXCEPT ![h] = [step |-> "idle"]]
  /\ UNCHANGED <<orders, receipts, transfers, issued>>

\* The process stops after a commit: the refreshes it owed are lost.
Crash(h) ==
  /\ Crashes /\ work[h].step \in {"owes", "read"}
  /\ work' = [work EXCEPT ![h] = [step |-> "idle"]]
  /\ UNCHANGED <<orders, receipts, transfers, issued>>

\* The rows that a transaction wrote before its first read are locked since.
Held(h, R) ==
  \A r \in R : /\ r \in DOMAIN receipts \cap DOMAIN work[h].view.receipts
               /\ receipts[r] = work[h].view.receipts[r]

-----------------------------------------------------------------------------
(* Refreshing a cached balance outside a transaction.                      *)

Look(h, o, due, saving) ==
  work' = [work EXCEPT ![h] =
    IF o \in DOMAIN orders
    THEN [step |-> "read", order |-> o, owed |-> Owed(orders, receipts, o),
          matches |-> orders[o].cached = Owed(orders, receipts, o),
          due |-> due \ {o}, saving |-> saving]
    ELSE Owes(due \ {o}, saving)]

\* updateOrderBalance reads the order and its receipts ...
ReadBalance(h) ==
  /\ work[h].step = "owes"
  /\ \E o \in work[h].due : Look(h, o, work[h].due, work[h].saving)
  /\ UNCHANGED <<orders, receipts, transfers, issued>>

\* The dashboard repairs a balance that differs from the one it has computed.
Repair(h, o) ==
  /\ Idle(h) /\ "repair" \in Ops /\ o \in DOMAIN orders
  /\ orders[o].cached # Owed(orders, receipts, o)
  /\ Look(h, o, {}, FALSE)
  /\ UNCHANGED <<orders, receipts, transfers, issued>>

\* ... and writes what it has computed.
WriteBalance(h) ==
  /\ work[h].step = "read"
  /\ LET o == work[h].order
     IN orders' = IF work[h].matches \/ o \notin DOMAIN orders THEN orders
                  ELSE [orders EXCEPT ![o].cached = work[h].owed]
  /\ work' = [work EXCEPT ![h] = Owes(work[h].due, work[h].saving)]
  /\ UNCHANGED <<receipts, transfers, issued>>

-----------------------------------------------------------------------------
(* Receipts.                                                               *)

PoolOrder(cached) == [amount |-> 0, cached |-> cached, pool |-> TRUE]

\* A receipt is entered for an order, for a number that has no order yet, or
\* without a number.
CreateReceipt(h, o, usd, deposit) ==
  /\ Idle(h) /\ "create" \in Ops /\ Receipts \ issued # {}
  /\ o \in DOMAIN orders \cup {NewOrder, NoOrder} /\ (o = NewOrder => Orders \ issued # {})
  /\ LET r == New(Receipts)
         target == IF o = NewOrder THEN New(Orders) ELSE o
     IN /\ orders' = IF o = NewOrder
                     THEN With(orders, target, PoolOrder(IF deposit THEN -usd ELSE 0))
                     ELSE orders
        /\ receipts' = With(receipts, r,
             [order |-> target, usd |-> usd, status |-> "SR_Received", deposit |-> deposit])
        /\ issued' = issued \cup ({r, target} \ {NoOrder})
        /\ work' = [work EXCEPT ![h] = Owes({target} \ {NoOrder}, FALSE)]
  /\ UNCHANGED transfers

\* A receipt that its payer has still to sign; a deposit may open an order.
CreateSession(h, o, usd, deposit) ==
  /\ Idle(h) /\ "sign" \in Ops /\ Receipts \ issued # {}
  /\ o \in DOMAIN orders \cup (IF deposit THEN {NewOrder} ELSE {})
  /\ o = NewOrder => Orders \ issued # {}
  /\ LET r == New(Receipts)
         target == IF o = NewOrder THEN New(Orders) ELSE o
     IN /\ orders' = IF o = NewOrder THEN With(orders, target, PoolOrder(-usd)) ELSE orders
        /\ receipts' = With(receipts, r,
             [order |-> target, usd |-> usd, status |-> "SIGNING_PENDING", deposit |-> deposit])
        /\ issued' = issued \cup {r, target}
  /\ UNCHANGED <<transfers, work>>

BeginFinalise(h, r) ==
  /\ r \in DOMAIN receipts /\ receipts[r].status = "SIGNING_PENDING"
  /\ Begin(h, [op |-> "sign", receipt |-> r, order |-> receipts[r].order])

\* Finalising refreshes the order that the receipt was bound to when the
\* request looked at it.
CommitFinalise(h) ==
  /\ Is(h, "open", "sign")
  /\ LET r == work[h].job.receipt
         signed == [receipts EXCEPT ![r].status = "SR_Received"]
     IN /\ Held(h, {r})
        /\ receipts' = signed
        /\ orders' = Refreshed(work[h].view, orders, signed, {}, {r}, {work[h].job.order})
  /\ work' = [work EXCEPT ![h] = [step |-> "idle"]]
  /\ UNCHANGED <<transfers, issued>>

MarkReceived(h, r) ==
  /\ Idle(h) /\ "receive" \in Ops /\ r \in DOMAIN receipts
  /\ receipts[r].status \notin {"SIGNING_PENDING", "RECEIVED"}
  /\ receipts' = [receipts EXCEPT ![r].status = "RECEIVED"]
  /\ UNCHANGED <<orders, transfers, issued, work>>

\* The receipt of a transfer cannot be deleted (foreign key).
DeleteReceipt(h, r) ==
  /\ Idle(h) /\ "delete" \in Ops /\ r \in DOMAIN receipts \ DOMAIN transfers
  /\ receipts' = Delete(receipts, {r})
  /\ work' = [work EXCEPT ![h] = Owes({receipts[r].order} \ {NoOrder}, FALSE)]
  /\ UNCHANGED <<orders, transfers, issued>>

-----------------------------------------------------------------------------
(* Transfers of overpayments and their reversal.                           *)

BeginTransfer(h, from, to, amount) ==
  /\ from \in DOMAIN orders /\ to \in DOMAIN orders \cup {NewOrder}
  /\ LET balance == orders[from].amount - Total(receipts, ReceiptsOf(receipts, from))
     IN balance < 0 /\ amount <= -balance
  /\ Begin(h, [op |-> "transfer", from |-> from, to |-> to, amount |-> amount])

CommitTransfer(h) ==
  /\ Is(h, "open", "transfer") /\ Receipts \ issued # {}
  /\ LET job == work[h].job
         view == work[h].view
         opens == job.to \notin DOMAIN view.orders
         to == IF opens THEN New(Orders) ELSE job.to
         g == New(Receipts)
         raised == [orders EXCEPT ![job.from].amount = @ + job.amount]
         os == IF opens THEN With(raised, to, PoolOrder(0)) ELSE raised
         rs == With(receipts, g, [order |-> to, usd |-> job.amount,
                                  status |-> "Bank_Transfer", deposit |-> FALSE])
     IN /\ opens => Orders \ issued # {}
        /\ {job.from, to} \subseteq DOMAIN os
        /\ receipts' = rs
        /\ transfers' = With(transfers, g, [from |-> job.from, to |-> to, amount |-> job.amount])
        /\ orders' = Refreshed(view, os, rs, IF opens THEN {job.from, to} ELSE {job.from}, {g},
                               {job.from, to})
        /\ issued' = issued \cup {g, to}
  /\ work' = [work EXCEPT ![h] = [step |-> "idle"]]

OpenReverse(h, g) ==
  /\ g \in DOMAIN transfers
  /\ OpenAtOnce(h, [op |-> "reverse", transfer |-> g])

\* Fault: the relation is not claimed, only looked up.
NeverClaimed(h, g) == work[h].view.transfers[g].from \in DOMAIN orders

\* The transfer is claimed by deleting it: nobody has reversed it meanwhile.
Claimed(h, g) == g \in DOMAIN transfers

\* reverseBalanceTransferInTransaction, up to the claim.
Reversible(h, g) ==
  LET view == work[h].view
      t == view.transfers[g]
  IN /\ g \in DOMAIN view.transfers
     /\ view.receipts[g].order = t.to /\ view.receipts[g].usd = t.amount
     /\ view.orders[t.from].amount >= t.amount
     /\ Claimed(h, g)

Lowered(os, from, amount) == [os EXCEPT ![from].amount = @ - amount]

\* cleanupSafeSystemPoolSourceOrderInTransaction: nothing is left of the
\* order that the transaction can see.
Cleaned(view, os, o, rs, ownReceipts, ownTransfers) ==
  IF /\ os[o].pool /\ os[o].amount = 0 /\ os[o].cached = 0
     /\ ReceiptsOf(Overlay(view.receipts, rs, ownReceipts), o) = {}
     /\ ~ HasTransfers(Delete(view.transfers, ownTransfers), o)
  THEN {o} ELSE {}

CommitReverse(h) ==
  /\ Is(h, "open", "reverse")
  /\ LET g == work[h].job.transfer
         view == work[h].view
         t == view.transfers[g]
         rs == Delete(receipts, {g})
         ts == Delete(transfers, {g})
         os == Refreshed(view, Lowered(orders, t.from, t.amount), rs, {t.from}, {g}, {t.from, t.to})
         gone == Cleaned(view, os, t.from, rs, {g}, {g})
     IN /\ Reversible(h, g)
        /\ \A o \in gone : ~ HasTransfers(ts, o)
        /\ orders' = Delete(os, gone)
        /\ receipts' = WithoutOrders(rs, gone)
        /\ transfers' = ts
  /\ work' = [work EXCEPT ![h] = [step |-> "idle"]]
  /\ UNCHANGED issued

-----------------------------------------------------------------------------
(* Binding a receipt to another order, by an administrator's edit or by an *)
(* approved request.                                                       *)

\* Fault: a transfer of the receipt's money is not looked for.
ImpactIgnored(view, r, to) == {}

\* inspectReceiptEditTransferImpact: the transfers that have already moved
\* the money of r to the order it is being bound to.
Impact(view, r, to) ==
  LET row == view.receipts[r]
  IN {g \in DOMAIN view.transfers :
        view.transfers[g] = [from |-> row.order, to |-> to, amount |-> row.usd]}

\* Fault: generated receipts are edited like any other.
OpenAnyEdit(h, r, to) ==
  /\ r \in DOMAIN receipts
  /\ to \in DOMAIN orders \cup {NewOrder, NoOrder} /\ to # receipts[r].order
  /\ OpenAtOnce(h, [op |-> "edit", receipt |-> r, to |-> to])

\* A transfer of the receipt's money has to be confirmed: an edit that names
\* none, another one, or finds two, is refused at once.
OpenEdit(h, r, to) ==
  /\ r \in DOMAIN receipts /\ receipts[r].status # "Bank_Transfer"
  /\ to \in DOMAIN orders \cup {NewOrder, NoOrder} /\ to # receipts[r].order
  /\ OpenAtOnce(h, [op |-> "edit", receipt |-> r, to |-> to])

CommitEdit(h) ==
  /\ Is(h, "open", "edit")
  /\ LET job == work[h].job
         view == work[h].view
         r == job.receipt
         row == view.receipts[r]
         opens == job.to # NoOrder /\ job.to \notin DOMAIN view.orders
         to == IF opens THEN New(Orders) ELSE job.to
         undone == Impact(view, r, to)
         held == IF opens THEN With(orders, to, PoolOrder(0)) ELSE orders
         lowered == IF undone = {} THEN held ELSE Lowered(held, row.order, row.usd)
         rs == Moved(Delete(receipts, undone), {r}, to)
         ts == Delete(transfers, undone)
         os == Refreshed(view, lowered, rs,
                         (IF undone = {} THEN {} ELSE {row.order, to}) \cup (IF opens THEN {to} ELSE {}),
                         {r} \cup undone, {row.order, to})
         gone == IF undone = {} THEN {} ELSE Cleaned(view, os, row.order, rs, {r} \cup undone, undone)
     IN /\ r \in DOMAIN receipts
        /\ opens => Orders \ issued # {}
        /\ to \in DOMAIN held \cup {NoOrder}
        /\ Cardinality(undone) <= 1
        /\ \A g \in undone : g # r /\ Reversible(h, g)
        /\ \A o \in gone : ~ HasTransfers(ts, o)
        /\ orders' = Delete(os, gone)
        /\ receipts' = WithoutOrders(rs, gone)
        /\ transfers' = ts
        /\ issued' = IF opens THEN issued \cup {to} ELSE issued
  /\ work' = [work EXCEPT ![h] = [step |-> "idle"]]

\* Refreshing the matches binds a receipt that has no order: the receipt is
\* written, then the balance is read.
BeginBind(h, r, o) ==
  /\ r \in DOMAIN receipts /\ receipts[r].order = NoOrder /\ o \in DOMAIN orders
  /\ Begin(h, [op |-> "bind", receipt |-> r, order |-> o])

CommitBind(h) ==
  /\ Is(h, "open", "bind")
  /\ LET job == work[h].job
         rs == Moved(receipts, {job.receipt}, job.order)
     IN /\ Held(h, {job.receipt}) /\ job.order \in DOMAIN orders
        /\ receipts' = rs
        /\ orders' = Refreshed(work[h].view, orders, rs, {}, {job.receipt}, {job.order})
  /\ work' = [work EXCEPT ![h] = [step |-> "idle"]]
  /\ UNCHANGED <<transfers, issued>>

-----------------------------------------------------------------------------
(* Invoices.                                                               *)

\* An invoice adds to an order that exists, or creates one.  Saving an
\* invoice refreshes the order afterwards, adding a single order does not.
\* The orders that either then merges are merged in transactions of their
\* own (BeginMerge, CommitMerge).
Bill(h, o, amount, saving) ==
  /\ Idle(h) /\ "bill" \in Ops
  /\ o \in DOMAIN orders \cup {NewOrder} /\ (o = NewOrder => Orders \ issued # {})
  /\ amount + (IF o = NewOrder THEN 0 ELSE orders[o].amount) <= MaxAmount
  /\ LET target == IF o = NewOrder THEN New(Orders) ELSE o
     IN /\ orders' = IF o = NewOrder
                     THEN With(orders, target, [amount |-> amount, cached |-> amount, pool |-> FALSE])
                     ELSE [orders EXCEPT ![o].amount = @ + amount, ![o].cached = @ + amount]
        /\ issued' = issued \cup {target}
        /\ work' = [work EXCEPT ![h] = Owes(IF saving THEN {target} ELSE {}, saving)]
  /\ UNCHANGED <<receipts, transfers>>

\* An order's form is saved with an amount, or with the one that was read.
BeginUpdate(h, o, amount) ==
  /\ o \in DOMAIN orders /\ amount \in Amounts \cup {0, orders[o].amount} /\ amount >= 0
  /\ Begin(h, [op |-> "update", order |-> o, amount |-> amount])

CommitUpdate(h) ==
  /\ Is(h, "checked", "update")
  /\ LET o == work[h].job.order
     IN /\ o \in DOMAIN orders
        /\ orders' = [orders EXCEPT ![o].amount = work[h].job.amount]
        /\ work' = [work EXCEPT ![h] = Owes({o}, FALSE)]
  /\ UNCHANGED <<receipts, transfers, issued>>

\* A pool order becomes the order of an invoice, or is merged into the order
\* that the invoice already has; saving the invoice adds "amount" to that
\* one first, a repair adds nothing and keeps the amount of the pool order.
BeginMigrate(h, o, to, amount, saving) ==
  /\ o \in DOMAIN orders /\ orders[o].pool
  /\ to \in DOMAIN orders \cup {NoOrder} /\ (to # NoOrder => ~ orders[to].pool)
  /\ IF saving THEN amount > 0 ELSE amount = 0
  /\ Begin(h, [op |-> "migrate", order |-> o, to |-> to, amount |-> amount, saving |-> saving])

CommitMigrate(h) ==
  /\ Is(h, "open", "migrate")
  /\ LET job == work[h].job
         o == job.order
         view == work[h].view
         kept == IF job.to = NoOrder THEN o ELSE job.to
         sum == IF job.to = NoOrder /\ ~ job.saving THEN view.orders[o].amount ELSE job.amount
         moved == ReceiptsOf(receipts, o)
         rs == IF job.to = NoOrder THEN receipts ELSE Moved(receipts, moved, kept)
         os == IF job.to = NoOrder
               THEN [orders EXCEPT ![o].amount = sum, ![o].pool = FALSE]
               ELSE [Delete(orders, {o}) EXCEPT ![kept].amount = @ + sum,
                                                ![kept].cached = @ + sum]
     IN /\ {o, kept} \subseteq DOMAIN orders \cap DOMAIN view.orders /\ view.orders[o].pool
        /\ job.to = NoOrder => sum > 0
        /\ job.to # NoOrder => ~ HasTransfers(transfers, o)
        /\ receipts' = rs
        /\ orders' = Refreshed(view, os, rs,
                               IF job.to = NoOrder \/ sum > 0 THEN {kept} ELSE {},
                               moved, {kept})
        /\ work' = [work EXCEPT ![h] = Owes(IF job.saving THEN {kept} ELSE {}, TRUE)]
  /\ UNCHANGED <<transfers, issued>>

\* A saved invoice takes over a deposit whose number contains the order's.
MergeDeposit(h, d, o) ==
  /\ work[h].step = "owes" /\ work[h].saving /\ o \in work[h].due \cap DOMAIN orders
  /\ d \in DOMAIN receipts /\ receipts[d].deposit
  /\ receipts' = [receipts EXCEPT ![d].order = o, ![d].deposit = FALSE]
  /\ UNCHANGED <<orders, transfers, issued, work>>

\* Orders with one number, or of one group, become one: the amounts that
\* were read before the transaction are added, or dropped ("keep", and the
\* automatic merge of equal numbers).
BeginMerge(h, sources, to, keep) ==
  /\ sources \subseteq DOMAIN orders /\ sources # {}
  /\ to \in DOMAIN orders \ sources \/ (to = NewOrder /\ ~ keep /\ Cardinality(sources) > 1)
  /\ \A o \in sources \cup ({to} \ {NewOrder}) : ~ orders[o].pool
  /\ Begin(h, [op |-> "merge", sources |-> sources, to |-> to,
               add |-> IF keep THEN 0 ELSE Balance([o \in sources |-> orders[o].amount])])

CommitMerge(h) ==
  /\ Is(h, "open", "merge")
  /\ LET job == work[h].job
         opens == job.to = NewOrder
         to == IF opens THEN New(Orders) ELSE job.to
         moved == {r \in DOMAIN receipts : receipts[r].order \in job.sources}
         rs == Moved(receipts, moved, to)
         left == Delete(orders, job.sources)
         os == IF opens THEN With(left, to, [amount |-> job.add, cached |-> 0, pool |-> FALSE])
               ELSE [left EXCEPT ![to].amount = @ + job.add]
     IN /\ job.sources \subseteq DOMAIN orders /\ (opens => Orders \ issued # {})
        /\ to \in DOMAIN os
        /\ \A o \in job.sources : ~ HasTransfers(transfers, o)
        /\ Held(h, moved) /\ moved = {r \in DOMAIN work[h].view.receipts :
                                        work[h].view.receipts[r].order \in job.sources}
        /\ receipts' = rs
        /\ orders' = Refreshed(work[h].view, os, rs, IF opens \/ job.add # 0 THEN {to} ELSE {},
                               moved, {to})
        /\ issued' = issued \cup {to}
  /\ work' = [work EXCEPT ![h] = [step |-> "idle"]]
  /\ UNCHANGED transfers

\* An order without receipts is deleted, by hand, with its invoice, or as one
\* of the empty orders that refreshing the matches clears away.
BeginDeleteOrder(h, o) ==
  /\ o \in DOMAIN orders /\ ReceiptsOf(receipts, o) = {}
  /\ Begin(h, [op |-> "deleteOrder", order |-> o])

CommitDeleteOrder(h) ==
  /\ Is(h, "checked", "deleteOrder")
  /\ LET o == work[h].job.order
     IN /\ o \in DOMAIN orders /\ ~ HasTransfers(transfers, o)
        /\ orders' = Delete(orders, {o})
        /\ receipts' = WithoutOrders(receipts, {o})
  /\ work' = [work EXCEPT ![h] = [step |-> "idle"]]
  /\ UNCHANGED <<transfers, issued>>

-----------------------------------------------------------------------------

Init ==
  \E sums \in [Invoiced -> Amounts], payees \in [Entered -> Invoiced],
     usd \in [Entered -> Amounts], deposits \in [Entered -> {FALSE, Deposits}] :
    /\ receipts = [r \in Entered |-> [order |-> payees[r], usd |-> usd[r],
                                     status |-> "SR_Received", deposit |-> deposits[r]]]
    /\ orders = [o \in Invoiced |-> [amount |-> sums[o], pool |-> FALSE,
                                    cached |-> sums[o] - Total(receipts, ReceiptsOf(receipts, o))]]
    /\ transfers = <<>> /\ issued = Invoiced \cup Entered
    /\ work = [h \in Handlers |-> [step |-> "idle"]]

ReceiptRequests(h) ==
  \/ \E o \in DOMAIN orders \cup {NewOrder, NoOrder}, usd \in Amounts, deposit \in {FALSE, Deposits} :
       CreateReceipt(h, o, usd, deposit) \/ CreateSession(h, o, usd, deposit)
  \/ \E r \in DOMAIN receipts :
       \/ BeginFinalise(h, r) \/ MarkReceived(h, r) \/ DeleteReceipt(h, r)
       \/ \E to \in DOMAIN orders \cup {NewOrder, NoOrder} : OpenEdit(h, r, to)
       \/ \E o \in DOMAIN orders : BeginBind(h, r, o)
  \/ CommitFinalise(h) \/ CommitEdit(h) \/ CommitBind(h)

TransferRequests(h) ==
  \/ \E from \in DOMAIN orders, to \in DOMAIN orders \cup {NewOrder}, amount \in Amounts :
       BeginTransfer(h, from, to, amount)
  \/ \E g \in DOMAIN transfers : OpenReverse(h, g)
  \/ CommitTransfer(h) \/ CommitReverse(h)

InvoiceRequests(h) ==
  \/ \E o \in DOMAIN orders :
       \/ BeginDeleteOrder(h, o) \/ Repair(h, o)
       \/ \E amount \in Amounts \cup {0, orders[o].amount} :
            \/ BeginUpdate(h, o, amount)
            \/ \E to \in DOMAIN orders \cup {NoOrder}, saving \in BOOLEAN :
                 BeginMigrate(h, o, to, amount, saving)
  \/ \E o \in DOMAIN orders \cup {NewOrder}, amount \in Amounts, saving \in BOOLEAN :
       Bill(h, o, amount, saving)
  \/ \E sources \in SUBSET DOMAIN orders, to \in DOMAIN orders \cup {NewOrder}, keep \in BOOLEAN :
       BeginMerge(h, sources, to, keep)
  \/ \E d \in DOMAIN receipts, o \in DOMAIN orders : MergeDeposit(h, d, o)
  \/ CommitUpdate(h) \/ CommitMigrate(h) \/ CommitMerge(h) \/ CommitDeleteOrder(h)

Next == \E h \in Handlers :
  \/ ReceiptRequests(h) \/ TransferRequests(h) \/ InvoiceRequests(h)
  \/ Open(h) \/ ReadBalance(h) \/ WriteBalance(h) \/ Refuse(h) \/ Crash(h)

Spec == Init /\ [][Next]_vars
=============================================================================
