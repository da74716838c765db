----------------------- MODULE OrderLedgerProperties -----------------------
(***************************************************************************)
(* What the balances of orders promise.                                    *)
(***************************************************************************)
EXTENDS OrderLedger

IsTable(table, Keys, Rows) == DOMAIN table \subseteq Keys /\ table \in [DOMAIN table -> Rows]

AreTables(os, rs, ts) ==
  IsTable(os, Orders, Order) /\ IsTable(rs, Receipts, Receipt) /\ IsTable(ts, Receipts, Transfer)

Jobs ==
  [op : {"sign"}, receipt : Receipts, order : Orders \cup {NoOrder}]
    \cup [op : {"edit"}, receipt : Receipts, to : Orders \cup {NewOrder, NoOrder}]
    \cup [op : {"bind"}, receipt : Receipts, order : Orders]
    \cup [op : {"transfer"}, from : Orders, to : Orders \cup {NewOrder}, amount : Amounts]
    \cup [op : {"reverse"}, transfer : Receipts]
    \cup [op : {"update"}, order : Orders, amount : Nat]
    \cup {job \in [op : {"migrate"}, order : Orders, to : Orders \cup {NoOrder}, amount : Nat,
                   saving : BOOLEAN] : job.order # job.to}
    \cup [op : {"merge"}, sources : SUBSET Orders, to : Orders \cup {NewOrder}, add : Int]
    \cup [op : {"deleteOrder"}, order : Orders]

\* What a handler may be at.
IsTask(task) ==
  /\ task.step \in {"idle", "checked", "open", "owes", "read"}
  /\ task.step \in {"checked", "open"} => task.job \in Jobs
  /\ task.step = "open" =>
       AreTables(task.view.orders, task.view.receipts, task.view.transfers)
  /\ task.step \in {"owes", "read"} => task.due \subseteq Orders /\ task.saving \in BOOLEAN
  /\ task.step = "read" => task.order \in Orders /\ task.owed \in Int /\ task.matches \in BOOLEAN

\* Every row and every task is well formed, and receipts refer to orders
\* that exist (the columns of Order, Receipt and BalanceTransfer).
TypeOK ==
  /\ AreTables(orders, receipts, transfers)
  /\ DOMAIN orders \cup DOMAIN receipts \cup DOMAIN transfers \subseteq issued
  /\ \A r \in DOMAIN receipts : receipts[r].order \in DOMAIN orders \cup {NoOrder}
  /\ DOMAIN work = Handlers /\ \A h \in Handlers : IsTask(work[h])

\* A transfer and the receipt it generated live and die together: whatever
\* is edited, merged, moved, deleted or reversed, the receipt of a recorded
\* transfer exists with the amount that was moved, counts in the balance of
\* its target (an administrator may rebind it only after marking it received)
\* and both orders exist.
TransfersArePaired ==
  \A g \in DOMAIN transfers :
    LET t == transfers[g]
    IN /\ g \in DOMAIN receipts /\ receipts[g].usd = t.amount /\ Counted(receipts[g])
       /\ receipts[g].status = "Bank_Transfer" => receipts[g].order = t.to
       /\ {t.from, t.to} \subseteq DOMAIN orders

\* The amount of an order without what its transfers added to it.
Billed(o) ==
  orders[o].amount
    - SumOf([g \in {t \in DOMAIN transfers : transfers[t].from = o} |-> transfers[g].amount])

\* What was invoiced for an order changes only when an invoice, an order's
\* form or a merge says so: transfers, reversals, edits, signatures and
\* deletions of receipts, in any interleaving and whatever they retry, leave
\* it alone, so that a transfer raises its source once and a reversal, also
\* one of two concurrent ones, lowers it once.
TransfersKeepWhatWasBilled ==
  [][ \/ \A o \in DOMAIN orders \cap DOMAIN orders' : Billed(o)' = Billed(o)
      \/ \E h \in Handlers : InvoiceRequests(h) ]_vars

\* With one request at a time and no crash, an order that no deposit has
\* touched has the cached balance it owes whenever the request is over: every
\* operation refreshes every order whose amount or receipts it has changed.
CacheIsRight ==
  (\A h \in Handlers : Idle(h)) =>
    \A o \in DOMAIN orders : orders[o].cached = Owed(orders, receipts, o)

\* A receipt that an edit binds to another order is not counted there a
\* second time: no transfer of the same sum from its old order to the new one
\* is left.
PaymentCountsOnce ==
  [][ \A h \in Handlers, r \in DOMAIN receipts :
        CommitEdit(h) /\ work[h].job.receipt = r =>
          \A g \in DOMAIN transfers' :
            transfers'[g] # [from |-> receipts[r].order, to |-> receipts'[r].order,
                             amount |-> receipts[r].usd] ]_vars

\* Reversing the transfer while the receipt follows it leaves every balance
\* where it was, unless the receipt is still to be signed.
ReversalByEditIsNeutral ==
  [][ \A h \in Handlers :
        CommitEdit(h) /\ transfers' # transfers /\ Counted(receipts[work[h].job.receipt]) =>
          \A o \in DOMAIN orders \cap DOMAIN orders' :
            Owed(orders', receipts', o) = Owed(orders, receipts, o) ]_vars
=============================================================================
