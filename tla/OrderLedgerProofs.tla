------------------------- MODULE OrderLedgerProofs -------------------------
(***************************************************************************)
(* Theorems about the balances of orders.                                  *)
(***************************************************************************)
EXTENDS OrderLedgerProperties, FiniteSetTheorems, TLAPS

-----------------------------------------------------------------------------
(* Sums of money.                                                          *)

\* The units of a finite table of amounts form a finite set.
LEMMA UnitsFinite ==
  ASSUME NEW D, IsFiniteSet(D), NEW sums \in [D -> Int]
  PROVE  IsFiniteSet(Units(sums))
<1> DEFINE F == {{x} \X (1..sums[x]) : x \in D}
           f == [x \in D |-> {x} \X (1..sums[x])]
<1>1. f \in Surjection(D, F)
  BY DEF Surjection
<1>2. IsFiniteSet(F)
  BY <1>1, FS_Surjection
<1>3. \A T \in F : IsFiniteSet(T)
  <2> SUFFICES ASSUME NEW x \in D
               PROVE  IsFiniteSet({x} \X (1..sums[x]))
    OBVIOUS
  <2>1. sums[x] \in Int /\ 1 \in Int
    OBVIOUS
  <2>2. IsFiniteSet(1..sums[x])
    BY <2>1, FS_Interval
  <2>3. IsFiniteSet({x})
    BY FS_Singleton
  <2> QED
    BY <2>2, <2>3, FS_Product
<1>4. Units(sums) = UNION F
  BY DEF Units
<1> QED
  BY <1>2, <1>3, <1>4, FS_UNION

\* A sum is a natural number, a balance an integer.
LEMMA SumOfType ==
  ASSUME NEW D, IsFiniteSet(D), NEW sums \in [D -> Int]
  PROVE  SumOf(sums) \in Nat
BY UnitsFinite, FS_CardinalityType DEF SumOf

LEMMA BalanceType ==
  ASSUME NEW D, IsFiniteSet(D), NEW sums \in [D -> Int]
  PROVE  Balance(sums) \in Int
<1>1. [x \in D |-> -sums[x]] \in [D -> Int]
  OBVIOUS
<1>2. DOMAIN sums = D
  OBVIOUS
<1> QED
  BY <1>1, <1>2, SumOfType DEF Balance

\* One more row adds its amount.
LEMMA SumOfAdded ==
  ASSUME NEW D, IsFiniteSet(D), NEW sums \in [D -> Nat], NEW x, x \notin D, NEW n \in Nat,
         NEW more \in [D \cup {x} -> Nat],
         more[x] = n, \A y \in D : more[y] = sums[y]
  PROVE  SumOf(more) = SumOf(sums) + n
<1> DEFINE U == {x} \X (1..n)
<1>1. Units(more) = Units(sums) \cup U
  BY DEF Units
<1>2. Units(sums) \cap U = {}
  BY DEF Units
<1>3. IsFiniteSet(Units(sums))
  BY UnitsFinite
<1>4. IsFiniteSet(U) /\ Cardinality(U) = n
  <2>1. IsFiniteSet(1..n) /\ Cardinality(1..n) = n
    BY FS_Interval
  <2>2. IsFiniteSet({x}) /\ Cardinality({x}) = 1
    BY FS_Singleton
  <2>3. IsFiniteSet(U) /\ Cardinality(U) = Cardinality({x}) * Cardinality(1..n)
    BY <2>1, <2>2, FS_Product
  <2>4. Cardinality(U) = 1 * n
    BY <2>1, <2>2, <2>3
  <2> QED
    BY <2>3, <2>4
<1> HIDE DEF U
<1>5. Cardinality(Units(sums) \cup U)
        = Cardinality(Units(sums)) + Cardinality(U) - Cardinality(Units(sums) \cap U)
  BY <1>3, <1>4, FS_Union
<1>6. Cardinality(Units(sums) \cap U) = 0
  BY <1>2, FS_EmptySet
<1>7. Cardinality(Units(sums)) \in Nat
  BY <1>3, FS_CardinalityType
<1>8. Cardinality(Units(more)) = Cardinality(Units(sums)) + n
  BY <1>1, <1>4, <1>5, <1>6, <1>7
<1> QED
  BY <1>8 DEF SumOf

\* Nothing sums to zero.
LEMMA SumOfNothing == \A sums : DOMAIN sums = {} => SumOf(sums) = 0
<1> SUFFICES ASSUME NEW sums, DOMAIN sums = {}
             PROVE  SumOf(sums) = 0
  OBVIOUS
<1>1. Units(sums) = {}
  BY DEF Units
<1> QED
  BY <1>1, FS_EmptySet DEF SumOf

\* What is counted for an order is a natural number.
LEMMA TotalType ==
  ASSUME NEW rs, IsTable(rs, Receipts, Receipt), NEW R \in SUBSET DOMAIN rs
  PROVE  Total(rs, R) \in Nat
<1>1. IsFiniteSet(R)
  BY IdentifiersAssumption, FS_Subset DEF IsTable
<1>2. [r \in R |-> rs[r].usd] \in [R -> Int]
  BY LedgerAssumption DEF IsTable, Receipt
<1> QED
  BY <1>1, <1>2, SumOfType DEF Total

LEMMA OwedType ==
  ASSUME NEW os, IsTable(os, Orders, Order), NEW rs, IsTable(rs, Receipts, Receipt),
         NEW o \in DOMAIN os
  PROVE  Owed(os, rs, o) \in Int
<1> DEFINE R == {r \in ReceiptsOf(rs, o) : Counted(rs[r])}
<1>1. R \in SUBSET DOMAIN rs
  BY DEF ReceiptsOf
<1>2. Total(rs, R) \in Nat
  BY <1>1, TotalType
<1>3. os[o].amount \in Int
  BY DEF IsTable, Order
<1> QED
  BY <1>2, <1>3 DEF Owed

\* What an order owes depends on its amount and its counted receipts only.
LEMMA OwedAgrees ==
  ASSUME NEW os, NEW rs, NEW os2, NEW rs2, NEW o,
         os[o].amount = os2[o].amount,
         \A r : (r \in DOMAIN rs /\ rs[r].order = o /\ Counted(rs[r]))
                  <=> (r \in DOMAIN rs2 /\ rs2[r].order = o /\ Counted(rs2[r])),
         \A r \in DOMAIN rs : rs[r].order = o /\ Counted(rs[r]) => rs[r].usd = rs2[r].usd
  PROVE  Owed(os, rs, o) = Owed(os2, rs2, o)
<1> DEFINE R == {r \in ReceiptsOf(rs, o) : Counted(rs[r])}
           R2 == {r \in ReceiptsOf(rs2, o) : Counted(rs2[r])}
<1>1. R = R2
  BY DEF ReceiptsOf
<1>2. [r \in R |-> rs[r].usd] = [r \in R2 |-> rs2[r].usd]
  BY <1>1 DEF ReceiptsOf
<1>3. Total(rs, R) = Total(rs2, R2)
  BY <1>2 DEF Total
<1> QED
  BY <1>3 DEF Owed

-----------------------------------------------------------------------------
(* Tables.                                                                 *)

LEMMA WithTable ==
  ASSUME NEW Keys, NEW Rows, NEW table, IsTable(table, Keys, Rows),
         NEW x \in Keys, NEW row \in Rows
  PROVE  /\ IsTable(With(table, x, row), Keys, Rows)
         /\ DOMAIN With(table, x, row) = DOMAIN table \cup {x}
         /\ With(table, x, row)[x] = row
         /\ \A y \in DOMAIN table \ {x} : With(table, x, row)[y] = table[y]
BY DEF IsTable, With

LEMMA DeleteTable ==
  ASSUME NEW Keys, NEW Rows, NEW table, IsTable(table, Keys, Rows), NEW S
  PROVE  /\ IsTable(Delete(table, S), Keys, Rows)
         /\ DOMAIN Delete(table, S) = DOMAIN table \ S
         /\ \A y \in DOMAIN table \ S : Delete(table, S)[y] = table[y]
BY DEF IsTable, Delete, Restrict

LEMMA OverlayTable ==
  ASSUME NEW Keys, NEW Rows, NEW seen, IsTable(seen, Keys, Rows),
         NEW latest, IsTable(latest, Keys, Rows), NEW own
  PROVE  /\ IsTable(Overlay(seen, latest, own), Keys, Rows)
         /\ DOMAIN Overlay(seen, latest, own) = (DOMAIN seen \ own) \cup (DOMAIN latest \cap own)
         /\ \A x \in DOMAIN Overlay(seen, latest, own) :
              Overlay(seen, latest, own)[x] = IF x \in own THEN latest[x] ELSE seen[x]
BY DEF IsTable, Overlay

\* A receipt that is moved keeps everything but its order.
LEMMA MovedTable ==
  ASSUME NEW rs, IsTable(rs, Receipts, Receipt), NEW R, NEW o \in Orders \cup {NoOrder}
  PROVE  /\ IsTable(Moved(rs, R, o), Receipts, Receipt)
         /\ DOMAIN Moved(rs, R, o) = DOMAIN rs
         /\ \A r \in DOMAIN rs :
              /\ Moved(rs, R, o)[r].usd = rs[r].usd
              /\ Moved(rs, R, o)[r].status = rs[r].status
              /\ Moved(rs, R, o)[r].deposit = rs[r].deposit
              /\ Moved(rs, R, o)[r].order = IF r \in R THEN o ELSE rs[r].order
BY DEF IsTable, Moved, Receipt

LEMMA WithoutOrdersTable ==
  ASSUME NEW rs, IsTable(rs, Receipts, Receipt), NEW S
  PROVE  /\ IsTable(WithoutOrders(rs, S), Receipts, Receipt)
         /\ DOMAIN WithoutOrders(rs, S) = DOMAIN rs
         /\ \A r \in DOMAIN rs :
              /\ WithoutOrders(rs, S)[r].usd = rs[r].usd
              /\ WithoutOrders(rs, S)[r].status = rs[r].status
              /\ WithoutOrders(rs, S)[r].deposit = rs[r].deposit
              /\ WithoutOrders(rs, S)[r].order =
                   IF rs[r].order \in S THEN NoOrder ELSE rs[r].order
<1> DEFINE R == {r \in DOMAIN rs : rs[r].order \in S}
<1> HIDE DEF R
<1>1. WithoutOrders(rs, S) = Moved(rs, R, NoOrder)
  BY DEF WithoutOrders, R
<1>2. \A r \in DOMAIN rs : r \in R <=> rs[r].order \in S
  BY DEF R
<1> QED
  BY <1>1, <1>2, MovedTable

\* Refreshing changes nothing but cached balances.
LEMMA RefreshedTable ==
  ASSUME NEW view, IsTable(view.orders, Orders, Order), IsTable(view.receipts, Receipts, Receipt),
         NEW os, IsTable(os, Orders, Order), NEW rs, IsTable(rs, Receipts, Receipt),
         NEW O, NEW R, NEW due
  PROVE  /\ IsTable(Refreshed(view, os, rs, O, R, due), Orders, Order)
         /\ DOMAIN Refreshed(view, os, rs, O, R, due) = DOMAIN os
         /\ \A o \in DOMAIN os :
              /\ Refreshed(view, os, rs, O, R, due)[o].amount = os[o].amount
              /\ Refreshed(view, os, rs, O, R, due)[o].pool = os[o].pool
<1> DEFINE seen == Overlay(view.orders, os, O)
           seenReceipts == Overlay(view.receipts, rs, R)
           new == Refreshed(view, os, rs, O, R, due)
<1>1. IsTable(seen, Orders, Order) /\ IsTable(seenReceipts, Receipts, Receipt)
  BY OverlayTable
<1> HIDE DEF seen, seenReceipts
<1>2. \A o \in DOMAIN seen : Owed(seen, seenReceipts, o) \in Int
  BY <1>1, OwedType
<1>3. DOMAIN new = DOMAIN os
  BY DEF Refreshed
<1>4. ASSUME NEW o \in DOMAIN os
      PROVE  new[o] \in Order /\ new[o].amount = os[o].amount /\ new[o].pool = os[o].pool
  <2> DEFINE owed == Owed(seen, seenReceipts, o)
  <2>1. os[o] \in Order
    BY DEF IsTable
  <2>2. new[o] = IF o \in due \cap DOMAIN seen
                 THEN IF seen[o].cached = owed THEN os[o] ELSE [os[o] EXCEPT !.cached = owed]
                 ELSE os[o]
    BY DEF Refreshed, seen, seenReceipts
  <2>3. o \in DOMAIN seen => owed \in Int
    BY <1>2
  <2> HIDE DEF new, owed
  <2> QED
    BY <2>1, <2>2, <2>3 DEF Order
<1>5. new = [o \in DOMAIN new |-> new[o]]
  BY DEF Refreshed
<1> HIDE DEF new
<1>6. IsTable(new, Orders, Order)
  BY <1>3, <1>4, <1>5 DEF IsTable
<1> QED
  BY <1>3, <1>4, <1>6 DEF new

\* An identifier that is given out is a new one.
LEMMA NewIsNew ==
  ASSUME NEW S, S \ issued # {}
  PROVE  New(S) \in S /\ New(S) \notin issued
BY DEF New

-----------------------------------------------------------------------------
(* What the tables have in common, and how each kind of write keeps it.    *)

\* Identifiers were given out, receipts refer to orders, transfers are paired
\* with receipts that are no deposits, and deposits need that there may be any.
Sound(os, rs, ts, ids) ==
  /\ AreTables(os, rs, ts)
  /\ DOMAIN os \cup DOMAIN rs \cup DOMAIN ts \subseteq ids
  /\ \A r \in DOMAIN rs : rs[r].order \in DOMAIN os \cup {NoOrder} /\ (rs[r].deposit => Deposits)
  /\ \A g \in DOMAIN ts :
       /\ g \in DOMAIN rs /\ rs[g].usd = ts[g].amount /\ Counted(rs[g]) /\ ~ rs[g].deposit
       /\ rs[g].status = "Bank_Transfer" => rs[g].order = ts[g].to
       /\ {ts[g].from, ts[g].to} \subseteq DOMAIN os

\* Rows of transfers never change, rows of receipts keep their sum and do not
\* become those of a transfer; other rows are new.
Lasting(rs, ts, ids, rs2, ts2) ==
  /\ \A g \in DOMAIN ts2 : (g \in DOMAIN ts /\ ts2[g] = ts[g]) \/ g \notin ids
  /\ \A r \in DOMAIN rs2 :
       \/ r \in DOMAIN rs /\ (rs2[r].status = "Bank_Transfer" => rs[r].status = "Bank_Transfer")
       \/ r \notin ids

LEMMA LastingStays == \A rs, ts, ids : Lasting(rs, ts, ids, rs, ts)
BY DEF Lasting

LEMMA IsTables ==
  ASSUME NEW os, NEW rs, NEW ts, NEW ids, Sound(os, rs, ts, ids)
  PROVE  IsTable(os, Orders, Order) /\ IsTable(rs, Receipts, Receipt) /\ IsTable(ts, Receipts, Transfer)
BY DEF Sound, AreTables

\* Orders that change without coming or going.
LEMMA SoundOrders ==
  ASSUME NEW os, NEW rs, NEW ts, NEW ids, Sound(os, rs, ts, ids),
         NEW os2, IsTable(os2, Orders, Order), DOMAIN os2 = DOMAIN os
  PROVE  Sound(os2, rs, ts, ids)
BY DEF Sound, AreTables

LEMMA SoundMoreIds ==
  ASSUME NEW os, NEW rs, NEW ts, NEW ids, Sound(os, rs, ts, ids), NEW ids2, ids \subseteq ids2
  PROVE  Sound(os, rs, ts, ids2)
BY DEF Sound

LEMMA SoundNewOrder ==
  ASSUME NEW os, NEW rs, NEW ts, NEW ids, Sound(os, rs, ts, ids), NEW x \in Orders,
         NEW row \in Order
  PROVE  Sound(With(os, x, row), rs, ts, ids \cup {x})
<1>1. IsTable(With(os, x, row), Orders, Order) /\ DOMAIN With(os, x, row) = DOMAIN os \cup {x}
  BY WithTable, IsTables
<1> QED
  BY <1>1 DEF Sound, AreTables

LEMMA SoundNewReceipt ==
  ASSUME NEW os, NEW rs, NEW ts, NEW ids, Sound(os, rs, ts, ids), NEW r \in Receipts,
         NEW row \in Receipt, r \notin ids, row.order \in DOMAIN os \cup {NoOrder},
         row.deposit => Deposits
  PROVE  /\ Sound(os, With(rs, r, row), ts, ids \cup {r})
         /\ Lasting(rs, ts, ids, With(rs, r, row), ts)
<1>1. /\ IsTable(With(rs, r, row), Receipts, Receipt)
      /\ DOMAIN With(rs, r, row) = DOMAIN rs \cup {r} /\ With(rs, r, row)[r] = row
      /\ \A y \in DOMAIN rs \ {r} : With(rs, r, row)[y] = rs[y]
  <2>1. IsTable(rs, Receipts, Receipt)
    BY IsTables
  <2> QED
    BY <2>1, r \in Receipts, row \in Receipt DEF IsTable, With
<1>2. r \notin DOMAIN ts /\ r \notin DOMAIN rs
  BY DEF Sound
<1> HIDE DEF With
<1>3. Sound(os, With(rs, r, row), ts, ids \cup {r})
  BY <1>1, <1>2 DEF Sound, AreTables
<1>4. Lasting(rs, ts, ids, With(rs, r, row), ts)
  BY <1>1, <1>2 DEF Lasting
<1> QED
  BY <1>3, <1>4

\* A transfer with its receipt.
LEMMA SoundNewTransfer ==
  ASSUME NEW os, NEW rs, NEW ts, NEW ids, Sound(os, rs, ts, ids), NEW g \in Receipts, g \notin ids,
         NEW from \in DOMAIN os, NEW to \in DOMAIN os, NEW amount \in Amounts
  PROVE  LET rs2 == With(rs, g, [order |-> to, usd |-> amount, status |-> "Bank_Transfer",
                                 deposit |-> FALSE])
             ts2 == With(ts, g, [from |-> from, to |-> to, amount |-> amount])
         IN Sound(os, rs2, ts2, ids \cup {g}) /\ Lasting(rs, ts, ids, rs2, ts2)
<1> DEFINE row == [order |-> to, usd |-> amount, status |-> "Bank_Transfer", deposit |-> FALSE]
           t == [from |-> from, to |-> to, amount |-> amount]
           rs2 == With(rs, g, row)
           ts2 == With(ts, g, t)
<1>1. row \in Receipt /\ t \in Transfer
  BY DEF Receipt, Transfer, Statuses, Sound, AreTables, IsTable
<1>2. /\ row.order = to /\ row.usd = amount /\ row.status = "Bank_Transfer" /\ ~ row.deposit
      /\ t.from = from /\ t.to = to /\ t.amount = amount /\ Counted(row)
  BY DEF Counted
<1> HIDE DEF row, t
<1>3. /\ IsTable(rs2, Receipts, Receipt) /\ DOMAIN rs2 = DOMAIN rs \cup {g} /\ rs2[g] = row
      /\ \A y \in DOMAIN rs \ {g} : rs2[y] = rs[y]
  <2>1. IsTable(rs, Receipts, Receipt)
    BY IsTables
  <2> QED
    BY <2>1, <1>1, g \in Receipts DEF IsTable, With
<1>4. /\ IsTable(ts2, Receipts, Transfer) /\ DOMAIN ts2 = DOMAIN ts \cup {g} /\ ts2[g] = t
      /\ \A y \in DOMAIN ts \ {g} : ts2[y] = ts[y]
  <2>1. IsTable(ts, Receipts, Transfer)
    BY IsTables
  <2> QED
    BY <2>1, <1>1, g \in Receipts DEF IsTable, With
<1>5. g \notin DOMAIN ts /\ g \notin DOMAIN rs
  BY DEF Sound
<1> HIDE DEF rs2, ts2
<1>6. Sound(os, rs2, ts2, ids \cup {g})
  BY <1>2, <1>3, <1>4, <1>5 DEF Sound, AreTables
<1>7. Lasting(rs, ts, ids, rs2, ts2)
  BY <1>3, <1>4, <1>5 DEF Lasting
<1> QED
  BY <1>6, <1>7 DEF rs2, ts2, row, t

\* Receipts are moved that do not hold the sum of a transfer for its target.
LEMMA SoundMoved ==
  ASSUME NEW os, NEW rs, NEW ts, NEW ids, Sound(os, rs, ts, ids), NEW R,
         NEW o \in DOMAIN os \cup {NoOrder},
         \A r \in R \cap DOMAIN rs \cap DOMAIN ts : rs[r].status # "Bank_Transfer"
  PROVE  Sound(os, Moved(rs, R, o), ts, ids) /\ Lasting(rs, ts, ids, Moved(rs, R, o), ts)
<1>0. o \in Orders \cup {NoOrder}
  BY DEF Sound, AreTables, IsTable
<1>1. /\ IsTable(Moved(rs, R, o), Receipts, Receipt) /\ DOMAIN Moved(rs, R, o) = DOMAIN rs
      /\ \A r \in DOMAIN rs :
           /\ Moved(rs, R, o)[r].usd = rs[r].usd
           /\ Moved(rs, R, o)[r].status = rs[r].status
           /\ Moved(rs, R, o)[r].deposit = rs[r].deposit
           /\ Moved(rs, R, o)[r].order = IF r \in R THEN o ELSE rs[r].order
  BY <1>0, MovedTable DEF Sound, AreTables
<1>2. Sound(os, Moved(rs, R, o), ts, ids)
  BY <1>1 DEF Sound, AreTables, Counted
<1>3. Lasting(rs, ts, ids, Moved(rs, R, o), ts)
  BY <1>1 DEF Lasting
<1> QED
  BY <1>2, <1>3

\* Orders without transfers go, and their receipts lose them.
LEMMA SoundWithout ==
  ASSUME NEW os, NEW rs, NEW ts, NEW ids, Sound(os, rs, ts, ids), NEW S,
         \A o \in S : ~ HasTransfers(ts, o)
  PROVE  /\ Sound(Delete(os, S), WithoutOrders(rs, S), ts, ids)
         /\ Lasting(rs, ts, ids, WithoutOrders(rs, S), ts)
<1>1. /\ IsTable(WithoutOrders(rs, S), Receipts, Receipt) /\ DOMAIN WithoutOrders(rs, S) = DOMAIN rs
      /\ \A r \in DOMAIN rs :
           /\ WithoutOrders(rs, S)[r].usd = rs[r].usd
           /\ WithoutOrders(rs, S)[r].status = rs[r].status
           /\ WithoutOrders(rs, S)[r].deposit = rs[r].deposit
           /\ WithoutOrders(rs, S)[r].order = IF rs[r].order \in S THEN NoOrder ELSE rs[r].order
  BY WithoutOrdersTable DEF Sound, AreTables
<1>2. IsTable(Delete(os, S), Orders, Order) /\ DOMAIN Delete(os, S) = DOMAIN os \ S
  <2>1. IsTable(os, Orders, Order)
    BY IsTables
  <2> QED
    BY <2>1 DEF IsTable, Delete, Restrict
<1>3. \A g \in DOMAIN ts : ts[g].from \notin S /\ ts[g].to \notin S
  BY DEF HasTransfers
<1>4. Sound(Delete(os, S), WithoutOrders(rs, S), ts, ids)
  BY <1>1, <1>2, <1>3 DEF Sound, AreTables, Counted
<1>5. Lasting(rs, ts, ids, WithoutOrders(rs, S), ts)
  BY <1>1 DEF Lasting
<1> QED
  BY <1>4, <1>5

\* Transfers go with their receipts.
LEMMA SoundUndone ==
  ASSUME NEW os, NEW rs, NEW ts, NEW ids, Sound(os, rs, ts, ids), NEW U
  PROVE  /\ Sound(os, Delete(rs, U), Delete(ts, U), ids)
         /\ Lasting(rs, ts, ids, Delete(rs, U), Delete(ts, U))
<1>1. /\ IsTable(Delete(rs, U), Receipts, Receipt) /\ DOMAIN Delete(rs, U) = DOMAIN rs \ U
      /\ \A y \in DOMAIN rs \ U : Delete(rs, U)[y] = rs[y]
  BY DeleteTable, IsTables
<1>2. /\ IsTable(Delete(ts, U), Receipts, Transfer) /\ DOMAIN Delete(ts, U) = DOMAIN ts \ U
      /\ \A y \in DOMAIN ts \ U : Delete(ts, U)[y] = ts[y]
  BY DeleteTable, IsTables
<1>3. Sound(os, Delete(rs, U), Delete(ts, U), ids)
  BY <1>1, <1>2 DEF Sound, AreTables
<1>4. Lasting(rs, ts, ids, Delete(rs, U), Delete(ts, U))
  BY <1>1, <1>2 DEF Lasting
<1> QED
  BY <1>3, <1>4

LEMMA SoundDeleted ==
  ASSUME NEW os, NEW rs, NEW ts, NEW ids, Sound(os, rs, ts, ids), NEW r, r \notin DOMAIN ts
  PROVE  /\ Sound(os, Delete(rs, {r}), ts, ids)
         /\ Lasting(rs, ts, ids, Delete(rs, {r}), ts)
<1>1. /\ IsTable(Delete(rs, {r}), Receipts, Receipt) /\ DOMAIN Delete(rs, {r}) = DOMAIN rs \ {r}
      /\ \A y \in DOMAIN rs \ {r} : Delete(rs, {r})[y] = rs[y]
  <2>1. IsTable(rs, Receipts, Receipt)
    BY IsTables
  <2> QED
    BY <2>1 DEF IsTable, Delete, Restrict
<1>2. Sound(os, Delete(rs, {r}), ts, ids)
  BY <1>1 DEF Sound, AreTables
<1>3. Lasting(rs, ts, ids, Delete(rs, {r}), ts)
  BY <1>1 DEF Lasting
<1> QED
  BY <1>2, <1>3

\* A receipt is signed or marked as received.
LEMMA SoundStatus ==
  ASSUME NEW os, NEW rs, NEW ts, NEW ids, Sound(os, rs, ts, ids), NEW r \in DOMAIN rs,
         NEW status \in {"SR_Received", "RECEIVED"}
  PROVE  /\ Sound(os, [rs EXCEPT ![r].status = status], ts, ids)
         /\ Lasting(rs, ts, ids, [rs EXCEPT ![r].status = status], ts)
<1> DEFINE rs2 == [rs EXCEPT ![r].status = status]
<1>1. /\ IsTable(rs2, Receipts, Receipt) /\ DOMAIN rs2 = DOMAIN rs
      /\ \A y \in DOMAIN rs \ {r} : rs2[y] = rs[y]
      /\ rs2[r].usd = rs[r].usd /\ rs2[r].order = rs[r].order /\ rs2[r].deposit = rs[r].deposit
      /\ rs2[r].status = status
  BY DEF Sound, AreTables, IsTable, Receipt, Statuses
<1> HIDE DEF rs2
<1>2. Sound(os, rs2, ts, ids)
  BY <1>1 DEF Sound, AreTables, Counted
<1>3. Lasting(rs, ts, ids, rs2, ts)
  BY <1>1 DEF Lasting
<1> QED
  BY <1>2, <1>3 DEF rs2

\* A deposit is taken over by an order.
LEMMA SoundDeposit ==
  ASSUME NEW os, NEW rs, NEW ts, NEW ids, Sound(os, rs, ts, ids), NEW d \in DOMAIN rs,
         rs[d].deposit, NEW o \in DOMAIN os
  PROVE  LET rs2 == [rs EXCEPT ![d].order = o, ![d].deposit = FALSE]
         IN Sound(os, rs2, ts, ids) /\ Lasting(rs, ts, ids, rs2, ts)
<1> DEFINE rs2 == [rs EXCEPT ![d].order = o, ![d].deposit = FALSE]
<1>1. d \notin DOMAIN ts
  BY DEF Sound
<1>2. o \in Orders /\ rs[d] \in Receipt
  BY DEF Sound, AreTables, IsTable
<1> DEFINE row == [[rs[d] EXCEPT !.order = o] EXCEPT !.deposit = FALSE]
<1>3. /\ row \in Receipt /\ row.order = o /\ row.status = rs[d].status
  BY <1>2 DEF Receipt
<1>4. DOMAIN rs2 = DOMAIN rs /\ rs2 = [y \in DOMAIN rs |-> IF y = d THEN row ELSE rs[y]]
  BY DEF Sound, AreTables, IsTable
<1> HIDE DEF row, rs2
<1>5. /\ IsTable(rs2, Receipts, Receipt) /\ rs2[d] = row
      /\ \A y \in DOMAIN rs \ {d} : rs2[y] = rs[y]
  BY <1>3, <1>4 DEF Sound, AreTables, IsTable
<1>6. Sound(os, rs2, ts, ids)
  BY <1>1, <1>3, <1>4, <1>5 DEF Sound, AreTables
<1>7. Lasting(rs, ts, ids, rs2, ts)
  BY <1>3, <1>4, <1>5 DEF Lasting
<1> QED
  BY <1>6, <1>7 DEF rs2

\* Orders come and go that nothing refers to.
LEMMA SoundReferred ==
  ASSUME NEW os, NEW rs, NEW ts, NEW ids, Sound(os, rs, ts, ids),
         NEW os2, IsTable(os2, Orders, Order), DOMAIN os2 \subseteq ids,
         \A r \in DOMAIN rs : rs[r].order \in DOMAIN os2 \cup {NoOrder},
         \A g \in DOMAIN ts : {ts[g].from, ts[g].to} \subseteq DOMAIN os2
  PROVE  Sound(os2, rs, ts, ids)
BY DEF Sound, AreTables

LEMMA LastingChain ==
  ASSUME NEW rs, NEW ts, NEW ids, NEW rs2, NEW ts2, NEW ids2, NEW rs3, NEW ts3,
         ids \subseteq ids2, Lasting(rs, ts, ids, rs2, ts2), Lasting(rs2, ts2, ids2, rs3, ts3)
  PROVE  Lasting(rs, ts, ids, rs3, ts3)
BY DEF Lasting

\* The amount of one order changes.
LEMMA AmountTable ==
  ASSUME NEW os, IsTable(os, Orders, Order), NEW o, NEW amount \in Int
  PROVE  LET os2 == [os EXCEPT ![o].amount = amount]
         IN /\ IsTable(os2, Orders, Order) /\ DOMAIN os2 = DOMAIN os
            /\ \A x \in DOMAIN os : /\ os2[x].amount = IF x = o THEN amount ELSE os[x].amount
                                    /\ os2[x].cached = os[x].cached /\ os2[x].pool = os[x].pool
BY DEF IsTable, Order

LEMMA LoweredTable ==
  ASSUME NEW os, IsTable(os, Orders, Order), NEW o, NEW amount \in Int
  PROVE  /\ IsTable(Lowered(os, o, amount), Orders, Order)
         /\ DOMAIN Lowered(os, o, amount) = DOMAIN os
         /\ \A x \in DOMAIN os :
              /\ Lowered(os, o, amount)[x].amount =
                   IF x = o THEN os[x].amount - amount ELSE os[x].amount
              /\ Lowered(os, o, amount)[x].cached = os[x].cached
              /\ Lowered(os, o, amount)[x].pool = os[x].pool
<1>1. CASE o \in DOMAIN os
  <2> DEFINE sum == os[o].amount - amount
             row == [os[o] EXCEPT !.amount = sum]
  <2>0. os[o] \in Order
    BY <1>1 DEF IsTable
  <2>1. sum \in Int
    BY <2>0 DEF Order
  <2>2. Lowered(os, o, amount) = [os EXCEPT ![o] = row]
    BY DEF Lowered
  <2> HIDE DEF sum
  <2>3. row \in Order /\ row.amount = sum /\ row.cached = os[o].cached /\ row.pool = os[o].pool
    BY <2>0, <2>1 DEF Order
  <2> HIDE DEF row
  <2>4. IsTable(Lowered(os, o, amount), Orders, Order) /\ DOMAIN Lowered(os, o, amount) = DOMAIN os
    BY <2>2, <2>3 DEF IsTable
  <2>5. ASSUME NEW x \in DOMAIN os
        PROVE  Lowered(os, o, amount)[x] = IF x = o THEN row ELSE os[x]
    BY <2>2 DEF IsTable
  <2> QED
    BY <2>3, <2>4, <2>5 DEF sum
<1>2. CASE o \notin DOMAIN os
  BY <1>2 DEF Lowered, IsTable
<1> QED
  BY <1>1, <1>2

AddedTo(os, o, amount) == [os EXCEPT ![o].amount = @ + amount]

LEMMA AddedTable ==
  ASSUME NEW os, IsTable(os, Orders, Order), NEW o, NEW amount \in Int
  PROVE  /\ IsTable(AddedTo(os, o, amount), Orders, Order)
         /\ DOMAIN AddedTo(os, o, amount) = DOMAIN os
         /\ \A x \in DOMAIN os :
              /\ AddedTo(os, o, amount)[x].amount =
                   IF x = o THEN os[x].amount + amount ELSE os[x].amount
              /\ AddedTo(os, o, amount)[x].cached = os[x].cached
              /\ AddedTo(os, o, amount)[x].pool = os[x].pool
<1>1. CASE o \in DOMAIN os
  <2> DEFINE sum == os[o].amount + amount
             row == [os[o] EXCEPT !.amount = sum]
  <2>0. os[o] \in Order
    BY <1>1 DEF IsTable
  <2>1. sum \in Int
    BY <2>0 DEF Order
  <2>2. AddedTo(os, o, amount) = [os EXCEPT ![o] = row]
    BY DEF AddedTo
  <2> HIDE DEF sum
  <2>3. row \in Order /\ row.amount = sum /\ row.cached = os[o].cached /\ row.pool = os[o].pool
    BY <2>0, <2>1 DEF Order
  <2> HIDE DEF row
  <2>4. IsTable(AddedTo(os, o, amount), Orders, Order) /\ DOMAIN AddedTo(os, o, amount) = DOMAIN os
    BY <2>2, <2>3 DEF IsTable
  <2>5. ASSUME NEW x \in DOMAIN os
        PROVE  AddedTo(os, o, amount)[x] = IF x = o THEN row ELSE os[x]
    BY <2>2 DEF IsTable
  <2> QED
    BY <2>3, <2>4, <2>5 DEF sum
<1>2. CASE o \notin DOMAIN os
  BY <1>2 DEF AddedTo, IsTable
<1> QED
  BY <1>1, <1>2

\* Amount and cached balance of one order are raised.
Raised(os, o, amount) == [os EXCEPT ![o].amount = @ + amount, ![o].cached = @ + amount]

LEMMA RaisedTable ==
  ASSUME NEW os, IsTable(os, Orders, Order), NEW o \in DOMAIN os, NEW amount \in Int
  PROVE  /\ IsTable(Raised(os, o, amount), Orders, Order)
         /\ DOMAIN Raised(os, o, amount) = DOMAIN os
         /\ Raised(os, o, amount)[o].amount = os[o].amount + amount
         /\ Raised(os, o, amount)[o].cached = os[o].cached + amount
         /\ Raised(os, o, amount)[o].pool = os[o].pool
         /\ \A x \in DOMAIN os \ {o} : Raised(os, o, amount)[x] = os[x]
<1> DEFINE sum == os[o].amount + amount
           balance == os[o].cached + amount
           row == [amount |-> sum, cached |-> balance, pool |-> os[o].pool]
<1>0. os[o] \in Order
  BY DEF IsTable
<1>1. sum \in Int /\ balance \in Int
  BY <1>0 DEF Order
<1>2. Raised(os, o, amount) = [os EXCEPT ![o] = row]
  <2> DEFINE middle == [os[o] EXCEPT !.amount = sum]
  <2>1. Raised(os, o, amount) = [[os EXCEPT ![o] = middle] EXCEPT ![o].cached = @ + amount]
    BY DEF Raised
  <2>2. middle = [amount |-> sum, cached |-> os[o].cached, pool |-> os[o].pool]
    BY <1>0 DEF Order
  <2> HIDE DEF middle, sum
  <2>3. middle.cached = os[o].cached
    BY <2>2
  <2>4. [middle EXCEPT !.cached = balance] = row
    BY <2>2
  <2>5. os \in [DOMAIN os -> Order]
    BY DEF IsTable
  <2>6. [[os EXCEPT ![o] = middle] EXCEPT ![o].cached = @ + amount]
          = [os EXCEPT ![o] = [middle EXCEPT !.cached = middle.cached + amount]]
    BY <2>5
  <2> QED
    BY <2>1, <2>3, <2>4, <2>6
<1> HIDE DEF sum, balance
<1>3. row \in Order /\ row.amount = sum /\ row.cached = balance /\ row.pool = os[o].pool
  BY <1>0, <1>1 DEF Order
<1> HIDE DEF row
<1>4. IsTable(Raised(os, o, amount), Orders, Order) /\ DOMAIN Raised(os, o, amount) = DOMAIN os
  BY <1>2, <1>3 DEF IsTable
<1>5. ASSUME NEW x \in DOMAIN os
      PROVE  Raised(os, o, amount)[x] = IF x = o THEN row ELSE os[x]
  BY <1>2 DEF IsTable
<1> QED
  BY <1>3, <1>4, <1>5 DEF sum, balance

LEMMA AmountsAreIntegers == \A a \in Amounts : a \in Int
BY LedgerAssumption

LEMMA PoolOrderType == \A c \in Int : PoolOrder(c) \in Order /\ PoolOrder(c).amount = 0
BY DEF PoolOrder, Order

-----------------------------------------------------------------------------
(* The invariant.                                                          *)

\* A receipt that is being edited or bound does not hold a transfer.
Editable(r) ==
  r \in issued /\ (r \in DOMAIN receipts \cap DOMAIN transfers => receipts[r].status # "Bank_Transfer")

Edits(task) == task.step \in {"checked", "open"} /\ task.job.op \in {"edit", "bind"}

SafeTask(task) ==
  /\ Edits(task) => Editable(task.job.receipt)
  /\ task.step = "checked" => task.job.op # "edit"
  /\ task.step = "open" =>
       /\ DOMAIN task.view.transfers \subseteq issued
       /\ \A g \in DOMAIN transfers \cap DOMAIN task.view.transfers :
            transfers[g] = task.view.transfers[g]
       /\ task.job.op = "edit" => task.job.receipt \in DOMAIN task.view.receipts

LedgerInv ==
  /\ Sound(orders, receipts, transfers, issued)
  /\ DOMAIN work = Handlers
  /\ \A h \in Handlers : IsTask(work[h]) /\ SafeTask(work[h])

LEMMA LedgerInvImplies == LedgerInv => TypeOK /\ TransfersArePaired
BY DEF LedgerInv, Sound, TypeOK, TransfersArePaired

\* A step that only takes a handler further.
Turned ==
  /\ UNCHANGED <<orders, receipts, transfers, issued>>
  /\ DOMAIN work' = Handlers
  /\ \A i \in Handlers : work'[i] = work[i] \/ (IsTask(work'[i]) /\ SafeTask(work'[i]))

\* A transaction that commits.
Committed ==
  /\ Sound(orders', receipts', transfers', issued')
  /\ Lasting(receipts, transfers, issued, receipts', transfers') /\ issued \subseteq issued'
  /\ DOMAIN work' = Handlers
  /\ \A i \in Handlers : work'[i] = work[i] \/ (IsTask(work'[i]) /\ work'[i].step \in {"idle", "owes"})

LEMMA TurnedKeeps == LedgerInv /\ Turned => LedgerInv'
<1> SUFFICES ASSUME LedgerInv, Turned
             PROVE  LedgerInv'
  OBVIOUS
<1>1. Sound(orders, receipts, transfers, issued)'
  BY DEF LedgerInv, Turned
<1>2. ASSUME NEW i \in Handlers
      PROVE  IsTask(work'[i]) /\ SafeTask(work'[i])
  BY <1>2 DEF LedgerInv, Turned
<1>3. ASSUME NEW i \in Handlers
      PROVE  SafeTask(work[i])'
  BY <1>2 DEF Turned, SafeTask, Editable
<1> QED
  BY <1>1, <1>2, <1>3 DEF LedgerInv, Turned

LEMMA CommittedKeeps == LedgerInv /\ Committed => LedgerInv'
<1> SUFFICES ASSUME LedgerInv, Committed
             PROVE  LedgerInv'
  OBVIOUS
<1>1. ASSUME NEW i \in Handlers
      PROVE  IsTask(work'[i])
  BY DEF LedgerInv, Committed
<1>2. ASSUME NEW i \in Handlers
      PROVE  SafeTask(work[i])'
  <2>1. CASE work'[i].step \in {"idle", "owes"}
    BY <2>1 DEF SafeTask, Edits
  <2>2. CASE work'[i] = work[i]
    <3>1. SafeTask(work[i])
      BY DEF LedgerInv
    <3>2. ASSUME NEW r, Editable(r)
          PROVE  Editable(r)'
      BY <3>2 DEF Editable, Committed, Lasting, LedgerInv, Sound
    <3>3. ASSUME work[i].step = "open"
          PROVE  \A g \in DOMAIN transfers' \cap DOMAIN work[i].view.transfers :
                   transfers'[g] = work[i].view.transfers[g]
      BY <3>1, <3>3 DEF Committed, Lasting, SafeTask
    <3> QED
      BY <2>2, <3>1, <3>2, <3>3 DEF SafeTask, Committed, Edits
  <2> QED
    BY <2>1, <2>2 DEF Committed
<1> QED
  BY <1>1, <1>2 DEF LedgerInv, Committed

LEMMA JobTypes ==
  ASSUME NEW job \in Jobs
  PROVE  /\ job.op = "sign" => job.receipt \in Receipts /\ job.order \in Orders \cup {NoOrder}
         /\ job.op = "edit" => job.receipt \in Receipts /\ job.to \in Orders \cup {NewOrder, NoOrder}
         /\ job.op = "bind" => job.receipt \in Receipts /\ job.order \in Orders
         /\ job.op = "transfer" => /\ job.from \in Orders /\ job.to \in Orders \cup {NewOrder}
                                   /\ job.amount \in Amounts
         /\ job.op = "reverse" => job.transfer \in Receipts
         /\ job.op = "update" => job.order \in Orders /\ job.amount \in Nat
         /\ job.op = "migrate" => /\ job.order \in Orders /\ job.to \in Orders \cup {NoOrder}
                                  /\ job.amount \in Nat /\ job.saving \in BOOLEAN
                                  /\ job.order # job.to
         /\ job.op = "merge" => /\ job.sources \subseteq Orders /\ job.to \in Orders \cup {NewOrder}
                                /\ job.add \in Int
         /\ job.op = "deleteOrder" => job.order \in Orders
BY DEF Jobs

LEMMA OwesType ==
  ASSUME NEW due \in SUBSET Orders, NEW saving \in BOOLEAN
  PROVE  IsTask(Owes(due, saving)) /\ Owes(due, saving).step \in {"idle", "owes"}
BY DEF IsTask, Owes

LEMMA IdleType == IsTask([step |-> "idle"]) /\ SafeTask([step |-> "idle"])
BY DEF IsTask, SafeTask, Edits

\* The work of one handler after a commit.
LEMMA WorkCommits ==
  ASSUME LedgerInv, NEW h \in Handlers, NEW task, IsTask(task), task.step \in {"idle", "owes"},
         work' = [work EXCEPT ![h] = task]
  PROVE  /\ DOMAIN work' = Handlers
         /\ \A i \in Handlers : work'[i] = work[i]
                                  \/ (IsTask(work'[i]) /\ work'[i].step \in {"idle", "owes"})
BY DEF LedgerInv

LEMMA WorkTurns ==
  ASSUME LedgerInv, NEW h \in Handlers, NEW task, IsTask(task), SafeTask(task),
         work' = [work EXCEPT ![h] = task], UNCHANGED <<orders, receipts, transfers, issued>>
  PROVE  Turned
BY DEF LedgerInv, Turned

-----------------------------------------------------------------------------
(* Requests that begin, open their transaction, fail, or read a balance.   *)

LEMMA BeginTurns ==
  ASSUME LedgerInv, NEW h \in Handlers, NEW job \in Jobs, Begin(h, job),
         job.op # "edit", job.op = "bind" => Editable(job.receipt)
  PROVE  Turned
<1> DEFINE task == [step |-> "checked", job |-> job]
<1>1. IsTask(task) /\ SafeTask(task)
  BY DEF IsTask, SafeTask, Edits
<1> QED
  BY <1>1, WorkTurns DEF Begin

LEMMA OpenTurns ==
  ASSUME LedgerInv, NEW h \in Handlers, NEW job \in Jobs, OpenWith(h, job),
         job.op \in {"edit", "bind"} => Editable(job.receipt),
         job.op = "edit" => job.receipt \in DOMAIN receipts
  PROVE  Turned
<1> DEFINE task == [step |-> "open", job |-> job,
                    view |-> [orders |-> orders, receipts |-> receipts, transfers |-> transfers]]
<1>1. AreTables(orders, receipts, transfers) /\ DOMAIN transfers \subseteq issued
  BY DEF LedgerInv, Sound
<1>2. IsTask(task) /\ SafeTask(task)
  BY <1>1 DEF IsTask, SafeTask, Edits
<1> HIDE DEF task
<1>3. work' = [work EXCEPT ![h] = task] /\ UNCHANGED <<orders, receipts, transfers, issued>>
  BY DEF OpenWith, task
<1> QED
  BY <1>2, <1>3, WorkTurns

\* A request looks at a balance.
LEMMA LookTurns ==
  ASSUME LedgerInv, NEW h \in Handlers, NEW o \in Orders, NEW due \in SUBSET Orders,
         NEW saving \in BOOLEAN, Look(h, o, due, saving),
         UNCHANGED <<orders, receipts, transfers, issued>>
  PROVE  Turned
<1> DEFINE task == [step |-> "read", order |-> o, owed |-> Owed(orders, receipts, o),
                    matches |-> (orders[o].cached = Owed(orders, receipts, o)),
                    due |-> due \ {o}, saving |-> saving]
<1>1. CASE o \in DOMAIN orders
  <2>1. Owed(orders, receipts, o) \in Int
    BY <1>1, OwedType DEF LedgerInv, Sound, AreTables
  <2>2. IsTask(task) /\ SafeTask(task)
    BY <2>1 DEF IsTask, SafeTask, Edits
  <2>3. work' = [work EXCEPT ![h] = task]
    BY <1>1 DEF Look
  <2> HIDE DEF task
  <2> QED
    BY <2>2, <2>3, WorkTurns
<1>2. CASE o \notin DOMAIN orders
  <2>1. work' = [work EXCEPT ![h] = Owes(due \ {o}, saving)]
    BY <1>2 DEF Look
  <2>2. IsTask(Owes(due \ {o}, saving)) /\ Owes(due \ {o}, saving).step \in {"idle", "owes"}
    BY OwesType
  <2>3. SafeTask(Owes(due \ {o}, saving))
    BY <2>2 DEF SafeTask, Edits
  <2> QED
    BY <2>1, <2>2, <2>3, WorkTurns
<1> QED
  BY <1>1, <1>2

LEMMA Sounds == LedgerInv => Sound(orders, receipts, transfers, issued)
BY DEF LedgerInv

\* What is bound to no order or still to be signed holds no transfer.
LEMMA EditableReceipt ==
  ASSUME LedgerInv, NEW r \in DOMAIN receipts,
         receipts[r].status # "Bank_Transfer" \/ receipts[r].order = NoOrder
  PROVE  Editable(r)
<1>1. r \in DOMAIN transfers => transfers[r].to \in DOMAIN orders /\ NoOrder \notin DOMAIN orders
  BY Sounds, LedgerAssumption DEF Sound, AreTables, IsTable
<1> QED
  BY <1>1, Sounds DEF Sound, Editable

LEMMA TakenJobs ==
  ASSUME LedgerInv, NEW h \in Handlers
  PROVE  /\ work[h].step \in {"checked", "open"} => work[h].job \in Jobs
         /\ work[h].step = "open" => /\ IsTable(work[h].view.orders, Orders, Order)
                                     /\ IsTable(work[h].view.receipts, Receipts, Receipt)
                                     /\ IsTable(work[h].view.transfers, Receipts, Transfer)
         /\ work[h].step \in {"owes", "read"} => work[h].due \subseteq Orders /\ work[h].saving \in BOOLEAN
         /\ work[h].step = "read" => work[h].order \in Orders /\ work[h].owed \in Int
BY DEF LedgerInv, IsTask, AreTables

LEMMA Identifiers ==
  ASSUME LedgerInv
  PROVE  /\ DOMAIN orders \subseteq Orders /\ DOMAIN receipts \subseteq Receipts
         /\ DOMAIN transfers \subseteq Receipts
         /\ \A r \in DOMAIN receipts : receipts[r] \in Receipt
         /\ \A o \in DOMAIN orders : orders[o] \in Order
BY Sounds DEF Sound, AreTables, IsTable

LEMMA ReceiptRequestsTurn ==
  ASSUME LedgerInv, NEW h \in Handlers, NEW r \in DOMAIN receipts,
         \/ BeginFinalise(h, r)
         \/ \E to \in DOMAIN orders \cup {NewOrder, NoOrder} : OpenEdit(h, r, to)
         \/ \E o \in DOMAIN orders : BeginBind(h, r, o)
  PROVE  Turned
<1>1. r \in Receipts /\ receipts[r] \in Receipt /\ DOMAIN orders \subseteq Orders
  BY Identifiers
<1>2. CASE BeginFinalise(h, r)
  <2>1. [op |-> "sign", receipt |-> r, order |-> receipts[r].order] \in Jobs
    BY <1>1 DEF Jobs, Receipt
  <2> QED
    BY <1>2, <2>1, BeginTurns DEF BeginFinalise
<1>3. ASSUME NEW to \in DOMAIN orders \cup {NewOrder, NoOrder}, OpenEdit(h, r, to)
      PROVE  Turned
  <2>1. [op |-> "edit", receipt |-> r, to |-> to] \in Jobs
    BY <1>1 DEF Jobs
  <2>2. Editable(r)
    BY <1>3, EditableReceipt DEF OpenEdit
  <2> QED
    BY <1>3, <2>1, <2>2, OpenTurns DEF OpenEdit, OpenAtOnce
<1>4. ASSUME NEW o \in DOMAIN orders, BeginBind(h, r, o)
      PROVE  Turned
  <2>1. [op |-> "bind", receipt |-> r, order |-> o] \in Jobs
    BY <1>1 DEF Jobs
  <2>2. Editable(r)
    BY <1>4, EditableReceipt DEF BeginBind
  <2> QED
    BY <1>4, <2>1, <2>2, BeginTurns DEF BeginBind
<1> QED
  BY <1>2, <1>3, <1>4

LEMMA TransferRequestsTurn ==
  ASSUME LedgerInv, NEW h \in Handlers,
         \/ \E from \in DOMAIN orders, to \in DOMAIN orders \cup {NewOrder}, amount \in Amounts :
              BeginTransfer(h, from, to, amount)
         \/ \E g \in DOMAIN transfers : OpenReverse(h, g)
  PROVE  Turned
<1>1. DOMAIN orders \subseteq Orders /\ DOMAIN transfers \subseteq Receipts
  BY Identifiers
<1>2. ASSUME NEW from \in DOMAIN orders, NEW to \in DOMAIN orders \cup {NewOrder},
             NEW amount \in Amounts, BeginTransfer(h, from, to, amount)
      PROVE  Turned
  <2>1. [op |-> "transfer", from |-> from, to |-> to, amount |-> amount] \in Jobs
    BY <1>1 DEF Jobs
  <2> QED
    BY <1>2, <2>1, BeginTurns DEF BeginTransfer
<1>3. ASSUME NEW g \in DOMAIN transfers, OpenReverse(h, g)
      PROVE  Turned
  <2>1. [op |-> "reverse", transfer |-> g] \in Jobs
    BY <1>1 DEF Jobs
  <2> QED
    BY <1>3, <2>1, OpenTurns DEF OpenReverse, OpenAtOnce
<1> QED
  BY <1>2, <1>3

LEMMA UpdateTurns ==
  ASSUME LedgerInv, NEW h \in Handlers, NEW o \in DOMAIN orders,
         NEW amount \in Amounts \cup {0, orders[o].amount},
         \/ BeginUpdate(h, o, amount)
         \/ \E to \in DOMAIN orders \cup {NoOrder}, saving \in BOOLEAN :
              BeginMigrate(h, o, to, amount, saving)
  PROVE  Turned
<1>1. DOMAIN orders \subseteq Orders /\ amount \in Int
  BY Identifiers, LedgerAssumption DEF Order
<1>2. CASE BeginUpdate(h, o, amount)
  <2>1. amount \in Nat
    BY <1>1, <1>2 DEF BeginUpdate
  <2>2. [op |-> "update", order |-> o, amount |-> amount] \in Jobs
    BY <1>1, <2>1 DEF Jobs
  <2> QED
    BY <1>2, <2>2, BeginTurns DEF BeginUpdate
<1>3. ASSUME NEW to \in DOMAIN orders \cup {NoOrder}, NEW saving \in BOOLEAN,
             BeginMigrate(h, o, to, amount, saving)
      PROVE  Turned
  <2>1. amount \in Nat /\ o # to
    BY <1>1, <1>3, LedgerAssumption DEF BeginMigrate
  <2>2. [op |-> "migrate", order |-> o, to |-> to, amount |-> amount, saving |-> saving] \in Jobs
    BY <1>1, <2>1 DEF Jobs
  <2> QED
    BY <1>3, <2>2, BeginTurns DEF BeginMigrate
<1> QED
  BY <1>2, <1>3

LEMMA InvoiceRequestsTurn ==
  ASSUME LedgerInv, NEW h \in Handlers,
         \/ \E o \in DOMAIN orders : BeginDeleteOrder(h, o) \/ Repair(h, o)
         \/ \E sources \in SUBSET DOMAIN orders, to \in DOMAIN orders \cup {NewOrder}, keep \in BOOLEAN :
              BeginMerge(h, sources, to, keep)
  PROVE  Turned
<1>1. DOMAIN orders \subseteq Orders
  BY Identifiers
<1>2. ASSUME NEW o \in DOMAIN orders, BeginDeleteOrder(h, o)
      PROVE  Turned
  <2>1. [op |-> "deleteOrder", order |-> o] \in Jobs
    BY <1>1 DEF Jobs
  <2> QED
    BY <1>2, <2>1, BeginTurns DEF BeginDeleteOrder
<1>3. ASSUME NEW o \in DOMAIN orders, Repair(h, o)
      PROVE  Turned
  BY <1>1, <1>3, LookTurns DEF Repair
<1>4. ASSUME NEW sources \in SUBSET DOMAIN orders, NEW to \in DOMAIN orders \cup {NewOrder},
             NEW keep \in BOOLEAN, BeginMerge(h, sources, to, keep)
      PROVE  Turned
  <2> DEFINE add == IF keep THEN 0 ELSE Balance([o \in sources |-> orders[o].amount])
  <2>1. IsFiniteSet(sources)
    BY <1>1, IdentifiersAssumption, FS_Subset
  <2>2. [o \in sources |-> orders[o].amount] \in [sources -> Int]
    BY Identifiers DEF Order
  <2>3. add \in Int
    BY <2>1, <2>2, BalanceType
  <2> HIDE DEF add
  <2>4. [op |-> "merge", sources |-> sources, to |-> to, add |-> add] \in Jobs
    BY <1>1, <2>3 DEF Jobs
  <2>5. Begin(h, [op |-> "merge", sources |-> sources, to |-> to, add |-> add])
    BY <1>4 DEF BeginMerge, add
  <2> QED
    BY <2>4, <2>5, BeginTurns
<1> QED
  BY <1>2, <1>3, <1>4

LEMMA OtherTurns ==
  ASSUME LedgerInv, NEW h \in Handlers,
         Open(h) \/ ReadBalance(h) \/ Refuse(h) \/ Crash(h)
  PROVE  Turned
<1>1. CASE Open(h)
  <2>1. work[h].job \in Jobs /\ work[h].step = "checked" /\ SafeTask(work[h])
    BY <1>1, TakenJobs DEF Open, LedgerInv
  <2>2. /\ work[h].job.op \in {"edit", "bind"} => Editable(work[h].job.receipt)
        /\ work[h].job.op # "edit"
    BY <2>1 DEF SafeTask, Edits
  <2> QED
    BY <1>1, <2>1, <2>2, OpenTurns DEF Open
<1>2. CASE ReadBalance(h)
  <2>1. PICK o \in work[h].due : Look(h, o, work[h].due, work[h].saving)
    BY <1>2 DEF ReadBalance
  <2>2. work[h].due \subseteq Orders /\ work[h].saving \in BOOLEAN
    BY <1>2, TakenJobs DEF ReadBalance
  <2> QED
    BY <1>2, <2>1, <2>2, LookTurns DEF ReadBalance
<1>3. CASE Refuse(h) \/ Crash(h)
  BY <1>3, IdleType, WorkTurns DEF Refuse, Crash
<1> QED
  BY <1>1, <1>2, <1>3

-----------------------------------------------------------------------------
(* Transactions on receipts.                                               *)

\* A receipt is entered, for an order that exists, is created, or is not
\* known.
LEMMA EnterSound ==
  ASSUME LedgerInv, Receipts \ issued # {}, NEW o \in DOMAIN orders \cup {NewOrder, NoOrder},
         o = NewOrder => Orders \ issued # {}, NEW cached \in Int,
         NEW usd \in Amounts, NEW status \in {"SR_Received", "SIGNING_PENDING"},
         NEW deposit \in BOOLEAN, deposit => Deposits,
         NEW target, target = IF o = NewOrder THEN New(Orders) ELSE o,
         NEW r, r = New(Receipts),
         orders' = IF o = NewOrder THEN With(orders, target, PoolOrder(cached)) ELSE orders,
         receipts' = With(receipts, r, [order |-> target, usd |-> usd, status |-> status,
                                        deposit |-> deposit]),
         issued' = issued \cup ({r, target} \ {NoOrder}),
         UNCHANGED transfers
  PROVE  /\ Sound(orders', receipts', transfers', issued')
         /\ Lasting(receipts, transfers, issued, receipts', transfers')
         /\ issued \subseteq issued' /\ target \in Orders \cup {NoOrder}
         /\ target \in DOMAIN orders' \cup {NoOrder}
<1> DEFINE row == [order |-> target, usd |-> usd, status |-> status, deposit |-> deposit]
           ids == issued \cup ({target} \ {NoOrder})
<1>1. r \in Receipts /\ r \notin issued /\ r # NoOrder
  BY NewIsNew, IdentifiersAssumption
<1>2. Sound(orders, receipts, transfers, issued) /\ DOMAIN orders \subseteq Orders
  BY Sounds, Identifiers
<1>3. /\ target \in Orders \cup {NoOrder} /\ target \in DOMAIN orders' \cup {NoOrder}
      /\ Sound(orders', receipts, transfers, ids)
  <2>1. CASE o = NewOrder
    <3>1. target \in Orders /\ target # NoOrder
      BY <2>1, NewIsNew, LedgerAssumption
    <3>2. PoolOrder(cached) \in Order
      BY PoolOrderType
    <3>3. Sound(With(orders, target, PoolOrder(cached)), receipts, transfers, issued \cup {target})
      BY <1>2, <3>1, <3>2, SoundNewOrder
    <3>4. target \in DOMAIN With(orders, target, PoolOrder(cached))
      BY DEF With
    <3> QED
      BY <2>1, <3>1, <3>3, <3>4
  <2>2. CASE o # NewOrder
    <3>1. Sound(orders, receipts, transfers, ids)
      BY <1>2, SoundMoreIds
    <3> QED
      BY <1>2, <2>2, <3>1
  <2> QED
    BY <2>1, <2>2
<1>4. r \notin ids
  BY <1>1, <1>3, IdentifiersAssumption
<1>5. row \in Receipt /\ row.order = target /\ (row.deposit => Deposits)
  BY <1>3 DEF Receipt, Statuses
<1> HIDE DEF row, ids
<1>6. /\ Sound(orders', With(receipts, r, row), transfers, ids \cup {r})
      /\ Lasting(receipts, transfers, ids, With(receipts, r, row), transfers)
  BY <1>1, <1>3, <1>4, <1>5, SoundNewReceipt
<1>7. receipts' = With(receipts, r, row) /\ transfers' = transfers
  BY DEF row
<1>8. issued' = ids \cup {r} /\ issued \subseteq ids
  BY <1>1 DEF ids
<1>9. Lasting(receipts, transfers, issued, receipts', transfers')
  BY <1>6, <1>7, <1>8, LastingStays, LastingChain
<1> QED
  BY <1>3, <1>6, <1>7, <1>8, <1>9

LEMMA CreateReceiptCommits ==
  ASSUME LedgerInv, NEW h \in Handlers, NEW o \in DOMAIN orders \cup {NewOrder, NoOrder},
         NEW usd \in Amounts, NEW deposit \in {FALSE, Deposits},
         CreateReceipt(h, o, usd, deposit)
  PROVE  Committed
<1> DEFINE r == New(Receipts)
           target == IF o = NewOrder THEN New(Orders) ELSE o
           cached == IF deposit THEN -usd ELSE 0
<1>a. usd \in Int
  BY LedgerAssumption
<1>b. deposit \in BOOLEAN
  BY LedgerAssumption
<1>c. cached \in Int
  BY <1>a
<1>d. deposit => Deposits
  BY deposit \in {FALSE, Deposits}, Zenon
<1>1. cached \in Int /\ deposit \in BOOLEAN /\ (deposit => Deposits)
  <2> HIDE DEF cached
  <2> QED
    BY <1>b, <1>c, <1>d
<1>2. /\ orders' = IF o = NewOrder THEN With(orders, target, PoolOrder(cached)) ELSE orders
      /\ receipts' = With(receipts, r, [order |-> target, usd |-> usd, status |-> "SR_Received",
                                        deposit |-> deposit])
      /\ issued' = issued \cup ({r, target} \ {NoOrder}) /\ UNCHANGED transfers
      /\ work' = [work EXCEPT ![h] = Owes({target} \ {NoOrder}, FALSE)]
      /\ Receipts \ issued # {} /\ (o = NewOrder => Orders \ issued # {})
  BY DEF CreateReceipt
<1> HIDE DEF r, target, cached
<1>3. r = New(Receipts) /\ target = IF o = NewOrder THEN New(Orders) ELSE o
  BY DEF r, target
<1>4. /\ Sound(orders', receipts', transfers', issued')
      /\ Lasting(receipts, transfers, issued, receipts', transfers')
      /\ issued \subseteq issued' /\ target \in Orders \cup {NoOrder}
  BY <1>1, <1>2, <1>3, EnterSound
<1>5. /\ IsTask(Owes({target} \ {NoOrder}, FALSE))
      /\ Owes({target} \ {NoOrder}, FALSE).step \in {"idle", "owes"}
  BY <1>4, OwesType
<1> QED
  BY <1>2, <1>4, <1>5, WorkCommits DEF Committed

LEMMA CreateSessionCommits ==
  ASSUME LedgerInv, NEW h \in Handlers, NEW o \in DOMAIN orders \cup {NewOrder, NoOrder},
         NEW usd \in Amounts, NEW deposit \in {FALSE, Deposits},
         CreateSession(h, o, usd, deposit)
  PROVE  Committed
<1> DEFINE r == New(Receipts)
           target == IF o = NewOrder THEN New(Orders) ELSE o
           cached == -usd
<1>a. usd \in Int
  BY LedgerAssumption
<1>b. deposit \in BOOLEAN
  BY LedgerAssumption
<1>c. cached \in Int
  BY <1>a
<1>d. deposit => Deposits
  BY deposit \in {FALSE, Deposits}, Zenon
<1>1. cached \in Int /\ deposit \in BOOLEAN /\ (deposit => Deposits)
  <2> HIDE DEF cached
  <2> QED
    BY <1>b, <1>c, <1>d
<1>2. /\ orders' = IF o = NewOrder THEN With(orders, target, PoolOrder(cached)) ELSE orders
      /\ receipts' = With(receipts, r, [order |-> target, usd |-> usd, status |-> "SIGNING_PENDING",
                                        deposit |-> deposit])
      /\ issued' = issued \cup {r, target} /\ UNCHANGED <<transfers, work>>
      /\ Receipts \ issued # {} /\ (o = NewOrder => Orders \ issued # {})
      /\ o \in DOMAIN orders \cup {NewOrder}
  BY DEF CreateSession
<1>3. NoOrder \notin {r, target}
  BY <1>2, NewIsNew, Identifiers, LedgerAssumption, IdentifiersAssumption
<1> HIDE DEF r, target, cached
<1>4. r = New(Receipts) /\ target = (IF o = NewOrder THEN New(Orders) ELSE o)
  BY DEF r, target
<1>5. issued' = issued \cup ({r, target} \ {NoOrder})
  BY <1>2, <1>3
<1>6. /\ Sound(orders', receipts', transfers', issued')
      /\ Lasting(receipts, transfers, issued, receipts', transfers')
      /\ issued \subseteq issued'
  BY <1>1, <1>2, <1>4, <1>5, EnterSound
<1> QED
  BY <1>2, <1>6 DEF Committed, LedgerInv

LEMMA MarkReceivedCommits ==
  ASSUME LedgerInv, NEW h \in Handlers, NEW r \in DOMAIN receipts, MarkReceived(h, r)
  PROVE  Committed
<1>1. /\ receipts' = [receipts EXCEPT ![r].status = "RECEIVED"]
      /\ UNCHANGED <<orders, transfers, issued, work>>
  BY DEF MarkReceived
<1>2. /\ Sound(orders, receipts', transfers, issued)
      /\ Lasting(receipts, transfers, issued, receipts', transfers)
  BY <1>1, Sounds, SoundStatus
<1> QED
  BY <1>1, <1>2 DEF Committed, LedgerInv

LEMMA DeleteReceiptCommits ==
  ASSUME LedgerInv, NEW h \in Handlers, NEW r \in DOMAIN receipts, DeleteReceipt(h, r)
  PROVE  Committed
<1> DEFINE due == {receipts[r].order} \ {NoOrder}
<1>1. /\ receipts' = Delete(receipts, {r}) /\ UNCHANGED <<orders, transfers, issued>>
      /\ work' = [work EXCEPT ![h] = Owes(due, FALSE)] /\ r \notin DOMAIN transfers
  BY DEF DeleteReceipt
<1>2. /\ Sound(orders, receipts', transfers, issued)
      /\ Lasting(receipts, transfers, issued, receipts', transfers)
  BY <1>1, Sounds, SoundDeleted
<1>3. due \in SUBSET Orders
  BY Identifiers DEF Receipt
<1>4. IsTask(Owes(due, FALSE)) /\ Owes(due, FALSE).step \in {"idle", "owes"}
  BY <1>3, OwesType
<1> HIDE DEF due
<1> QED
  BY <1>1, <1>2, <1>4, WorkCommits DEF Committed

LEMMA CommitFinaliseCommits ==
  ASSUME LedgerInv, NEW h \in Handlers, CommitFinalise(h)
  PROVE  Committed
<1> DEFINE r == work[h].job.receipt
           signed == [receipts EXCEPT ![r].status = "SR_Received"]
           os == Refreshed(work[h].view, orders, signed, {}, {r}, {work[h].job.order})
<1>1. /\ receipts' = signed /\ orders' = os /\ UNCHANGED <<transfers, issued>>
      /\ work' = [work EXCEPT ![h] = [step |-> "idle"]] /\ r \in DOMAIN receipts
      /\ work[h].step = "open"
  BY DEF CommitFinalise, Is, Held
<1>2. /\ Sound(orders, signed, transfers, issued)
      /\ Lasting(receipts, transfers, issued, signed, transfers)
  BY <1>1, Sounds, SoundStatus
<1> HIDE DEF signed
<1>3. /\ IsTable(work[h].view.orders, Orders, Order)
      /\ IsTable(work[h].view.receipts, Receipts, Receipt)
  BY <1>1, TakenJobs
<1>4. IsTable(os, Orders, Order) /\ DOMAIN os = DOMAIN orders
  BY <1>2, <1>3, IsTables, RefreshedTable
<1> HIDE DEF os
<1>5. Sound(os, signed, transfers, issued)
  BY <1>2, <1>4, SoundOrders
<1> QED
  BY <1>1, <1>2, <1>5, IdleType, WorkCommits DEF Committed

LEMMA CommitBindCommits ==
  ASSUME LedgerInv, NEW h \in Handlers, CommitBind(h)
  PROVE  Committed
<1> DEFINE r == work[h].job.receipt
           o == work[h].job.order
           rs == Moved(receipts, {r}, o)
           os == Refreshed(work[h].view, orders, rs, {}, {r}, {o})
<1>1. /\ receipts' = rs /\ orders' = os /\ UNCHANGED <<transfers, issued>>
      /\ work' = [work EXCEPT ![h] = [step |-> "idle"]] /\ r \in DOMAIN receipts
      /\ o \in DOMAIN orders /\ work[h].step = "open" /\ work[h].job.op = "bind"
  BY DEF CommitBind, Is, Held
<1>2. Editable(r)
  BY <1>1 DEF LedgerInv, SafeTask, Edits
<1>3. Sound(orders, rs, transfers, issued) /\ Lasting(receipts, transfers, issued, rs, transfers)
  BY <1>1, <1>2, Sounds, SoundMoved DEF Editable
<1> HIDE DEF rs
<1>4. /\ IsTable(work[h].view.orders, Orders, Order)
      /\ IsTable(work[h].view.receipts, Receipts, Receipt)
  BY <1>1, TakenJobs
<1>5. IsTable(os, Orders, Order) /\ DOMAIN os = DOMAIN orders
  BY <1>3, <1>4, IsTables, RefreshedTable
<1> HIDE DEF os
<1>6. Sound(os, rs, transfers, issued)
  BY <1>3, <1>5, SoundOrders
<1> QED
  BY <1>1, <1>3, <1>6, IdleType, WorkCommits DEF Committed

-----------------------------------------------------------------------------
(* Transfers, their reversal, and edits.                                   *)

LEMMA CommitTransferCommits ==
  ASSUME LedgerInv, NEW h \in Handlers, CommitTransfer(h)
  PROVE  Committed
<1> DEFINE job == work[h].job
           view == work[h].view
           opens == job.to \notin DOMAIN view.orders
           to == IF opens THEN New(Orders) ELSE job.to
           g == New(Receipts)
           raised == AddedTo(orders, job.from, job.amount)
           os == IF opens THEN With(raised, to, PoolOrder(0)) ELSE raised
           rs == With(receipts, g, [order |-> to, usd |-> job.amount,
                                    status |-> "Bank_Transfer", deposit |-> FALSE])
           ts == With(transfers, g, [from |-> job.from, to |-> to, amount |-> job.amount])
           new == Refreshed(view, os, rs, IF opens THEN {job.from, to} ELSE {job.from}, {g},
                            {job.from, to})
           ids == IF opens THEN issued \cup {to} ELSE issued
<1>1. /\ work[h].step = "open" /\ job.op = "transfer" /\ Receipts \ issued # {}
      /\ opens => Orders \ issued # {}
      /\ {job.from, to} \subseteq DOMAIN os
      /\ receipts' = rs /\ transfers' = ts /\ orders' = new
      /\ issued' = issued \cup {g, to}
      /\ work' = [work EXCEPT ![h] = [step |-> "idle"]]
  BY DEF CommitTransfer, Is, AddedTo
<1>2. job.from \in Orders /\ job.to \in Orders \cup {NewOrder} /\ job.amount \in Amounts
  BY <1>1, TakenJobs, JobTypes
<1>3. job.amount \in Int
  <2> HIDE DEF job
  <2> QED
    BY <1>2, AmountsAreIntegers
<1>4. g \in Receipts /\ g \notin issued
  BY <1>1, NewIsNew
<1>5. IsTable(view.orders, Orders, Order) /\ IsTable(view.receipts, Receipts, Receipt)
  BY <1>1, TakenJobs
<1>6. opens => to \in Orders
  BY <1>1, NewIsNew
<1>7. Sound(raised, receipts, transfers, issued)
  <2>1. IsTable(raised, Orders, Order) /\ DOMAIN raised = DOMAIN orders
    BY <1>3, Sounds, IsTables, AddedTable
  <2> QED
    BY <2>1, Sounds, SoundOrders
<1> HIDE DEF job, view, raised, g
<1>8. Sound(os, receipts, transfers, ids)
  <2>1. CASE opens
    <3>1. PoolOrder(0) \in Order
      BY PoolOrderType
    <3>2. Sound(With(raised, to, PoolOrder(0)), receipts, transfers, issued \cup {to})
      BY <1>6, <1>7, <2>1, <3>1, SoundNewOrder
    <3> QED
      BY <2>1, <3>2
  <2>2. CASE ~ opens
    BY <1>7, <2>2
  <2> QED
    BY <2>1, <2>2
<1>9. g \notin ids
  BY <1>4, <1>6, IdentifiersAssumption
<1>10. to \in DOMAIN os /\ job.from \in DOMAIN os
  BY <1>1
<1> HIDE DEF opens, to, os, ids
<1>11. Sound(os, rs, ts, ids \cup {g}) /\ Lasting(receipts, transfers, ids, rs, ts)
  BY <1>2, <1>4, <1>8, <1>9, <1>10, SoundNewTransfer
<1> HIDE DEF rs, ts
<1>12. IsTable(new, Orders, Order) /\ DOMAIN new = DOMAIN os
  BY <1>5, <1>11, IsTables, RefreshedTable
<1> HIDE DEF new
<1>13. Sound(new, rs, ts, ids \cup {g})
  BY <1>11, <1>12, SoundOrders
<1>14. issued \subseteq ids /\ ids \cup {g} \subseteq issued'
  BY <1>1 DEF ids
<1>15. Sound(new, rs, ts, issued')
  BY <1>13, <1>14, SoundMoreIds
<1>16. Lasting(receipts, transfers, issued, rs, ts)
  BY <1>11, <1>14, LastingStays, LastingChain
<1> QED
  BY <1>1, <1>14, <1>15, <1>16, IdleType, WorkCommits DEF Committed

\* What is left after a reversal and the removal of an empty pool order.
LEMMA CleanedSound ==
  ASSUME NEW os, NEW rs, NEW ts, NEW ids, Sound(os, rs, ts, ids), NEW view,
         IsTable(view.orders, Orders, Order), IsTable(view.receipts, Receipts, Receipt),
         NEW low, IsTable(low, Orders, Order), DOMAIN low = DOMAIN os, NEW O, NEW R, NEW due,
         NEW gone, \A o \in gone : ~ HasTransfers(ts, o)
  PROVE  LET new == Refreshed(view, low, rs, O, R, due)
         IN /\ Sound(Delete(new, gone), WithoutOrders(rs, gone), ts, ids)
            /\ Lasting(rs, ts, ids, WithoutOrders(rs, gone), ts)
<1> DEFINE new == Refreshed(view, low, rs, O, R, due)
<1>1. IsTable(new, Orders, Order) /\ DOMAIN new = DOMAIN os
  BY IsTables, RefreshedTable
<1> HIDE DEF new
<1>2. Sound(new, rs, ts, ids)
  BY <1>1, SoundOrders
<1>3. /\ Sound(Delete(new, gone), WithoutOrders(rs, gone), ts, ids)
      /\ Lasting(rs, ts, ids, WithoutOrders(rs, gone), ts)
  BY <1>2, SoundWithout
<1> QED
  BY <1>3 DEF new

LEMMA CommitReverseCommits ==
  ASSUME LedgerInv, NEW h \in Handlers, CommitReverse(h)
  PROVE  Committed
<1> DEFINE g == work[h].job.transfer
           view == work[h].view
           t == view.transfers[g]
           rs == Delete(receipts, {g})
           ts == Delete(transfers, {g})
           low == Lowered(orders, t.from, t.amount)
           os == Refreshed(view, low, rs, {t.from}, {g}, {t.from, t.to})
           gone == Cleaned(view, os, t.from, rs, {g}, {g})
<1>1. /\ work[h].step = "open" /\ Reversible(h, g)
      /\ \A o \in gone : ~ HasTransfers(ts, o)
      /\ orders' = Delete(os, gone) /\ receipts' = WithoutOrders(rs, gone) /\ transfers' = ts
      /\ work' = [work EXCEPT ![h] = [step |-> "idle"]] /\ UNCHANGED issued
  BY DEF CommitReverse, Is
<1>2. /\ IsTable(view.orders, Orders, Order) /\ IsTable(view.receipts, Receipts, Receipt)
      /\ IsTable(view.transfers, Receipts, Transfer)
  BY <1>1, TakenJobs
<1>3. t.amount \in Int
  <2>1. g \in DOMAIN view.transfers
    BY <1>1 DEF Reversible
  <2> HIDE DEF g, view
  <2>2. t \in Transfer
    BY <1>2, <2>1 DEF IsTable
  <2> HIDE DEF t
  <2>3. t.amount \in Amounts
    BY <2>2 DEF Transfer
  <2> QED
    BY <2>3, AmountsAreIntegers
<1>4. IsTable(low, Orders, Order) /\ DOMAIN low = DOMAIN orders
  BY <1>3, Sounds, IsTables, LoweredTable
<1>5. Sound(orders, rs, ts, issued) /\ Lasting(receipts, transfers, issued, rs, ts)
  BY Sounds, SoundUndone
<1> HIDE DEF g, view, t, rs, ts, low, gone
<1>6. /\ Sound(Delete(os, gone), WithoutOrders(rs, gone), ts, issued)
      /\ Lasting(rs, ts, issued, WithoutOrders(rs, gone), ts)
  BY <1>1, <1>2, <1>4, <1>5, CleanedSound
<1> HIDE DEF os
<1>7. Lasting(receipts, transfers, issued, WithoutOrders(rs, gone), ts)
  BY <1>5, <1>6, LastingChain
<1> QED
  BY <1>1, <1>6, <1>7, IdleType, WorkCommits DEF Committed

LEMMA CommitEditCommits ==
  ASSUME LedgerInv, NEW h \in Handlers, CommitEdit(h)
  PROVE  Committed
<1> DEFINE job == work[h].job
           view == work[h].view
           r == job.receipt
           row == view.receipts[r]
           opens == job.to # NoOrder /\ job.to \notin DOMAIN view.orders
           to == IF opens THEN New(Orders) ELSE job.to
           undone == Impact(view, r, to)
           held == IF opens THEN With(orders, to, PoolOrder(0)) ELSE orders
           lowered == IF undone = {} THEN held ELSE Lowered(held, row.order, row.usd)
           rs0 == Delete(receipts, undone)
           rs == Moved(rs0, {r}, to)
           ts == Delete(transfers, undone)
           own == (IF undone = {} THEN {} ELSE {row.order, to}) \cup (IF opens THEN {to} ELSE {})
           os == Refreshed(view, lowered, rs, own, {r} \cup undone, {row.order, to})
           gone == IF undone = {} THEN {} ELSE Cleaned(view, os, row.order, rs, {r} \cup undone, undone)
           ids == IF opens THEN issued \cup {to} ELSE issued
<1>1. /\ work[h].step = "open" /\ job.op = "edit" /\ r \in DOMAIN receipts
      /\ opens => Orders \ issued # {}
      /\ to \in DOMAIN held \cup {NoOrder}
      /\ \A o \in gone : ~ HasTransfers(ts, o)
      /\ orders' = Delete(os, gone) /\ receipts' = WithoutOrders(rs, gone) /\ transfers' = ts
      /\ issued' = ids
      /\ work' = [work EXCEPT ![h] = [step |-> "idle"]]
  BY DEF CommitEdit, Is
<1>2. /\ IsTable(view.orders, Orders, Order) /\ IsTable(view.receipts, Receipts, Receipt)
  BY <1>1, TakenJobs
<1>3. SafeTask(work[h])
  BY DEF LedgerInv
<1>4. row.usd \in Int
  <2>1. r \in DOMAIN view.receipts
    BY <1>1, <1>3 DEF SafeTask
  <2> HIDE DEF r, view
  <2>2. row \in Receipt
    BY <1>2, <2>1 DEF IsTable
  <2> HIDE DEF row
  <2>3. row.usd \in Amounts
    BY <2>2 DEF Receipt
  <2> QED
    BY <2>3, AmountsAreIntegers
<1>5. opens => to \in Orders
  BY <1>1, NewIsNew
<1>6. Editable(r)
  BY <1>1, <1>3 DEF SafeTask, Edits
<1> HIDE DEF job, view, r, row, undone
<1>7. Sound(held, receipts, transfers, ids)
  <2>1. CASE opens
    <3>1. PoolOrder(0) \in Order
      BY PoolOrderType
    <3> HIDE DEF to
    <3>2. Sound(With(orders, to, PoolOrder(0)), receipts, transfers, issued \cup {to})
      BY <1>5, <2>1, <3>1, Sounds, SoundNewOrder
    <3> QED
      BY <2>1, <3>2
  <2>2. CASE ~ opens
    BY <2>2, Sounds
  <2> QED
    BY <2>1, <2>2
<1>8. issued \subseteq ids
  OBVIOUS
<1> HIDE DEF opens, to, held, ids, own
<1>9. IsTable(lowered, Orders, Order) /\ DOMAIN lowered = DOMAIN held
  BY <1>4, <1>7, IsTables, LoweredTable
<1>10. Sound(held, rs0, ts, ids) /\ Lasting(receipts, transfers, ids, rs0, ts)
  BY <1>7, SoundUndone
<1>11. \A q \in {r} \cap DOMAIN rs0 \cap DOMAIN ts : rs0[q].status # "Bank_Transfer"
  BY <1>6 DEF Editable, Delete, Restrict
<1> HIDE DEF lowered, rs0, ts
<1>12. Sound(held, rs, ts, ids) /\ Lasting(rs0, ts, ids, rs, ts)
  BY <1>1, <1>10, <1>11, SoundMoved
<1> HIDE DEF rs, gone
<1>13. /\ Sound(Delete(os, gone), WithoutOrders(rs, gone), ts, ids)
       /\ Lasting(rs, ts, ids, WithoutOrders(rs, gone), ts)
  BY <1>1, <1>2, <1>9, <1>12, CleanedSound
<1> HIDE DEF os
<1>14. Lasting(receipts, transfers, issued, rs0, ts)
  BY <1>8, <1>10, LastingStays, LastingChain
<1>15. Lasting(receipts, transfers, issued, rs, ts)
  BY <1>8, <1>12, <1>14, LastingChain
<1>16. Lasting(receipts, transfers, issued, WithoutOrders(rs, gone), ts)
  BY <1>8, <1>13, <1>15, LastingChain
<1> QED
  BY <1>1, <1>8, <1>13, <1>16, IdleType, WorkCommits DEF Committed

-----------------------------------------------------------------------------
(* Transactions on orders.                                                 *)

LEMMA WriteBalanceCommits ==
  ASSUME LedgerInv, NEW h \in Handlers, WriteBalance(h)
  PROVE  Committed
<1> DEFINE o == work[h].order
           task == Owes(work[h].due, work[h].saving)
<1>1. /\ orders' = IF work[h].matches \/ o \notin DOMAIN orders THEN orders
                   ELSE [orders EXCEPT ![o].cached = work[h].owed]
      /\ work' = [work EXCEPT ![h] = task] /\ UNCHANGED <<receipts, transfers, issued>>
      /\ work[h].step = "read"
  BY DEF WriteBalance
<1>2. /\ work[h].due \in SUBSET Orders /\ work[h].saving \in BOOLEAN /\ work[h].owed \in Int
  BY <1>1, TakenJobs
<1>3. IsTask(task) /\ task.step \in {"idle", "owes"}
  BY <1>2, OwesType
<1> HIDE DEF o, task
<1>4. IsTable(orders, Orders, Order)
  BY Sounds, IsTables
<1>5. IsTable(orders', Orders, Order) /\ DOMAIN orders' = DOMAIN orders
  BY <1>1, <1>2, <1>4 DEF IsTable, Order
<1>6. Sound(orders', receipts, transfers, issued)
  BY <1>5, Sounds, SoundOrders
<1>7. receipts' = receipts /\ transfers' = transfers /\ issued' = issued
  BY <1>1
<1> QED
  BY <1>1, <1>3, <1>6, <1>7, LastingStays, WorkCommits DEF Committed

LEMMA BillCommits ==
  ASSUME LedgerInv, NEW h \in Handlers, NEW o \in DOMAIN orders \cup {NewOrder},
         NEW amount \in Amounts, NEW saving \in BOOLEAN, Bill(h, o, amount, saving)
  PROVE  Committed
<1> DEFINE target == IF o = NewOrder THEN New(Orders) ELSE o
           row == [amount |-> amount, cached |-> amount, pool |-> FALSE]
           task == Owes(IF saving THEN {target} ELSE {}, saving)
<1>1. /\ orders' = IF o = NewOrder THEN With(orders, target, row) ELSE Raised(orders, o, amount)
      /\ issued' = issued \cup {target} /\ work' = [work EXCEPT ![h] = task]
      /\ receipts' = receipts /\ transfers' = transfers
      /\ o = NewOrder => Orders \ issued # {}
  BY DEF Bill, Raised
<1>2. amount \in Int
  BY AmountsAreIntegers
<1>3. row \in Order
  BY <1>2 DEF Order
<1> HIDE DEF row
<1>4. target \in Orders /\ Sound(orders', receipts, transfers, issued \cup {target})
  <2>1. CASE o = NewOrder
    <3>1. target \in Orders
      BY <1>1, <2>1, NewIsNew
    <3> HIDE DEF target
    <3>2. Sound(With(orders, target, row), receipts, transfers, issued \cup {target})
      BY <1>3, <3>1, Sounds, SoundNewOrder
    <3> QED
      BY <1>1, <2>1, <3>1, <3>2
  <2>2. CASE o # NewOrder
    <3>1. o \in DOMAIN orders /\ target = o /\ o \in Orders
      BY <2>2, Identifiers
    <3>2. IsTable(Raised(orders, o, amount), Orders, Order)
          /\ DOMAIN Raised(orders, o, amount) = DOMAIN orders
      BY <1>2, <3>1, Sounds, IsTables, RaisedTable
    <3>3. Sound(Raised(orders, o, amount), receipts, transfers, issued)
      BY <3>2, Sounds, SoundOrders
    <3>4. Sound(Raised(orders, o, amount), receipts, transfers, issued \cup {target})
      BY <3>3, SoundMoreIds
    <3> QED
      BY <1>1, <2>2, <3>1, <3>4
  <2> QED
    BY <2>1, <2>2
<1> HIDE DEF target
<1>5. (IF saving THEN {target} ELSE {}) \in SUBSET Orders
  BY <1>4
<1>6. IsTask(task) /\ task.step \in {"idle", "owes"}
  BY <1>5, OwesType
<1> HIDE DEF task
<1> QED
  BY <1>1, <1>4, <1>6, LastingStays, WorkCommits DEF Committed

LEMMA CommitUpdateCommits ==
  ASSUME LedgerInv, NEW h \in Handlers, CommitUpdate(h)
  PROVE  Committed
<1> DEFINE o == work[h].job.order
           amount == work[h].job.amount
           task == Owes({o}, FALSE)
<1>1. /\ work[h].step = "checked" /\ work[h].job.op = "update"
      /\ orders' = [orders EXCEPT ![o].amount = amount]
      /\ work' = [work EXCEPT ![h] = task]
      /\ receipts' = receipts /\ transfers' = transfers /\ issued' = issued
  BY DEF CommitUpdate, Is
<1>2. o \in Orders /\ amount \in Nat
  BY <1>1, TakenJobs, JobTypes
<1>3. {o} \in SUBSET Orders /\ amount \in Int
  BY <1>2
<1>4. IsTask(task) /\ task.step \in {"idle", "owes"}
  BY <1>3, OwesType
<1> HIDE DEF o, amount, task
<1>5. IsTable(orders', Orders, Order) /\ DOMAIN orders' = DOMAIN orders
  BY <1>1, <1>3, Sounds, IsTables, AmountTable
<1>6. Sound(orders', receipts, transfers, issued)
  BY <1>5, Sounds, SoundOrders
<1> QED
  BY <1>1, <1>4, <1>6, LastingStays, WorkCommits DEF Committed

LEMMA CommitDeleteOrderCommits ==
  ASSUME LedgerInv, NEW h \in Handlers, CommitDeleteOrder(h)
  PROVE  Committed
<1> DEFINE o == work[h].job.order
<1>1. /\ ~ HasTransfers(transfers, o)
      /\ orders' = Delete(orders, {o}) /\ receipts' = WithoutOrders(receipts, {o})
      /\ work' = [work EXCEPT ![h] = [step |-> "idle"]] /\ transfers' = transfers /\ issued' = issued
  BY DEF CommitDeleteOrder
<1> HIDE DEF o
<1>2. \A x \in {o} : ~ HasTransfers(transfers, x)
  BY <1>1
<1>3. /\ Sound(Delete(orders, {o}), WithoutOrders(receipts, {o}), transfers, issued)
      /\ Lasting(receipts, transfers, issued, WithoutOrders(receipts, {o}), transfers)
  BY <1>2, Sounds, SoundWithout
<1> QED
  BY <1>1, <1>3, IdleType, WorkCommits DEF Committed

LEMMA MergeDepositCommits ==
  ASSUME LedgerInv, NEW h \in Handlers, NEW d \in DOMAIN receipts, NEW o \in DOMAIN orders,
         MergeDeposit(h, d, o)
  PROVE  Committed
<1> DEFINE rs == [receipts EXCEPT ![d].order = o, ![d].deposit = FALSE]
<1>1. receipts[d].deposit /\ receipts' = rs /\ UNCHANGED <<orders, transfers, issued, work>>
  BY DEF MergeDeposit
<1>2. Sound(orders, rs, transfers, issued) /\ Lasting(receipts, transfers, issued, rs, transfers)
  BY <1>1, Sounds, SoundDeposit
<1> HIDE DEF rs
<1> QED
  BY <1>1, <1>2 DEF Committed, LedgerInv

\* The amount of an order is set, and whether it is a pool order.
LEMMA TakenTable ==
  ASSUME NEW os, IsTable(os, Orders, Order), NEW o \in DOMAIN os, NEW amount \in Int,
         NEW pool \in BOOLEAN
  PROVE  LET os2 == [os EXCEPT ![o].amount = amount, ![o].pool = pool]
         IN IsTable(os2, Orders, Order) /\ DOMAIN os2 = DOMAIN os
<1> DEFINE os2 == [os EXCEPT ![o].amount = amount, ![o].pool = pool]
           row == [amount |-> amount, cached |-> os[o].cached, pool |-> pool]
<1>1. os[o] \in Order /\ os \in [DOMAIN os -> Order]
  BY DEF IsTable
<1>2. row \in Order
  BY <1>1 DEF Order
<1>3. os2 = [os EXCEPT ![o] = row]
  <2> DEFINE middle == [os[o] EXCEPT !.amount = amount]
  <2>1. middle = [amount |-> amount, cached |-> os[o].cached, pool |-> os[o].pool]
    BY <1>1 DEF Order
  <2>2. os2 = [os EXCEPT ![o] = [middle EXCEPT !.pool = pool]]
    BY <1>1
  <2> HIDE DEF middle, os2
  <2>3. [middle EXCEPT !.pool = pool] = row
    BY <2>1
  <2> QED
    BY <2>2, <2>3
<1> HIDE DEF row, os2
<1>4. IsTable(os2, Orders, Order) /\ DOMAIN os2 = DOMAIN os
  BY <1>2, <1>3 DEF IsTable
<1> QED
  BY <1>4 DEF os2

\* The receipts of orders without transfers move to another order, which may
\* be a new one, and the orders go.
LEMMA SoundMerged ==
  ASSUME NEW os, NEW rs, NEW ts, NEW ids, Sound(os, rs, ts, ids), NEW S,
         \A o \in S : ~ HasTransfers(ts, o),
         NEW R, \A r \in DOMAIN rs : r \in R <=> rs[r].order \in S,
         NEW to \in DOMAIN os \ S,
         NEW os2, IsTable(os2, Orders, Order), DOMAIN os2 = DOMAIN os \ S
  PROVE  /\ Sound(os2, Moved(rs, R, to), ts, ids)
         /\ Lasting(rs, ts, ids, Moved(rs, R, to), ts)
<1>1. \A r \in R \cap DOMAIN rs \cap DOMAIN ts : rs[r].status # "Bank_Transfer"
  BY DEF Sound, HasTransfers
<1>2. Sound(os, Moved(rs, R, to), ts, ids) /\ Lasting(rs, ts, ids, Moved(rs, R, to), ts)
  BY <1>1, SoundMoved
<1>3. to \in Orders /\ IsTable(rs, Receipts, Receipt)
  BY DEF Sound, AreTables, IsTable
<1>4. \A r \in DOMAIN rs : Moved(rs, R, to)[r].order = IF r \in R THEN to ELSE rs[r].order
  BY <1>3, MovedTable
<1>5. DOMAIN Moved(rs, R, to) = DOMAIN rs
  BY DEF Moved
<1>6. \A r \in DOMAIN Moved(rs, R, to) : Moved(rs, R, to)[r].order \in DOMAIN os2 \cup {NoOrder}
  BY <1>4, <1>5 DEF Sound
<1>7. \A g \in DOMAIN ts : {ts[g].from, ts[g].to} \subseteq DOMAIN os2
  BY DEF Sound, HasTransfers
<1>8. DOMAIN os2 \subseteq ids
  BY DEF Sound
<1> QED
  BY <1>2, <1>6, <1>7, <1>8, SoundReferred

LEMMA CommitMigrateCommits ==
  ASSUME LedgerInv, NEW h \in Handlers, CommitMigrate(h)
  PROVE  Committed
<1> DEFINE job == work[h].job
           o == job.order
           view == work[h].view
           kept == IF job.to = NoOrder THEN o ELSE job.to
           sum == IF job.to = NoOrder /\ ~ job.saving THEN view.orders[o].amount ELSE job.amount
           moved == ReceiptsOf(receipts, o)
           rs == IF job.to = NoOrder THEN receipts ELSE Moved(receipts, moved, kept)
           os == IF job.to = NoOrder
                 THEN [orders EXCEPT ![o].amount = sum, ![o].pool = FALSE]
                 ELSE Raised(Delete(orders, {o}), kept, sum)
           own == IF job.to = NoOrder \/ sum > 0 THEN {kept} ELSE {}
           new == Refreshed(view, os, rs, own, moved, {kept})
           task == Owes(IF job.saving THEN {kept} ELSE {}, TRUE)
<1>1. /\ work[h].step = "open" /\ job.op = "migrate"
      /\ {o, kept} \subseteq DOMAIN orders \cap DOMAIN view.orders
      /\ job.to # NoOrder => ~ HasTransfers(transfers, o)
      /\ receipts' = rs /\ orders' = new /\ work' = [work EXCEPT ![h] = task]
      /\ transfers' = transfers /\ issued' = issued
  BY DEF CommitMigrate, Is, Raised
<1>2. /\ job.order \in Orders /\ job.to \in Orders \cup {NoOrder}
      /\ job.amount \in Nat /\ job.saving \in BOOLEAN /\ job.order # job.to
  BY <1>1, TakenJobs, JobTypes
<1>3. IsTable(view.orders, Orders, Order) /\ IsTable(view.receipts, Receipts, Receipt)
  BY <1>1, TakenJobs
<1>4. sum \in Int
  <2>1. o \in DOMAIN view.orders
    BY <1>1
  <2> HIDE DEF job, o, view
  <2>2. view.orders[o].amount \in Int
    BY <1>3, <2>1 DEF IsTable, Order
  <2> QED
    BY <1>2, <2>2
<1>5. (IF job.saving THEN {kept} ELSE {}) \in SUBSET Orders
  BY <1>2
<1>6. IsTask(task) /\ task.step \in {"idle", "owes"}
  BY <1>5, OwesType
<1>7. IsTable(orders, Orders, Order)
  BY Sounds, IsTables
<1>8. o \in DOMAIN orders /\ kept \in DOMAIN orders
  BY <1>1
<1>9. job.to # NoOrder => kept # o
  BY <1>2
<1> HIDE DEF job, o, view, sum, moved, task, kept, own
<1>10. /\ Sound(os, rs, transfers, issued) /\ Lasting(receipts, transfers, issued, rs, transfers)
       /\ IsTable(os, Orders, Order)
  <2>1. CASE job.to = NoOrder
    <3>1. os = [orders EXCEPT ![o].amount = sum, ![o].pool = FALSE] /\ rs = receipts
      BY <2>1
    <3> HIDE DEF os, rs
    <3>2. IsTable(os, Orders, Order) /\ DOMAIN os = DOMAIN orders
      BY <3>1, <1>4, <1>7, <1>8, TakenTable
    <3>3. Sound(os, receipts, transfers, issued)
      BY <3>2, Sounds, SoundOrders
    <3> QED
      BY <3>1, <3>2, <3>3, LastingStays
  <2>2. CASE job.to # NoOrder
    <3>1. /\ os = Raised(Delete(orders, {o}), kept, sum) /\ rs = Moved(receipts, moved, kept)
          /\ \A x \in {o} : ~ HasTransfers(transfers, x)
      BY <1>1, <2>2
    <3> HIDE DEF os, rs
    <3>2. /\ IsTable(Delete(orders, {o}), Orders, Order)
          /\ DOMAIN Delete(orders, {o}) = DOMAIN orders \ {o}
      BY <1>7 DEF IsTable, Delete, Restrict
    <3>3. kept \in DOMAIN Delete(orders, {o})
      BY <3>2, <1>8, <1>9, <2>2
    <3>4. IsTable(os, Orders, Order) /\ DOMAIN os = DOMAIN orders \ {o}
      BY <3>1, <3>2, <3>3, <1>4, RaisedTable
    <3>5. \A r \in DOMAIN receipts : r \in moved <=> receipts[r].order \in {o}
      BY DEF moved, ReceiptsOf
    <3>6. kept \in DOMAIN orders \ {o}
      BY <3>2, <3>3
    <3>7. Sound(os, rs, transfers, issued) /\ Lasting(receipts, transfers, issued, rs, transfers)
      BY <3>1, <3>4, <3>5, <3>6, Sounds, SoundMerged
    <3> QED
      BY <3>4, <3>7
  <2> QED
    BY <2>1, <2>2
<1> HIDE DEF os, rs
<1>11. IsTable(new, Orders, Order) /\ DOMAIN new = DOMAIN os
  BY <1>3, <1>10, IsTables, RefreshedTable
<1> HIDE DEF new
<1>12. Sound(new, rs, transfers, issued)
  BY <1>10, <1>11, SoundOrders
<1> QED
  BY <1>1, <1>6, <1>10, <1>12, WorkCommits DEF Committed

LEMMA CommitMergeCommits ==
  ASSUME LedgerInv, NEW h \in Handlers, CommitMerge(h)
  PROVE  Committed
<1> DEFINE job == work[h].job
           view == work[h].view
           opens == job.to = NewOrder
           to == IF opens THEN New(Orders) ELSE job.to
           moved == {r \in DOMAIN receipts : receipts[r].order \in job.sources}
           rs == Moved(receipts, moved, to)
           left == Delete(orders, job.sources)
           row == [amount |-> job.add, cached |-> 0, pool |-> FALSE]
           os == IF opens THEN With(left, to, row) ELSE AddedTo(left, to, job.add)
           own == IF opens \/ job.add # 0 THEN {to} ELSE {}
           new == Refreshed(view, os, rs, own, moved, {to})
           ids == issued \cup {to}
<1>1. /\ work[h].step = "open" /\ job.op = "merge"
      /\ job.sources \subseteq DOMAIN orders /\ (opens => Orders \ issued # {})
      /\ to \in DOMAIN os
      /\ \A o \in job.sources : ~ HasTransfers(transfers, o)
      /\ receipts' = rs /\ orders' = new /\ work' = [work EXCEPT ![h] = [step |-> "idle"]]
      /\ transfers' = transfers /\ issued' = ids
  BY DEF CommitMerge, Is, AddedTo
<1>2. job.add \in Int
  BY <1>1, TakenJobs, JobTypes
<1>3. IsTable(view.orders, Orders, Order) /\ IsTable(view.receipts, Receipts, Receipt)
  BY <1>1, TakenJobs
<1>4. IsTable(orders, Orders, Order)
  BY Sounds, IsTables
<1>5. opens => to \in Orders /\ to \notin issued
  BY <1>1, NewIsNew
<1>6. row \in Order
  <2> HIDE DEF job
  <2> QED
    BY <1>2 DEF Order
<1>7. \A r \in DOMAIN receipts : r \in moved <=> receipts[r].order \in job.sources
  OBVIOUS
<1> HIDE DEF job, view, opens, to, moved, row, own
<1>8. IsTable(left, Orders, Order) /\ DOMAIN left = DOMAIN orders \ job.sources
  BY <1>4 DEF IsTable, Delete, Restrict
<1> HIDE DEF left
<1>9. IsTable(AddedTo(left, to, job.add), Orders, Order) /\ DOMAIN AddedTo(left, to, job.add) = DOMAIN left
  BY <1>2, <1>8, AddedTable
<1>10. PICK wide : /\ Sound(wide, receipts, transfers, ids) /\ to \in DOMAIN wide \ job.sources
                   /\ IsTable(os, Orders, Order) /\ DOMAIN os = DOMAIN wide \ job.sources
  <2>1. CASE opens
    <3>1. to \in Orders /\ to \notin DOMAIN orders
      BY <1>5, <2>1, Sounds DEF Sound
    <3>2. Sound(With(orders, to, row), receipts, transfers, ids)
      BY <1>6, <3>1, Sounds, SoundNewOrder
    <3>3. DOMAIN With(orders, to, row) = DOMAIN orders \cup {to}
      BY DEF With
    <3>4. IsTable(With(left, to, row), Orders, Order) /\ DOMAIN With(left, to, row) = DOMAIN left \cup {to}
      BY <1>6, <1>8, <3>1 DEF IsTable, With
    <3>5. to \notin job.sources
      BY <1>1, <3>1
    <3>6. os = With(left, to, row)
      BY <2>1
    <3> HIDE DEF os
    <3>7. DOMAIN os = DOMAIN With(orders, to, row) \ job.sources
      BY <1>8, <3>3, <3>4, <3>5, <3>6
    <3> QED
      BY <3>2, <3>3, <3>4, <3>5, <3>6, <3>7
  <2>2. CASE ~ opens
    <3>1. os = AddedTo(left, to, job.add)
      BY <2>2
    <3>2. Sound(orders, receipts, transfers, ids)
      BY Sounds, SoundMoreIds
    <3> HIDE DEF os
    <3> QED
      BY <1>1, <1>8, <1>9, <3>1, <3>2
  <2> QED
    BY <2>1, <2>2
<1> HIDE DEF os
<1>11. Sound(os, rs, transfers, ids) /\ Lasting(receipts, transfers, ids, rs, transfers)
  BY <1>1, <1>7, <1>10, SoundMerged
<1> HIDE DEF rs
<1>12. IsTable(new, Orders, Order) /\ DOMAIN new = DOMAIN os
  BY <1>3, <1>10, <1>11, IsTables, RefreshedTable
<1> HIDE DEF new
<1>13. Sound(new, rs, transfers, ids)
  BY <1>11, <1>12, SoundOrders
<1>14. issued \subseteq ids
  OBVIOUS
<1> HIDE DEF ids
<1>15. Lasting(receipts, transfers, issued, rs, transfers)
  BY <1>11, <1>14, LastingStays, LastingChain
<1> QED
  BY <1>1, <1>13, <1>14, <1>15, IdleType, WorkCommits DEF Committed

-----------------------------------------------------------------------------
(* The invariant holds.                                                    *)

LEMMA InitLedger == Init => LedgerInv
<1> SUFFICES ASSUME Init
             PROVE  LedgerInv
  OBVIOUS
<1>1. PICK sums \in [Invoiced -> Amounts], payees \in [Entered -> Invoiced],
           usd \in [Entered -> Amounts], deposits \in [Entered -> {FALSE, Deposits}] :
        /\ receipts = [r \in Entered |-> [order |-> payees[r], usd |-> usd[r],
                                         status |-> "SR_Received", deposit |-> deposits[r]]]
        /\ orders = [o \in Invoiced |-> [amount |-> sums[o], pool |-> FALSE,
                                        cached |-> sums[o] - Total(receipts, ReceiptsOf(receipts, o))]]
        /\ transfers = <<>> /\ issued = Invoiced \cup Entered
        /\ work = [h \in Handlers |-> [step |-> "idle"]]
  BY DEF Init
<1>2. Invoiced \subseteq Orders /\ Entered \subseteq Receipts /\ {FALSE, Deposits} \subseteq BOOLEAN
  BY LedgerAssumption
<1>3. ASSUME NEW r \in Entered
      PROVE  receipts[r] \in Receipt /\ receipts[r].order \in Invoiced
  <2>1. receipts[r] = [order |-> payees[r], usd |-> usd[r], status |-> "SR_Received",
                       deposit |-> deposits[r]]
    BY <1>1
  <2>2. payees[r] \in Orders /\ usd[r] \in Amounts /\ deposits[r] \in BOOLEAN /\ payees[r] \in Invoiced
    BY <1>2
  <2> QED
    BY <2>1, <2>2 DEF Receipt, Statuses
<1>4. IsTable(receipts, Receipts, Receipt) /\ DOMAIN receipts = Entered
  <2>1. DOMAIN receipts = Entered /\ receipts = [r \in Entered |-> receipts[r]]
    BY <1>1
  <2> QED
    BY <1>2, <1>3, <2>1 DEF IsTable
<1>5. ASSUME NEW o \in Invoiced
      PROVE  orders[o] \in Order
  <2>1. ReceiptsOf(receipts, o) \in SUBSET DOMAIN receipts
    BY DEF ReceiptsOf
  <2>2. Total(receipts, ReceiptsOf(receipts, o)) \in Nat
    BY <1>4, <2>1, TotalType
  <2>3. sums[o] \in Int
    BY AmountsAreIntegers
  <2>4. orders[o] = [amount |-> sums[o], pool |-> FALSE,
                     cached |-> sums[o] - Total(receipts, ReceiptsOf(receipts, o))]
    BY <1>1
  <2>5. sums[o] - Total(receipts, ReceiptsOf(receipts, o)) \in Int
    BY <2>2, <2>3
  <2> QED
    BY <2>3, <2>4, <2>5 DEF Order
<1>6. IsTable(orders, Orders, Order) /\ DOMAIN orders = Invoiced
  <2>1. DOMAIN orders = Invoiced /\ orders = [o \in Invoiced |-> orders[o]]
    BY <1>1
  <2> QED
    BY <1>2, <1>5, <2>1 DEF IsTable
<1>7. IsTable(transfers, Receipts, Transfer) /\ DOMAIN transfers = {}
  BY <1>1 DEF IsTable
<1>8. Sound(orders, receipts, transfers, issued)
  BY <1>1, <1>3, <1>4, <1>6, <1>7 DEF Sound, AreTables
<1>9. DOMAIN work = Handlers /\ \A h \in Handlers : work[h] = [step |-> "idle"]
  BY <1>1
<1> QED
  BY <1>8, <1>9, IdleType DEF LedgerInv

LEMMA CommitsAreCommitted ==
  ASSUME LedgerInv, NEW h \in Handlers,
         \/ CommitFinalise(h) \/ CommitEdit(h) \/ CommitBind(h)
         \/ CommitTransfer(h) \/ CommitReverse(h)
         \/ CommitUpdate(h) \/ CommitMigrate(h) \/ CommitMerge(h) \/ CommitDeleteOrder(h)
  PROVE  Committed
BY CommitFinaliseCommits, CommitEditCommits, CommitBindCommits, CommitTransferCommits,
   CommitReverseCommits, CommitUpdateCommits, CommitMigrateCommits, CommitMergeCommits,
   CommitDeleteOrderCommits

\* Every step takes a handler further, or commits.
LEMMA StepsTurnOrCommit == LedgerInv /\ [Next]_vars => Turned \/ Committed
<1> SUFFICES ASSUME LedgerInv, [Next]_vars
             PROVE  Turned \/ Committed
  OBVIOUS
<1>1. CASE UNCHANGED vars
  BY <1>1 DEF vars, Turned, LedgerInv
<1>2. ASSUME NEW h \in Handlers, ReceiptRequests(h)
      PROVE  Turned \/ Committed
  <2>1. ASSUME NEW o \in DOMAIN orders \cup {NewOrder, NoOrder}, NEW usd \in Amounts,
               NEW deposit \in {FALSE, Deposits},
               CreateReceipt(h, o, usd, deposit) \/ CreateSession(h, o, usd, deposit)
        PROVE  Committed
    BY <2>1, CreateReceiptCommits, CreateSessionCommits
  <2>2. ASSUME NEW r \in DOMAIN receipts, MarkReceived(h, r) \/ DeleteReceipt(h, r)
        PROVE  Committed
    BY <2>2, MarkReceivedCommits, DeleteReceiptCommits
  <2>3. ASSUME NEW r \in DOMAIN receipts,
               \/ BeginFinalise(h, r)
               \/ \E to \in DOMAIN orders \cup {NewOrder, NoOrder} : OpenEdit(h, r, to)
               \/ \E o \in DOMAIN orders : BeginBind(h, r, o)
        PROVE  Turned
    BY <2>3, ReceiptRequestsTurn
  <2> QED
    BY <1>2, <2>1, <2>2, <2>3, CommitsAreCommitted DEF ReceiptRequests
<1>3. ASSUME NEW h \in Handlers, TransferRequests(h)
      PROVE  Turned \/ Committed
  BY <1>3, TransferRequestsTurn, CommitsAreCommitted DEF TransferRequests
<1>4. ASSUME NEW h \in Handlers, InvoiceRequests(h)
      PROVE  Turned \/ Committed
  <2>1. ASSUME NEW o \in DOMAIN orders,
               \/ BeginDeleteOrder(h, o) \/ Repair(h, o)
               \/ \E amount \in Amounts \cup {0, orders[o].amount} :
                    \/ BeginUpdate(h, o, amount)
                    \/ \E to \in DOMAIN orders \cup {NoOrder}, saving \in BOOLEAN :
                         BeginMigrate(h, o, to, amount, saving)
        PROVE  Turned
    BY <2>1, InvoiceRequestsTurn, UpdateTurns
  <2>2. ASSUME NEW o \in DOMAIN orders \cup {NewOrder}, NEW amount \in Amounts,
               NEW saving \in BOOLEAN, Bill(h, o, amount, saving)
        PROVE  Committed
    BY <2>2, BillCommits
  <2>3. ASSUME NEW sources \in SUBSET DOMAIN orders, NEW to \in DOMAIN orders \cup {NewOrder},
               NEW keep \in BOOLEAN, BeginMerge(h, sources, to, keep)
        PROVE  Turned
    BY <2>3, InvoiceRequestsTurn
  <2>4. ASSUME NEW d \in DOMAIN receipts, NEW o \in DOMAIN orders, MergeDeposit(h, d, o)
        PROVE  Committed
    BY <2>4, MergeDepositCommits
  <2> QED
    BY <1>4, <2>1, <2>2, <2>3, <2>4, CommitsAreCommitted DEF InvoiceRequests
<1>5. ASSUME NEW h \in Handlers,
             Open(h) \/ ReadBalance(h) \/ WriteBalance(h) \/ Refuse(h) \/ Crash(h)
      PROVE  Turned \/ Committed
  BY <1>5, OtherTurns, WriteBalanceCommits
<1> QED
  BY <1>1, <1>2, <1>3, <1>4, <1>5 DEF Next

LEMMA NextKeepsLedger == LedgerInv /\ [Next]_vars => LedgerInv'
BY StepsTurnOrCommit, TurnedKeeps, CommittedKeeps

LEMMA LedgerInvAlways == Spec => []LedgerInv
BY InitLedger, NextKeepsLedger, PTL DEF Spec

\* Every row and every task is well formed, and receipts refer to orders that
\* exist: deleting, merging and migrating orders takes their receipts along.
THEOREM TypeCorrect == Spec => []TypeOK
BY LedgerInvAlways, LedgerInvImplies, PTL

\* A transfer and the receipt it generated live and die together, for any
\* number of requests, orders and receipts: the foreign keys of the transfer,
\* the claim of a reversal and the refusal to edit a generated receipt keep
\* them together.
THEOREM TransfersArePairedAlways == Spec => []TransfersArePaired
BY LedgerInvAlways, LedgerInvImplies, PTL

-----------------------------------------------------------------------------
(* What was invoiced.                                                      *)

\* What the transfers of an order have moved away from it.
Out(ts, o) == SumOf([g \in {t \in DOMAIN ts : ts[t].from = o} |-> ts[g].amount])

\* Two states of the tables agree on what was billed for the orders of both.
BilledAlike(os, ts, os2, ts2) ==
  \A o \in DOMAIN os \cap DOMAIN os2 : os2[o].amount - Out(ts2, o) = os[o].amount - Out(ts, o)

LEMMA BilledOut == BilledAlike(orders, transfers, orders', transfers')
                     => \A o \in DOMAIN orders \cap DOMAIN orders' : Billed(o)' = Billed(o)
BY DEF BilledAlike, Billed, Out

\* One more transfer of an order.
LEMMA OutMore ==
  ASSUME NEW ts, IsTable(ts, Receipts, Transfer), NEW ts2, IsTable(ts2, Receipts, Transfer),
         NEW g, g \notin DOMAIN ts, DOMAIN ts2 = DOMAIN ts \cup {g},
         \A y \in DOMAIN ts : ts2[y] = ts[y], NEW o
  PROVE  /\ Out(ts, o) \in Nat /\ ts2[g].amount \in Nat
         /\ Out(ts2, o) = IF o = ts2[g].from THEN Out(ts, o) + ts2[g].amount ELSE Out(ts, o)
<1> DEFINE D == {t \in DOMAIN ts : ts[t].from = o}
           D2 == {t \in DOMAIN ts2 : ts2[t].from = o}
           sums == [y \in D |-> ts[y].amount]
           more == [y \in D2 |-> ts2[y].amount]
<1>1. IsFiniteSet(D)
  BY IdentifiersAssumption, FS_Subset DEF IsTable
<1>2. /\ \A y \in DOMAIN ts : ts[y].amount \in Nat
      /\ \A y \in DOMAIN ts2 : ts2[y].amount \in Nat
  BY LedgerAssumption DEF IsTable, Transfer
<1>3. sums \in [D -> Nat] /\ sums \in [D -> Int] /\ more \in [D2 -> Nat]
  BY <1>2
<1>4. SumOf(sums) \in Nat
  BY <1>1, <1>3, SumOfType
<1>5. Out(ts, o) = SumOf(sums) /\ Out(ts2, o) = SumOf(more)
  BY DEF Out
<1>6. CASE o = ts2[g].from
  <2>1. D2 = D \cup {g} /\ g \notin D
    BY <1>6
  <2>2. more[g] = ts2[g].amount /\ \A y \in D : more[y] = sums[y]
    BY <2>1
  <2>3. ts2[g].amount \in Nat
    BY <1>2
  <2> HIDE DEF D, D2, sums, more
  <2>4. SumOf(more) = SumOf(sums) + ts2[g].amount
    BY <1>1, <1>3, <2>1, <2>2, <2>3, SumOfAdded
  <2> QED
    BY <1>4, <1>5, <1>6, <2>3, <2>4
<1>7. CASE o # ts2[g].from
  <2>1. D2 = D
    BY <1>7
  <2>2. more = sums
    BY <2>1
  <2> HIDE DEF D, D2, sums, more
  <2> QED
    BY <1>2, <1>4, <1>5, <1>7, <2>2
<1> QED
  BY <1>6, <1>7

\* The transfers stay, and so do the amounts of the orders.
LEMMA AmountsAlike ==
  ASSUME NEW os, NEW ts, NEW os2,
         \A o \in DOMAIN os \cap DOMAIN os2 : os2[o].amount = os[o].amount
  PROVE  BilledAlike(os, ts, os2, ts)
BY DEF BilledAlike

\* What an order has sent away falls by the amount of the transfer deleted.
LEMMA OutLess ==
  ASSUME NEW ts, IsTable(ts, Receipts, Transfer), NEW g \in DOMAIN ts, NEW o
  PROVE  /\ Out(Delete(ts, {g}), o) \in Nat /\ ts[g].amount \in Nat
         /\ Out(ts, o) = IF o = ts[g].from THEN Out(Delete(ts, {g}), o) + ts[g].amount
                         ELSE Out(Delete(ts, {g}), o)
<1> DEFINE ts2 == Delete(ts, {g})
<1>1. /\ IsTable(ts2, Receipts, Transfer) /\ DOMAIN ts2 = DOMAIN ts \ {g}
      /\ \A y \in DOMAIN ts2 : ts[y] = ts2[y]
  BY DEF IsTable, Delete, Restrict
<1> HIDE DEF ts2
<1>2. /\ IsTable(ts2, Receipts, Transfer) /\ IsTable(ts, Receipts, Transfer)
      /\ g \notin DOMAIN ts2 /\ DOMAIN ts = DOMAIN ts2 \cup {g}
      /\ \A y \in DOMAIN ts2 : ts[y] = ts2[y]
  BY <1>1
<1> HIDE <1>1
<1>3. /\ Out(ts2, o) \in Nat /\ ts[g].amount \in Nat
      /\ Out(ts, o) = IF o = ts[g].from THEN Out(ts2, o) + ts[g].amount ELSE Out(ts2, o)
  BY <1>2, OutMore
<1> QED
  BY <1>3 DEF ts2

\* A transfer goes, and the amount of its source is lowered.
LEMMA ReversalAlike ==
  ASSUME NEW os, IsTable(os, Orders, Order), NEW ts, IsTable(ts, Receipts, Transfer),
         NEW g \in DOMAIN ts, NEW os2,
         \A o \in DOMAIN os \cap DOMAIN os2 :
           os2[o].amount = IF o = ts[g].from THEN os[o].amount - ts[g].amount ELSE os[o].amount
  PROVE  BilledAlike(os, ts, os2, Delete(ts, {g}))
<1> DEFINE ts2 == Delete(ts, {g})
<1>1. ASSUME NEW o
      PROVE  /\ Out(ts2, o) \in Nat /\ ts[g].amount \in Nat
             /\ Out(ts, o) = IF o = ts[g].from THEN Out(ts2, o) + ts[g].amount ELSE Out(ts2, o)
  BY OutLess
<1> HIDE DEF ts2
<1>2. \A o \in DOMAIN os : os[o].amount \in Int
  BY DEF IsTable, Order
<1>3. BilledAlike(os, ts, os2, ts2)
  BY <1>1, <1>2 DEF BilledAlike
<1> QED
  BY <1>3 DEF ts2

LEMMA CommitTransferAlike ==
  ASSUME LedgerInv, NEW h \in Handlers, CommitTransfer(h)
  PROVE  BilledAlike(orders, transfers, orders', transfers')
<1> DEFINE job == work[h].job
           view == work[h].view
           opens == job.to \notin DOMAIN view.orders
           to == IF opens THEN New(Orders) ELSE job.to
           g == New(Receipts)
           raised == AddedTo(orders, job.from, job.amount)
           os == IF opens THEN With(raised, to, PoolOrder(0)) ELSE raised
           rs == With(receipts, g, [order |-> to, usd |-> job.amount,
                                    status |-> "Bank_Transfer", deposit |-> FALSE])
           t == [from |-> job.from, to |-> to, amount |-> job.amount]
           ts == With(transfers, g, t)
           new == Refreshed(view, os, rs, IF opens THEN {job.from, to} ELSE {job.from}, {g},
                            {job.from, to})
<1>1. /\ work[h].step = "open" /\ job.op = "transfer" /\ Receipts \ issued # {}
      /\ opens => Orders \ issued # {}
      /\ {job.from, to} \subseteq DOMAIN os
      /\ transfers' = ts /\ orders' = new
  BY DEF CommitTransfer, Is, AddedTo
<1>2. job.from \in Orders /\ job.to \in Orders \cup {NewOrder} /\ job.amount \in Amounts
  BY <1>1, TakenJobs, JobTypes
<1>3. g \in Receipts /\ g \notin issued
  BY <1>1, NewIsNew
<1>4. opens => to \notin issued
  BY <1>1, NewIsNew
<1>5. /\ IsTable(transfers', Receipts, Transfer) /\ IsTable(transfers, Receipts, Transfer)
      /\ IsTable(orders, Orders, Order)
  <2>1. Sound(orders', receipts', transfers', issued')
    BY CommitTransferCommits DEF Committed
  <2> QED
    BY <2>1, Sounds, IsTables
<1>6. IsTable(view.orders, Orders, Order) /\ IsTable(view.receipts, Receipts, Receipt)
  BY <1>1, TakenJobs
<1>7. job.amount \in Int
  <2> HIDE DEF job
  <2> QED
    BY <1>2, AmountsAreIntegers
<1>8. /\ t.from = job.from /\ t.amount = job.amount
  OBVIOUS
<1>9. DOMAIN orders \subseteq issued /\ DOMAIN transfers \subseteq issued
  BY Sounds DEF Sound
<1>10. /\ IsTable(raised, Orders, Order) /\ DOMAIN raised = DOMAIN orders
       /\ \A x \in DOMAIN orders : raised[x].amount =
            IF x = job.from THEN orders[x].amount + job.amount ELSE orders[x].amount
  BY <1>5, <1>7, AddedTable
<1>11. IsTable(rs, Receipts, Receipt)
  BY <1>1, CommitTransferCommits, IsTables DEF Committed, CommitTransfer
<1> HIDE DEF job, view, raised, g, t, rs
<1>a. /\ IsTable(os, Orders, Order) /\ DOMAIN orders \subseteq DOMAIN os
      /\ \A x \in DOMAIN orders : os[x].amount = raised[x].amount
  <2>1. CASE opens
    <3>1. to \in Orders /\ to \notin DOMAIN orders /\ PoolOrder(0) \in Order
      BY <1>1, <1>9, <2>1, NewIsNew, PoolOrderType
    <3> HIDE DEF to
    <3>2. /\ IsTable(With(raised, to, PoolOrder(0)), Orders, Order)
          /\ DOMAIN With(raised, to, PoolOrder(0)) = DOMAIN raised \cup {to}
          /\ \A x \in DOMAIN raised \ {to} : With(raised, to, PoolOrder(0))[x] = raised[x]
      BY <1>10, <3>1 DEF IsTable, With
    <3>3. os = With(raised, to, PoolOrder(0))
      BY <2>1
    <3> HIDE DEF os
    <3> QED
      BY <1>10, <3>1, <3>2, <3>3
  <2>2. CASE ~ opens
    BY <1>10, <2>2
  <2> QED
    BY <2>1, <2>2
<1>b. \A x \in DOMAIN os : new[x].amount = os[x].amount
  BY <1>6, <1>11, <1>a, RefreshedTable
<1> HIDE DEF new
<1>12. /\ g \notin DOMAIN transfers /\ DOMAIN ts = DOMAIN transfers \cup {g}
       /\ ts[g] = t /\ \A y \in DOMAIN transfers : ts[y] = transfers[y]
  BY <1>3, <1>9 DEF With
<1> HIDE DEF opens, to, os, rs, ts
<1>13. ASSUME NEW o
       PROVE  /\ Out(transfers, o) \in Nat /\ job.amount \in Nat
              /\ Out(ts, o) = IF o = job.from THEN Out(transfers, o) + job.amount
                                             ELSE Out(transfers, o)
  BY <1>1, <1>5, <1>8, <1>12, OutMore
<1>14. \A x \in DOMAIN orders : orders[x].amount \in Int
  BY <1>5 DEF IsTable, Order
<1>15. \A x \in DOMAIN orders \cap DOMAIN new : new[x].amount =
         IF x = job.from THEN orders[x].amount + job.amount ELSE orders[x].amount
  BY <1>10, <1>a, <1>b
<1>16. BilledAlike(orders, transfers, new, ts)
  BY <1>13, <1>14, <1>15 DEF BilledAlike
<1> QED
  BY <1>1, <1>16

\* What a reversal leaves of the orders has the amounts of the lowered ones.
LEMMA RefreshedAmounts ==
  ASSUME NEW view, IsTable(view.orders, Orders, Order), IsTable(view.receipts, Receipts, Receipt),
         NEW os, IsTable(os, Orders, Order), NEW rs, IsTable(rs, Receipts, Receipt),
         NEW O, NEW R, NEW due, NEW gone
  PROVE  LET new == Delete(Refreshed(view, os, rs, O, R, due), gone)
         IN DOMAIN new \subseteq DOMAIN os /\ \A o \in DOMAIN new : new[o].amount = os[o].amount
<1> DEFINE all == Refreshed(view, os, rs, O, R, due)
<1>1. DOMAIN all = DOMAIN os /\ \A o \in DOMAIN os : all[o].amount = os[o].amount
  BY RefreshedTable
<1> HIDE DEF all
<1>2. /\ DOMAIN Delete(all, gone) \subseteq DOMAIN os
      /\ \A o \in DOMAIN Delete(all, gone) : Delete(all, gone)[o].amount = os[o].amount
  BY <1>1 DEF Delete, Restrict
<1> QED
  BY <1>2 DEF all

LEMMA CommitReverseAlike ==
  ASSUME LedgerInv, NEW h \in Handlers, CommitReverse(h)
  PROVE  BilledAlike(orders, transfers, orders', transfers')
<1> DEFINE g == work[h].job.transfer
           view == work[h].view
           t == view.transfers[g]
           rs == Delete(receipts, {g})
           low == Lowered(orders, t.from, t.amount)
           os == Refreshed(view, low, rs, {t.from}, {g}, {t.from, t.to})
           gone == Cleaned(view, os, t.from, rs, {g}, {g})
<1>1. /\ work[h].step = "open" /\ Reversible(h, g)
      /\ orders' = Delete(os, gone) /\ transfers' = Delete(transfers, {g})
  BY DEF CommitReverse, Is
<1>2. /\ IsTable(view.orders, Orders, Order) /\ IsTable(view.receipts, Receipts, Receipt)
      /\ IsTable(view.transfers, Receipts, Transfer)
  BY <1>1, TakenJobs
<1>3. /\ IsTable(transfers, Receipts, Transfer) /\ IsTable(orders, Orders, Order)
      /\ IsTable(receipts, Receipts, Receipt)
  BY Sounds, IsTables
<1>4. g \in DOMAIN transfers /\ g \in DOMAIN view.transfers
  BY <1>1 DEF Reversible, Claimed
<1>5. t = transfers[g]
  <2>1. SafeTask(work[h])
    BY DEF LedgerInv
  <2> QED
    BY <1>1, <1>4, <2>1 DEF SafeTask
<1>6. t.amount \in Int
  <2>1. transfers[g].amount \in Amounts
    BY <1>3, <1>4 DEF IsTable, Transfer
  <2> QED
    BY <1>5, <2>1, AmountsAreIntegers
<1>7. IsTable(rs, Receipts, Receipt)
  BY <1>3 DEF IsTable, Delete, Restrict
<1> HIDE DEF g, view, t, rs, gone
<1>8. /\ IsTable(low, Orders, Order) /\ DOMAIN low = DOMAIN orders
      /\ \A x \in DOMAIN orders :
           low[x].amount = IF x = t.from THEN orders[x].amount - t.amount ELSE orders[x].amount
  BY <1>3, <1>6, LoweredTable
<1> HIDE DEF low
<1>9. /\ DOMAIN Delete(os, gone) \subseteq DOMAIN low
      /\ \A o \in DOMAIN Delete(os, gone) : Delete(os, gone)[o].amount = low[o].amount
  BY <1>2, <1>7, <1>8, RefreshedAmounts
<1> HIDE DEF os
<1> QED
  BY <1>1, <1>3, <1>4, <1>5, <1>8, <1>9, ReversalAlike

LEMMA OnlyOne ==
  ASSUME NEW U, IsFiniteSet(U), Cardinality(U) <= 1, NEW g \in U
  PROVE  U = {g}
<1>1. IsFiniteSet(U \ {g}) /\ Cardinality(U \ {g}) = Cardinality(U) - 1
  BY FS_RemoveElement
<1>2. Cardinality(U) \in Nat /\ Cardinality(U \ {g}) \in Nat
  BY <1>1, FS_CardinalityType
<1>3. Cardinality(U \ {g}) = 0
  BY <1>1, <1>2
<1>4. U \ {g} = {}
  BY <1>1, <1>3, FS_EmptySet
<1> QED
  BY <1>4

LEMMA CommitEditAlike ==
  ASSUME LedgerInv, NEW h \in Handlers, CommitEdit(h)
  PROVE  BilledAlike(orders, transfers, orders', transfers')
<1> DEFINE job == work[h].job
           view == work[h].view
           r == job.receipt
           row == view.receipts[r]
           opens == job.to # NoOrder /\ job.to \notin DOMAIN view.orders
           to == IF opens THEN New(Orders) ELSE job.to
           undone == Impact(view, r, to)
           held == IF opens THEN With(orders, to, PoolOrder(0)) ELSE orders
           lowered == IF undone = {} THEN held ELSE Lowered(held, row.order, row.usd)
           rs == Moved(Delete(receipts, undone), {r}, to)
           own == (IF undone = {} THEN {} ELSE {row.order, to}) \cup (IF opens THEN {to} ELSE {})
           os == Refreshed(view, lowered, rs, own, {r} \cup undone, {row.order, to})
           gone == IF undone = {} THEN {} ELSE Cleaned(view, os, row.order, rs, {r} \cup undone, undone)
<1>1. /\ work[h].step = "open" /\ job.op = "edit" /\ r \in DOMAIN receipts
      /\ opens => Orders \ issued # {}
      /\ to \in DOMAIN held \cup {NoOrder}
      /\ Cardinality(undone) <= 1 /\ \A g \in undone : Reversible(h, g)
      /\ orders' = Delete(os, gone) /\ transfers' = Delete(transfers, undone)
  BY DEF CommitEdit, Is
<1>2. /\ IsTable(view.orders, Orders, Order) /\ IsTable(view.receipts, Receipts, Receipt)
      /\ IsTable(view.transfers, Receipts, Transfer)
  BY <1>1, TakenJobs
<1>3. /\ IsTable(transfers, Receipts, Transfer) /\ IsTable(orders, Orders, Order)
      /\ IsTable(receipts, Receipts, Receipt)
  BY Sounds, IsTables
<1>4. SafeTask(work[h])
  BY DEF LedgerInv
<1>5. IsFiniteSet(undone)
  BY <1>2, IdentifiersAssumption, FS_Subset DEF Impact, IsTable
<1>6. ASSUME NEW g \in undone
      PROVE  /\ undone = {g} /\ g \in DOMAIN transfers
             /\ transfers[g].from = row.order /\ transfers[g].amount = row.usd
  <2>1. undone = {g}
    <3> HIDE DEF undone
    <3> QED
      BY <1>1, <1>5, OnlyOne
  <2>2. g \in DOMAIN transfers /\ g \in DOMAIN view.transfers
    BY <1>1 DEF Reversible, Claimed
  <2>3. view.transfers[g] = [from |-> row.order, to |-> to, amount |-> row.usd]
    BY DEF Impact
  <2>4. transfers[g] = view.transfers[g]
    BY <1>1, <1>4, <2>2 DEF SafeTask
  <2> QED
    BY <2>1, <2>2, <2>3, <2>4
<1>7. /\ opens => to \in Orders /\ to \notin DOMAIN orders
      /\ to \in Orders \cup {NoOrder}
  <2>1. opens => to \in Orders /\ to \notin issued
    BY <1>1, NewIsNew
  <2>2. DOMAIN orders \subseteq issued
    BY Sounds DEF Sound
  <2>3. ~ opens => to \in Orders \cup {NoOrder}
    BY <1>1, <1>3 DEF IsTable
  <2> QED
    BY <2>1, <2>2, <2>3
<1> HIDE DEF job, view, r, row, opens, to, undone, own, gone
<1>8. /\ IsTable(held, Orders, Order) /\ DOMAIN orders \subseteq DOMAIN held
      /\ \A x \in DOMAIN orders : held[x] = orders[x]
  <2>1. PoolOrder(0) \in Order
    BY PoolOrderType
  <2>2. CASE opens
    BY <1>3, <1>7, <2>1, <2>2 DEF IsTable, With
  <2>3. CASE ~ opens
    BY <1>3, <2>3
  <2> QED
    BY <2>2, <2>3
<1> HIDE DEF held
<1>9. IsTable(rs, Receipts, Receipt)
  <2>1. IsTable(Delete(receipts, undone), Receipts, Receipt)
    BY <1>3 DEF IsTable, Delete, Restrict
  <2> QED
    BY <1>7, <2>1, MovedTable
<1> HIDE DEF rs
<1>10. CASE undone = {}
  <2>1. lowered = held
    BY <1>10
  <2> HIDE DEF lowered
  <2>2. /\ DOMAIN Delete(os, gone) \subseteq DOMAIN held
        /\ \A o \in DOMAIN Delete(os, gone) : Delete(os, gone)[o].amount = held[o].amount
    BY <1>2, <1>8, <1>9, <2>1, RefreshedAmounts
  <2> HIDE DEF os
  <2>3. \A o \in DOMAIN orders \cap DOMAIN orders' : orders'[o].amount = orders[o].amount
    BY <1>1, <1>8, <2>2
  <2>4. transfers' = transfers
    BY <1>1, <1>3, <1>10 DEF IsTable, Delete, Restrict
  <2> QED
    BY <2>3, <2>4, AmountsAlike
<1>11. CASE undone # {}
  <2>1. PICK g \in undone : TRUE
    BY <1>11
  <2>2. /\ undone = {g} /\ g \in DOMAIN transfers
        /\ transfers[g].from = row.order /\ transfers[g].amount = row.usd
    BY <1>6
  <2>3. row.usd \in Int
    <3>1. transfers[g].amount \in Amounts
      BY <1>3, <2>2 DEF IsTable, Transfer
    <3> QED
      BY <2>2, <3>1, AmountsAreIntegers
  <2>4. /\ IsTable(lowered, Orders, Order) /\ DOMAIN lowered = DOMAIN held
        /\ \A x \in DOMAIN held :
             lowered[x].amount = IF x = row.order THEN held[x].amount - row.usd ELSE held[x].amount
    BY <1>8, <1>11, <2>3, LoweredTable
  <2> HIDE DEF lowered
  <2>5. /\ DOMAIN Delete(os, gone) \subseteq DOMAIN lowered
        /\ \A o \in DOMAIN Delete(os, gone) : Delete(os, gone)[o].amount = lowered[o].amount
    BY <1>2, <1>9, <2>4, RefreshedAmounts
  <2> HIDE DEF os
  <2>6. \A o \in DOMAIN orders \cap DOMAIN orders' :
          orders'[o].amount = IF o = transfers[g].from THEN orders[o].amount - transfers[g].amount
                              ELSE orders[o].amount
    BY <1>1, <1>8, <2>2, <2>4, <2>5
  <2>7. transfers' = Delete(transfers, {g})
    BY <1>1, <2>2
  <2> QED
    BY <1>3, <2>2, <2>6, <2>7, ReversalAlike
<1> QED
  BY <1>10, <1>11

\* Requests about receipts leave what was billed alone.
LEMMA ReceiptsAlike ==
  ASSUME LedgerInv, NEW h \in Handlers, ReceiptRequests(h)
  PROVE  BilledAlike(orders, transfers, orders', transfers') \/ Turned
<1>1. /\ IsTable(transfers, Receipts, Transfer) /\ IsTable(orders, Orders, Order)
      /\ IsTable(receipts, Receipts, Receipt) /\ DOMAIN orders \subseteq issued
  BY Sounds DEF Sound, AreTables
<1>2. ASSUME NEW o \in DOMAIN orders \cup {NewOrder, NoOrder}, NEW usd \in Amounts,
             NEW deposit \in {FALSE, Deposits},
             CreateReceipt(h, o, usd, deposit) \/ CreateSession(h, o, usd, deposit)
      PROVE  BilledAlike(orders, transfers, orders', transfers')
  <2>1. PICK row : /\ orders' = IF o = NewOrder THEN With(orders, New(Orders), row) ELSE orders
                   /\ transfers' = transfers /\ (o = NewOrder => Orders \ issued # {})
    BY <1>2 DEF CreateReceipt, CreateSession
  <2>2. o = NewOrder => New(Orders) \notin DOMAIN orders
    BY <1>1, <2>1, NewIsNew
  <2>3. \A x \in DOMAIN orders \cap DOMAIN orders' : orders'[x].amount = orders[x].amount
    BY <2>1, <2>2 DEF With
  <2> QED
    BY <2>1, <2>3, AmountsAlike
<1>3. ASSUME NEW r \in DOMAIN receipts, MarkReceived(h, r) \/ DeleteReceipt(h, r)
      PROVE  BilledAlike(orders, transfers, orders', transfers')
  BY <1>3, AmountsAlike DEF MarkReceived, DeleteReceipt
<1>4. ASSUME NEW r \in DOMAIN receipts,
             \/ BeginFinalise(h, r)
             \/ \E to \in DOMAIN orders \cup {NewOrder, NoOrder} : OpenEdit(h, r, to)
             \/ \E o \in DOMAIN orders : BeginBind(h, r, o)
      PROVE  Turned
  BY <1>4, ReceiptRequestsTurn
<1>5. CASE CommitFinalise(h) \/ CommitBind(h)
  <2>1. /\ IsTable(work[h].view.orders, Orders, Order)
        /\ IsTable(work[h].view.receipts, Receipts, Receipt)
    BY <1>5, TakenJobs DEF CommitFinalise, CommitBind, Is
  <2>2. Sound(orders', receipts', transfers', issued')
    BY <1>5, CommitsAreCommitted DEF Committed
  <2>3. IsTable(receipts', Receipts, Receipt)
    BY <2>2, IsTables
  <2>4. transfers' = transfers
    BY <1>5 DEF CommitFinalise, CommitBind
  <2>5. \E O, R, due : orders' = Refreshed(work[h].view, orders, receipts', O, R, due)
    BY <1>5 DEF CommitFinalise, CommitBind
  <2>6. \A x \in DOMAIN orders \cap DOMAIN orders' : orders'[x].amount = orders[x].amount
    BY <1>1, <2>1, <2>3, <2>5, RefreshedTable
  <2> QED
    BY <2>4, <2>6, AmountsAlike
<1> QED
  BY <1>2, <1>3, <1>4, <1>5, CommitEditAlike DEF ReceiptRequests

LEMMA WriteBalanceAlike ==
  ASSUME LedgerInv, NEW h \in Handlers, WriteBalance(h)
  PROVE  BilledAlike(orders, transfers, orders', transfers')
<1>1. IsTable(orders, Orders, Order)
  BY Sounds, IsTables
<1>2. \A x \in DOMAIN orders \cap DOMAIN orders' : orders'[x].amount = orders[x].amount
  <2>1. \A x \in DOMAIN orders : orders[x] \in Order
    BY <1>1 DEF IsTable
  <2>2. \/ orders' = orders
        \/ orders' = [orders EXCEPT ![work[h].order].cached = work[h].owed]
    BY DEF WriteBalance
  <2>3. CASE orders' = [orders EXCEPT ![work[h].order].cached = work[h].owed]
    <3> DEFINE o == work[h].order
    <3>1. ASSUME NEW x \in DOMAIN orders
          PROVE  orders'[x] = orders[x] \/ orders'[x] = [orders[x] EXCEPT !.cached = work[h].owed]
      BY <1>1, <2>3 DEF IsTable
    <3> QED
      BY <2>1, <3>1 DEF Order
  <2> QED
    BY <2>2, <2>3
<1> QED
  BY <1>2, AmountsAlike DEF WriteBalance

LEMMA TurnedAlike == Turned => BilledAlike(orders, transfers, orders', transfers')
BY DEF Turned, BilledAlike

LEMMA StepsKeepWhatWasBilled ==
  LedgerInv /\ [Next]_vars =>
    \/ \A o \in DOMAIN orders \cap DOMAIN orders' : Billed(o)' = Billed(o)
    \/ \E h \in Handlers : InvoiceRequests(h)
<1> SUFFICES ASSUME LedgerInv, [Next]_vars, \A h \in Handlers : ~ InvoiceRequests(h)
             PROVE  BilledAlike(orders, transfers, orders', transfers')
  BY BilledOut
<1>1. CASE UNCHANGED vars
  BY <1>1 DEF vars, BilledAlike
<1>2. ASSUME NEW h \in Handlers, TransferRequests(h)
      PROVE  BilledAlike(orders, transfers, orders', transfers')
  BY <1>2, TransferRequestsTurn, TurnedAlike, CommitTransferAlike, CommitReverseAlike
     DEF TransferRequests
<1>3. ASSUME NEW h \in Handlers,
             Open(h) \/ ReadBalance(h) \/ WriteBalance(h) \/ Refuse(h) \/ Crash(h)
      PROVE  BilledAlike(orders, transfers, orders', transfers')
  BY <1>3, OtherTurns, TurnedAlike, WriteBalanceAlike
<1>4. CASE Next
  BY <1>2, <1>3, <1>4, ReceiptsAlike, TurnedAlike DEF Next
<1> QED
  BY <1>1, <1>4

\* What was invoiced for an order changes only when an invoice, an order's
\* form or a merge says so, for any number of requests: a transfer adds to its
\* source exactly what it records, and a reversal that finds its transfer
\* still there takes exactly that away again, because the rows of transfers
\* never change and their identifiers are not given out twice.
THEOREM TransfersKeepWhatWasBilledAlways == Spec => TransfersKeepWhatWasBilled
<1>1. LedgerInv /\ [Next]_vars =>
        [\/ \A o \in DOMAIN orders \cap DOMAIN orders' : Billed(o)' = Billed(o)
         \/ \E h \in Handlers : InvoiceRequests(h)]_vars
  BY StepsKeepWhatWasBilled
<1> QED
  BY <1>1, LedgerInvAlways, PTL DEF Spec, TransfersKeepWhatWasBilled

-----------------------------------------------------------------------------
(* One request at a time: nothing changes between the first read of a      *)
(* transaction and its commit.                                             *)

Solo == \E h : Handlers = {h}

Current(task) ==
  task.step = "open" =>
    task.view = [orders |-> orders, receipts |-> receipts, transfers |-> transfers]

ViewInv == \A h \in Handlers : Current(work[h])

\* A step of the only handler that ends elsewhere.
LEMMA ElsewhereIsCurrent ==
  ASSUME Solo, LedgerInv, NEW h \in Handlers, NEW task, task.step # "open",
         work' = [work EXCEPT ![h] = task]
  PROVE  ViewInv'
<1>1. \A i \in Handlers : work'[i] = task
  BY DEF Solo, LedgerInv
<1> QED
  BY <1>1 DEF ViewInv, Current

LEMMA IdleIsCurrent ==
  ASSUME Solo, LedgerInv, NEW h \in Handlers, work' = [work EXCEPT ![h] = [step |-> "idle"]]
  PROVE  ViewInv'
BY ElsewhereIsCurrent

LEMMA OwesIsCurrent ==
  ASSUME Solo, LedgerInv, NEW h \in Handlers, NEW due, NEW saving,
         work' = [work EXCEPT ![h] = Owes(due, saving)]
  PROVE  ViewInv'
<1>1. Owes(due, saving).step # "open"
  BY DEF Owes
<1> QED
  BY <1>1, ElsewhereIsCurrent

LEMMA BeginIsCurrent ==
  ASSUME Solo, LedgerInv, NEW h \in Handlers, NEW job, Begin(h, job)
  PROVE  ViewInv'
BY ElsewhereIsCurrent DEF Begin

LEMMA OpenIsCurrent ==
  ASSUME Solo, LedgerInv, NEW h \in Handlers, NEW job, OpenWith(h, job)
  PROVE  ViewInv'
<1> DEFINE task == [step |-> "open", job |-> job,
                    view |-> [orders |-> orders, receipts |-> receipts, transfers |-> transfers]]
<1>1. \A i \in Handlers : work'[i] = task
  BY DEF Solo, LedgerInv, OpenWith
<1> QED
  BY <1>1 DEF ViewInv, Current, OpenWith

LEMMA LookIsCurrent ==
  ASSUME Solo, LedgerInv, NEW h \in Handlers, NEW o, NEW due, NEW saving, Look(h, o, due, saving)
  PROVE  ViewInv'
<1>1. CASE o \in DOMAIN orders
  <2> DEFINE task == [step |-> "read", order |-> o, owed |-> Owed(orders, receipts, o),
                      matches |-> (orders[o].cached = Owed(orders, receipts, o)),
                      due |-> due \ {o}, saving |-> saving]
  <2>1. work' = [work EXCEPT ![h] = task]
    BY <1>1 DEF Look
  <2>2. task.step # "open"
    OBVIOUS
  <2> HIDE DEF task
  <2> QED
    BY <2>1, <2>2, ElsewhereIsCurrent
<1>2. CASE o \notin DOMAIN orders
  BY <1>2, OwesIsCurrent DEF Look
<1> QED
  BY <1>1, <1>2

\* The handler is not in a transaction and stays where it is.
LEMMA StayIsCurrent ==
  ASSUME Solo, NEW h \in Handlers, work[h].step # "open", work' = work
  PROVE  ViewInv'
BY DEF Solo, ViewInv, Current

LEMMA NextKeepsView ==
  ASSUME Solo, LedgerInv, ViewInv, [Next]_vars
  PROVE  ViewInv'
<1>1. CASE UNCHANGED vars
  BY <1>1 DEF vars, ViewInv, Current
<1>2. ASSUME NEW h \in Handlers, ReceiptRequests(h)
      PROVE  ViewInv'
  <2>1. ASSUME NEW o \in DOMAIN orders \cup {NewOrder, NoOrder}, NEW usd \in Amounts,
               NEW deposit \in {FALSE, Deposits},
               CreateReceipt(h, o, usd, deposit) \/ CreateSession(h, o, usd, deposit)
        PROVE  ViewInv'
    <3>1. \/ \E due, saving : work' = [work EXCEPT ![h] = Owes(due, saving)]
          \/ work[h] = [step |-> "idle"] /\ work' = work
      BY <2>1 DEF CreateReceipt, CreateSession, Idle
    <3> QED
      BY <3>1, OwesIsCurrent, StayIsCurrent
  <2>2. ASSUME NEW r \in DOMAIN receipts, MarkReceived(h, r) \/ DeleteReceipt(h, r)
        PROVE  ViewInv'
    <3>1. \/ \E due, saving : work' = [work EXCEPT ![h] = Owes(due, saving)]
          \/ work[h] = [step |-> "idle"] /\ work' = work
      BY <2>2 DEF MarkReceived, DeleteReceipt, Idle
    <3> QED
      BY <3>1, OwesIsCurrent, StayIsCurrent
  <2>3. ASSUME NEW r \in DOMAIN receipts,
               \/ BeginFinalise(h, r)
               \/ \E to \in DOMAIN orders \cup {NewOrder, NoOrder} : OpenEdit(h, r, to)
               \/ \E o \in DOMAIN orders : BeginBind(h, r, o)
        PROVE  ViewInv'
    BY <2>3, BeginIsCurrent, OpenIsCurrent DEF BeginFinalise, OpenEdit, OpenAtOnce, BeginBind
  <2>4. CASE CommitFinalise(h) \/ CommitEdit(h) \/ CommitBind(h)
    BY <2>4, IdleIsCurrent DEF CommitFinalise, CommitEdit, CommitBind
  <2> QED
    BY <1>2, <2>1, <2>2, <2>3, <2>4 DEF ReceiptRequests
<1>3. ASSUME NEW h \in Handlers, TransferRequests(h)
      PROVE  ViewInv'
  BY <1>3, BeginIsCurrent, OpenIsCurrent, IdleIsCurrent
     DEF TransferRequests, BeginTransfer, OpenReverse, OpenAtOnce, CommitTransfer, CommitReverse
<1>4. ASSUME NEW h \in Handlers, InvoiceRequests(h)
      PROVE  ViewInv'
  <2>1. ASSUME NEW o \in DOMAIN orders,
               \/ BeginDeleteOrder(h, o) \/ Repair(h, o)
               \/ \E amount \in Amounts \cup {0, orders[o].amount} :
                    \/ BeginUpdate(h, o, amount)
                    \/ \E to \in DOMAIN orders \cup {NoOrder}, saving \in BOOLEAN :
                         BeginMigrate(h, o, to, amount, saving)
        PROVE  ViewInv'
    BY <2>1, BeginIsCurrent, LookIsCurrent
       DEF BeginDeleteOrder, Repair, BeginUpdate, BeginMigrate
  <2>2. ASSUME NEW o \in DOMAIN orders \cup {NewOrder}, NEW amount \in Amounts,
               NEW saving \in BOOLEAN, Bill(h, o, amount, saving)
        PROVE  ViewInv'
    BY <2>2, OwesIsCurrent DEF Bill
  <2>3. ASSUME NEW sources \in SUBSET DOMAIN orders, NEW to \in DOMAIN orders \cup {NewOrder},
               NEW keep \in BOOLEAN, BeginMerge(h, sources, to, keep)
        PROVE  ViewInv'
    BY <2>3, BeginIsCurrent DEF BeginMerge
  <2>4. ASSUME NEW d \in DOMAIN receipts, NEW o \in DOMAIN orders, MergeDeposit(h, d, o)
        PROVE  ViewInv'
    BY <2>4, StayIsCurrent DEF MergeDeposit
  <2>5. CASE CommitUpdate(h) \/ CommitMigrate(h) \/ CommitMerge(h) \/ CommitDeleteOrder(h)
    <3>1. \/ \E due, saving : work' = [work EXCEPT ![h] = Owes(due, saving)]
          \/ work' = [work EXCEPT ![h] = [step |-> "idle"]]
      BY <2>5 DEF CommitUpdate, CommitMigrate, CommitMerge, CommitDeleteOrder
    <3> QED
      BY <3>1, OwesIsCurrent, IdleIsCurrent
  <2> QED
    BY <1>4, <2>1, <2>2, <2>3, <2>4, <2>5 DEF InvoiceRequests
<1>5. ASSUME NEW h \in Handlers,
             Open(h) \/ ReadBalance(h) \/ WriteBalance(h) \/ Refuse(h) \/ Crash(h)
      PROVE  ViewInv'
  BY <1>5, OpenIsCurrent, LookIsCurrent, OwesIsCurrent, IdleIsCurrent
     DEF Open, ReadBalance, WriteBalance, Refuse, Crash
<1> QED
  BY <1>1, <1>2, <1>3, <1>4, <1>5 DEF Next

LEMMA ViewInvAlways ==
  ASSUME Solo
  PROVE  Spec => []ViewInv
<1>1. Init => ViewInv
  BY DEF Init, ViewInv, Current
<1>2. LedgerInv /\ ViewInv /\ [Next]_vars => ViewInv'
  BY NextKeepsView
<1> QED
  BY <1>1, <1>2, LedgerInvAlways, PTL DEF Spec

\* What an edit of a receipt has left, when its snapshot is up to date.
LEMMA EditCountsOnce ==
  ASSUME LedgerInv, ViewInv, NEW h \in Handlers, CommitEdit(h),
         NEW g \in DOMAIN transfers'
  PROVE  LET r == work[h].job.receipt
         IN transfers'[g] # [from |-> receipts[r].order, to |-> receipts'[r].order,
                             amount |-> receipts[r].usd]
<1> DEFINE job == work[h].job
           view == work[h].view
           r == job.receipt
           row == receipts[r]
           opens == job.to # NoOrder /\ job.to \notin DOMAIN view.orders
           to == IF opens THEN New(Orders) ELSE job.to
           undone == Impact(view, r, to)
           rs0 == Delete(receipts, undone)
           rs == Moved(rs0, {r}, to)
<1>1. /\ view.receipts = receipts /\ view.transfers = transfers /\ view.orders = orders
  <2>1. work[h].view = [orders |-> orders, receipts |-> receipts, transfers |-> transfers]
    BY DEF CommitEdit, Is, ViewInv, Current
  <2> QED
    BY <2>1
<1>2. /\ work[h].step = "open" /\ job.op = "edit" /\ r \in DOMAIN receipts
      /\ (opens => Orders \ issued # {})
      /\ r \notin undone
      /\ transfers' = Delete(transfers, undone)
  BY DEF CommitEdit, Is
<1>3. PICK gone : receipts' = WithoutOrders(rs, gone)
  BY DEF CommitEdit
<1>4. IsTable(transfers, Receipts, Transfer) /\ IsTable(receipts, Receipts, Receipt)
  BY Sounds, IsTables
<1>5. to \in Orders \cup {NoOrder}
  <2>1. job.to \in Orders \cup {NewOrder, NoOrder}
    BY <1>2, TakenJobs, JobTypes
  <2>2. opens => to \in Orders
    BY <1>2, NewIsNew
  <2>3. ~ opens => to \in Orders \cup {NoOrder}
    BY <1>1, <2>1, Identifiers
  <2> QED
    BY <2>2, <2>3
<1>6. undone = {y \in DOMAIN transfers :
                  transfers[y] = [from |-> row.order, to |-> to, amount |-> row.usd]}
  BY <1>1 DEF Impact
<1> HIDE DEF job, view, opens, to, undone
<1>7. IsTable(rs0, Receipts, Receipt) /\ r \in DOMAIN rs0
  BY <1>2, <1>4 DEF IsTable, Delete, Restrict
<1> HIDE DEF rs0
<1>8. IsTable(rs, Receipts, Receipt) /\ r \in DOMAIN rs /\ rs[r].order = to
  BY <1>5, <1>7, MovedTable
<1> HIDE DEF rs
<1>9. receipts'[r].order \in {to, NoOrder}
  BY <1>3, <1>8, WithoutOrdersTable
<1>10. g \in DOMAIN transfers /\ g \notin undone /\ transfers'[g] = transfers[g]
  BY <1>2 DEF Delete, Restrict
<1>11. transfers[g] \in Transfer /\ transfers[g].to # NoOrder
  BY <1>4, <1>10, LedgerAssumption DEF IsTable, Transfer
<1> QED
  BY <1>6, <1>9, <1>10, <1>11 DEF job

\* A receipt that an edit binds to another order is not counted there a second
\* time, when requests run one after the other: the snapshot then shows every
\* transfer of the receipt's money, and the edit undoes it.
THEOREM PaymentCountsOnceAlways ==
  ASSUME Solo
  PROVE  Spec => PaymentCountsOnce
<1>1. LedgerInv /\ ViewInv /\ [Next]_vars =>
        [\A h \in Handlers, r \in DOMAIN receipts :
           CommitEdit(h) /\ work[h].job.receipt = r =>
             \A g \in DOMAIN transfers' :
               transfers'[g] # [from |-> receipts[r].order, to |-> receipts'[r].order,
                                amount |-> receipts[r].usd]]_vars
  BY EditCountsOnce
<1> QED
  BY <1>1, LedgerInvAlways, ViewInvAlways, PTL DEF Spec, PaymentCountsOnce

-----------------------------------------------------------------------------
(* Cached balances, with one request at a time.                            *)

RightAt(os, rs, o) == os[o].cached = Owed(os, rs, o)
RightBut(os, rs, S) == \A o \in DOMAIN os \ S : RightAt(os, rs, o)

\* A handler that owes refreshes may have left those balances wrong, and no
\* others; what it has read is still so.
CacheTask(os, rs, task) ==
  /\ task.step \in {"idle", "checked", "open"} => RightBut(os, rs, {})
  /\ task.step = "owes" => RightBut(os, rs, task.due)
  /\ task.step = "read" =>
       /\ RightBut(os, rs, task.due \cup {task.order})
       /\ task.order \in DOMAIN os =>
            task.owed = Owed(os, rs, task.order) /\ (task.matches => RightAt(os, rs, task.order))
  /\ task.step \in {"checked", "open"} /\ task.job.op = "bind" =>
       task.job.receipt \in DOMAIN rs /\ rs[task.job.receipt].order = NoOrder
  /\ task.step \in {"checked", "open"} /\ task.job.op = "sign" =>
       task.job.receipt \in DOMAIN rs /\ rs[task.job.receipt].order = task.job.order

CacheInv == \A h \in Handlers : CacheTask(orders, receipts, work[h])

Serial == Solo /\ Crashes = FALSE /\ Deposits = FALSE

SerialInv == LedgerInv /\ ViewInv /\ CacheInv

LEMMA ElsewhereCaches ==
  ASSUME Serial, LedgerInv, NEW h \in Handlers, NEW task, CacheTask(orders', receipts', task),
         work' = [work EXCEPT ![h] = task]
  PROVE  CacheInv'
<1>1. \A i \in Handlers : work'[i] = task
  BY DEF Serial, Solo, LedgerInv
<1> QED
  BY <1>1 DEF CacheInv

LEMMA IdleCaches ==
  ASSUME Serial, LedgerInv, NEW h \in Handlers, RightBut(orders', receipts', {}),
         work' = [work EXCEPT ![h] = [step |-> "idle"]]
  PROVE  CacheInv'
<1>1. CacheTask(orders', receipts', [step |-> "idle"])
  BY DEF CacheTask
<1> QED
  BY <1>1, ElsewhereCaches

LEMMA OwesCaches ==
  ASSUME Serial, LedgerInv, NEW h \in Handlers, NEW due, NEW saving,
         RightBut(orders', receipts', due), work' = [work EXCEPT ![h] = Owes(due, saving)]
  PROVE  CacheInv'
<1>1. CacheTask(orders', receipts', Owes(due, saving))
  BY DEF CacheTask, Owes
<1> QED
  BY <1>1, ElsewhereCaches

\* The order is owed the receipt.
Owing(rs, o, r) == r \in DOMAIN rs /\ rs[r].order = o /\ Counted(rs[r])

\* Orders outside S have neither changed nor got or lost a counted receipt.
Unaffected(os, rs, os2, rs2, S) ==
  \A o \in DOMAIN os2 \ S :
    /\ o \in DOMAIN os /\ os2[o] = os[o]
    /\ \A r : /\ Owing(rs, o, r) <=> Owing(rs2, o, r)
              /\ Owing(rs, o, r) => rs[r].usd = rs2[r].usd

LEMMA StillRight ==
  ASSUME NEW os, NEW rs, NEW S, NEW os2, NEW rs2, NEW S2, RightBut(os, rs, S), S \subseteq S2,
         Unaffected(os, rs, os2, rs2, S2)
  PROVE  RightBut(os2, rs2, S2)
<1> SUFFICES ASSUME NEW o \in DOMAIN os2 \ S2
             PROVE  RightAt(os2, rs2, o)
  BY DEF RightBut
<1>1. o \in DOMAIN os \ S /\ os2[o] = os[o]
  BY DEF Unaffected
<1>2. \A r : /\ Owing(rs, o, r) <=> Owing(rs2, o, r)
             /\ Owing(rs, o, r) => rs[r].usd = rs2[r].usd
  BY DEF Unaffected
<1>3. Owed(os, rs, o) = Owed(os2, rs2, o)
  BY <1>1, <1>2, OwedAgrees DEF Owing
<1>4. os[o].cached = Owed(os, rs, o)
  BY <1>1 DEF RightBut, RightAt
<1> QED
  BY <1>1, <1>3, <1>4 DEF RightAt

\* A transaction that has written every receipt it changed and refreshes the
\* orders it affects sees the right balances.
LEMMA RefreshedRight ==
  ASSUME NEW view, NEW os, NEW rs, IsTable(rs, Receipts, Receipt), NEW O, NEW R, NEW due,
         IsTable(view.receipts, Receipts, Receipt),
         \A r : r \notin R => /\ r \in DOMAIN view.receipts <=> r \in DOMAIN rs
                              /\ r \in DOMAIN rs => rs[r] = view.receipts[r],
         \A o \in due \cap DOMAIN os :
           os[o] \in Order /\ (o \in O \/ (o \in DOMAIN view.orders /\ view.orders[o] = os[o])),
         RightBut(os, rs, due)
  PROVE  RightBut(Refreshed(view, os, rs, O, R, due), rs, {})
<1> DEFINE seen == Overlay(view.orders, os, O)
           seenReceipts == Overlay(view.receipts, rs, R)
           new == Refreshed(view, os, rs, O, R, due)
<1>1. seenReceipts = rs
  <2>1. DOMAIN seenReceipts = DOMAIN rs
    BY DEF Overlay
  <2>2. \A r \in DOMAIN rs : seenReceipts[r] = rs[r]
    BY <2>1 DEF Overlay
  <2>3. IsTable(seenReceipts, Receipts, Receipt)
    BY OverlayTable
  <2> HIDE DEF seenReceipts
  <2> QED
    BY <2>1, <2>2, <2>3 DEF IsTable
<1>2. DOMAIN new = DOMAIN os
  BY DEF Refreshed
<1>3. ASSUME NEW o \in DOMAIN os
      PROVE  RightAt(new, rs, o)
  <2> DEFINE sum == Total(rs, {r \in ReceiptsOf(rs, o) : Counted(rs[r])})
             owed == Owed(seen, rs, o)
  <2>1. CASE o \in due
    <3>1. o \in DOMAIN seen /\ seen[o] = os[o]
      BY <2>1 DEF Overlay
    <3>2. new[o] = IF seen[o].cached = owed THEN os[o] ELSE [os[o] EXCEPT !.cached = owed]
      BY <1>1, <2>1, <3>1 DEF Refreshed
    <3>3. os[o] \in Order
      BY <2>1
    <3>4. owed = os[o].amount - sum
      BY <3>1 DEF Owed
    <3>5. Owed(new, rs, o) = new[o].amount - sum
      BY DEF Owed
    <3> HIDE DEF new, owed, sum, seen
    <3>6. new[o].amount = os[o].amount /\ new[o].cached = owed
      BY <3>1, <3>2, <3>3 DEF Order
    <3> QED
      BY <3>4, <3>5, <3>6 DEF RightAt
  <2>2. CASE o \notin due
    <3>1. new[o] = os[o]
      BY <2>2 DEF Refreshed
    <3>2. os[o].cached = Owed(os, rs, o)
      BY <2>2 DEF RightBut, RightAt
    <3> QED
      BY <3>1, <3>2 DEF RightAt, Owed
  <2> QED
    BY <2>1, <2>2
<1> QED
  BY <1>2, <1>3 DEF RightBut

\* Orders that go take nothing from the others.
LEMMA DeletedRight ==
  ASSUME NEW os, NoOrder \notin DOMAIN os, NEW rs, IsTable(rs, Receipts, Receipt), NEW gone,
         NEW S, RightBut(os, rs, S)
  PROVE  RightBut(Delete(os, gone), WithoutOrders(rs, gone), S)
<1>1. DOMAIN Delete(os, gone) = DOMAIN os \ gone /\ \A o \in DOMAIN os \ gone : Delete(os, gone)[o] = os[o]
  BY DEF Delete, Restrict
<1>2. /\ DOMAIN WithoutOrders(rs, gone) = DOMAIN rs
      /\ \A r \in DOMAIN rs :
           /\ WithoutOrders(rs, gone)[r].usd = rs[r].usd
           /\ WithoutOrders(rs, gone)[r].status = rs[r].status
           /\ WithoutOrders(rs, gone)[r].order = IF rs[r].order \in gone THEN NoOrder ELSE rs[r].order
  BY WithoutOrdersTable
<1>3. Unaffected(os, rs, Delete(os, gone), WithoutOrders(rs, gone), S)
  BY <1>1, <1>2 DEF Unaffected, Owing, Counted
<1> QED
  BY <1>3, StillRight

\* Balances are right between requests and during a transaction.
LEMMA RightNow ==
  ASSUME SerialInv, NEW h \in Handlers, work[h].step \in {"idle", "checked", "open"}
  PROVE  RightBut(orders, receipts, {})
BY DEF SerialInv, CacheInv, CacheTask

LEMMA SerialParts ==
  ASSUME SerialInv
  PROVE  /\ LedgerInv /\ Sound(orders, receipts, transfers, issued)
         /\ IsTable(orders, Orders, Order) /\ IsTable(receipts, Receipts, Receipt)
         /\ IsTable(transfers, Receipts, Transfer)
         /\ DOMAIN orders \cup DOMAIN receipts \cup DOMAIN transfers \subseteq issued
         /\ NoOrder \notin DOMAIN orders
         /\ \A r \in DOMAIN receipts : receipts[r].order \in DOMAIN orders \cup {NoOrder}
BY Sounds, LedgerAssumption DEF SerialInv, Sound, AreTables, IsTable

\* The tables are those that the transaction has seen.
LEMMA ViewNow ==
  ASSUME SerialInv, NEW h \in Handlers, work[h].step = "open"
  PROVE  /\ work[h].view.orders = orders /\ work[h].view.receipts = receipts
         /\ work[h].view.transfers = transfers
<1>1. work[h].view = [orders |-> orders, receipts |-> receipts, transfers |-> transfers]
  BY DEF SerialInv, ViewInv, Current
<1> QED
  BY <1>1

\* What a task that has begun knows of its receipt.
Knows(rs, job) ==
  /\ job.op = "bind" => job.receipt \in DOMAIN rs /\ rs[job.receipt].order = NoOrder
  /\ job.op = "sign" => job.receipt \in DOMAIN rs /\ rs[job.receipt].order = job.order

LEMMA BeginCaches ==
  ASSUME Serial, SerialInv, NEW h \in Handlers, NEW job, Begin(h, job), Knows(receipts, job)
  PROVE  CacheInv'
<1> DEFINE task == [step |-> "checked", job |-> job]
<1>1. RightBut(orders, receipts, {})
  BY RightNow DEF Begin, Idle
<1>2. CacheTask(orders, receipts, task)
  BY <1>1 DEF CacheTask, Knows
<1>3. work' = [work EXCEPT ![h] = task] /\ orders' = orders /\ receipts' = receipts
  BY DEF Begin
<1> HIDE DEF task
<1> QED
  BY <1>2, <1>3, ElsewhereCaches, SerialParts

LEMMA OpenCaches ==
  ASSUME Serial, SerialInv, NEW h \in Handlers, NEW job, OpenWith(h, job), Knows(receipts, job),
         work[h].step \in {"idle", "checked"}
  PROVE  CacheInv'
<1> DEFINE task == [step |-> "open", job |-> job,
                    view |-> [orders |-> orders, receipts |-> receipts, transfers |-> transfers]]
<1>1. RightBut(orders, receipts, {})
  BY RightNow
<1>2. CacheTask(orders, receipts, task)
  BY <1>1 DEF CacheTask, Knows
<1>3. work' = [work EXCEPT ![h] = task] /\ orders' = orders /\ receipts' = receipts
  BY DEF OpenWith
<1> HIDE DEF task
<1> QED
  BY <1>2, <1>3, ElsewhereCaches, SerialParts

LEMMA LookCaches ==
  ASSUME Serial, SerialInv, NEW h \in Handlers, NEW o, NEW due, NEW saving,
         Look(h, o, due, saving), RightBut(orders, receipts, due \cup {o}),
         orders' = orders, receipts' = receipts
  PROVE  CacheInv'
<1>1. CASE o \in DOMAIN orders
  <2> DEFINE matches == orders[o].cached = Owed(orders, receipts, o)
             task == [step |-> "read", order |-> o, owed |-> Owed(orders, receipts, o),
                      matches |-> matches, due |-> due \ {o}, saving |-> saving]
  <2>1. work' = [work EXCEPT ![h] = task]
    BY <1>1 DEF Look
  <2>2. RightBut(orders, receipts, (due \ {o}) \cup {o})
    BY DEF RightBut
  <2>3. matches => RightAt(orders, receipts, o)
    BY DEF RightAt
  <2> HIDE DEF matches
  <2>4. CacheTask(orders, receipts, task)
    BY <2>2, <2>3 DEF CacheTask
  <2> HIDE DEF task
  <2> QED
    BY <2>1, <2>4, ElsewhereCaches, SerialParts
<1>2. CASE o \notin DOMAIN orders
  <2>1. work' = [work EXCEPT ![h] = Owes(due \ {o}, saving)]
    BY <1>2 DEF Look
  <2>2. RightBut(orders, receipts, due \ {o})
    BY <1>2 DEF RightBut
  <2> QED
    BY <2>1, <2>2, OwesCaches, SerialParts
<1> QED
  BY <1>1, <1>2

LEMMA ReadBalanceCaches ==
  ASSUME Serial, SerialInv, NEW h \in Handlers, ReadBalance(h)
  PROVE  CacheInv'
<1>1. PICK o \in work[h].due : Look(h, o, work[h].due, work[h].saving)
  BY DEF ReadBalance
<1>2. RightBut(orders, receipts, work[h].due)
  BY DEF SerialInv, CacheInv, CacheTask, ReadBalance
<1>3. RightBut(orders, receipts, work[h].due \cup {o})
  BY <1>2 DEF RightBut
<1> QED
  BY <1>1, <1>3, LookCaches DEF ReadBalance

LEMMA WriteBalanceCaches ==
  ASSUME Serial, SerialInv, NEW h \in Handlers, WriteBalance(h)
  PROVE  CacheInv'
<1> DEFINE o == work[h].order
           owed == work[h].owed
           due == work[h].due
<1>1. /\ orders' = IF work[h].matches \/ o \notin DOMAIN orders THEN orders
                   ELSE [orders EXCEPT ![o].cached = owed]
      /\ work' = [work EXCEPT ![h] = Owes(due, work[h].saving)] /\ receipts' = receipts
      /\ work[h].step = "read"
  BY DEF WriteBalance
<1>2. /\ RightBut(orders, receipts, due \cup {o})
      /\ o \in DOMAIN orders =>
           owed = Owed(orders, receipts, o) /\ (work[h].matches => RightAt(orders, receipts, o))
  BY <1>1 DEF SerialInv, CacheInv, CacheTask
<1> HIDE DEF o, owed, due
<1>3. CASE work[h].matches \/ o \notin DOMAIN orders
  <2>1. RightBut(orders', receipts', due)
    BY <1>1, <1>2, <1>3 DEF RightBut
  <2> QED
    BY <1>1, <2>1, OwesCaches, SerialParts
<1>4. CASE ~ work[h].matches /\ o \in DOMAIN orders
  <2> DEFINE row == [orders[o] EXCEPT !.cached = owed]
  <2>1. IsTable(orders, Orders, Order) /\ orders[o] \in Order
    BY <1>4, SerialParts DEF IsTable
  <2>2. row.amount = orders[o].amount /\ row.cached = owed
    BY <2>1 DEF Order
  <2>3. /\ DOMAIN orders' = DOMAIN orders /\ orders'[o] = row
        /\ \A x \in DOMAIN orders \ {o} : orders'[x] = orders[x]
    BY <1>1, <1>4, <2>1 DEF IsTable
  <2> HIDE DEF row
  <2>4. ASSUME NEW x \in DOMAIN orders \ {o}
        PROVE  RightAt(orders, receipts, x) => RightAt(orders', receipts', x)
    BY <1>1, <2>3 DEF RightAt, Owed
  <2>5. RightAt(orders', receipts', o)
    BY <1>1, <1>2, <1>4, <2>2, <2>3 DEF RightAt, Owed
  <2>6. RightBut(orders', receipts', due)
    BY <1>2, <2>3, <2>4, <2>5 DEF RightBut
  <2> QED
    BY <1>1, <2>6, OwesCaches, SerialParts
<1> QED
  BY <1>3, <1>4

LEMMA RepairCaches ==
  ASSUME Serial, SerialInv, NEW h \in Handlers, NEW o, Repair(h, o)
  PROVE  CacheInv'
<1>1. RightBut(orders, receipts, {})
  BY RightNow DEF Repair, Idle
<1>2. RightBut(orders, receipts, {} \cup {o})
  BY <1>1 DEF RightBut
<1> QED
  BY <1>2, LookCaches DEF Repair

LEMMA RefuseCaches ==
  ASSUME Serial, SerialInv, NEW h \in Handlers, Refuse(h)
  PROVE  CacheInv'
<1>1. RightBut(orders, receipts, {})
  BY RightNow DEF Refuse
<1> QED
  BY <1>1, IdleCaches, SerialParts DEF Refuse

\* A table with one more receipt.
LEMMA EnteredRow ==
  ASSUME SerialInv, Receipts \ issued # {}, NEW row,
         receipts' = With(receipts, New(Receipts), row)
  PROVE  /\ New(Receipts) \notin DOMAIN receipts
         /\ DOMAIN receipts' = DOMAIN receipts \cup {New(Receipts)}
         /\ receipts'[New(Receipts)] = row /\ \A r \in DOMAIN receipts : receipts'[r] = receipts[r]
<1>1. New(Receipts) \notin DOMAIN receipts
  BY NewIsNew, SerialParts
<1> QED
  BY <1>1 DEF With

LEMMA CreateReceiptCaches ==
  ASSUME Serial, SerialInv, NEW h \in Handlers, NEW o \in DOMAIN orders \cup {NewOrder, NoOrder},
         NEW usd \in Amounts, NEW deposit \in {FALSE, Deposits},
         CreateReceipt(h, o, usd, deposit)
  PROVE  CacheInv'
<1> DEFINE r == New(Receipts)
           target == IF o = NewOrder THEN New(Orders) ELSE o
           row == [order |-> target, usd |-> usd, status |-> "SR_Received", deposit |-> deposit]
           due == {target} \ {NoOrder}
<1>1. PICK pool : orders' = IF o = NewOrder THEN With(orders, target, pool) ELSE orders
  BY DEF CreateReceipt
<1>2. /\ receipts' = With(receipts, r, row)
      /\ work' = [work EXCEPT ![h] = Owes(due, FALSE)]
      /\ Receipts \ issued # {} /\ Idle(h)
  BY DEF CreateReceipt
<1>3. row.order = target
  OBVIOUS
<1> HIDE DEF row
<1>4. /\ r \notin DOMAIN receipts /\ DOMAIN receipts' = DOMAIN receipts \cup {r}
      /\ receipts'[r] = row /\ \A x \in DOMAIN receipts : receipts'[x] = receipts[x]
  BY <1>2, EnteredRow
<1> HIDE DEF r, target
<1>5. \A x \in DOMAIN orders' \ {target} : x \in DOMAIN orders /\ orders'[x] = orders[x]
  BY <1>1 DEF With
<1>6. o # NewOrder => orders' = orders
  BY <1>1
<1>7. NoOrder \notin DOMAIN orders' \ {target} /\ (target = NoOrder => NoOrder \notin DOMAIN orders')
  <2>1. NoOrder \notin DOMAIN orders
    BY SerialParts
  <2>2. target = NoOrder => o # NewOrder
    <3>1. o = NewOrder => target \in Orders
      BY NewIsNew DEF target, CreateReceipt
    <3> QED
      BY <3>1, LedgerAssumption
  <2> QED
    BY <1>5, <1>6, <2>1, <2>2
<1>8. Unaffected(orders, receipts, orders', receipts', due)
  BY <1>3, <1>4, <1>5, <1>7 DEF Unaffected, Owing
<1>9. RightBut(orders, receipts, {})
  BY <1>2, RightNow DEF Idle
<1>10. RightBut(orders', receipts', due)
  BY <1>8, <1>9, StillRight
<1> HIDE DEF due
<1> QED
  BY <1>2, <1>10, OwesCaches, SerialParts

LEMMA CreateSessionCaches ==
  ASSUME Serial, SerialInv, NEW h \in Handlers, NEW o \in DOMAIN orders \cup {NewOrder, NoOrder},
         NEW usd \in Amounts, NEW deposit \in {FALSE, Deposits},
         CreateSession(h, o, usd, deposit)
  PROVE  CacheInv'
<1>1. deposit = FALSE
  BY deposit \in {FALSE, Deposits}, Zenon DEF Serial
<1>2. o \in DOMAIN orders /\ Receipts \ issued # {} /\ Idle(h) /\ work' = work
  BY <1>1 DEF CreateSession
<1>3. o # NewOrder
  BY <1>2, Identifiers, LedgerAssumption, SerialParts
<1> DEFINE row == [order |-> o, usd |-> usd, status |-> "SIGNING_PENDING", deposit |-> deposit]
<1>4. orders' = orders /\ receipts' = With(receipts, New(Receipts), row)
  BY <1>3 DEF CreateSession
<1>5. row.status = "SIGNING_PENDING"
  OBVIOUS
<1> HIDE DEF row
<1>6. Unaffected(orders, receipts, orders', receipts', {})
  BY <1>2, <1>4, <1>5, EnteredRow DEF Unaffected, Owing, Counted
<1>7. RightBut(orders', receipts', {})
  BY <1>2, <1>6, RightNow, StillRight DEF Idle
<1>8. CacheTask(orders', receipts', [step |-> "idle"])
  BY <1>7 DEF CacheTask
<1>9. \A i \in Handlers : work'[i] = [step |-> "idle"]
  BY <1>2 DEF Idle, Serial, Solo
<1> QED
  BY <1>8, <1>9 DEF CacheInv

LEMMA MarkReceivedCaches ==
  ASSUME Serial, SerialInv, NEW h \in Handlers, NEW r \in DOMAIN receipts, MarkReceived(h, r)
  PROVE  CacheInv'
<1>1. /\ receipts' = [receipts EXCEPT ![r].status = "RECEIVED"] /\ orders' = orders /\ work' = work
      /\ receipts[r].status # "SIGNING_PENDING" /\ Idle(h)
  BY DEF MarkReceived
<1>2. IsTable(receipts, Receipts, Receipt) /\ receipts[r] \in Receipt
  BY SerialParts DEF IsTable
<1>3. /\ DOMAIN receipts' = DOMAIN receipts /\ \A x \in DOMAIN receipts \ {r} : receipts'[x] = receipts[x]
      /\ receipts'[r].order = receipts[r].order /\ receipts'[r].usd = receipts[r].usd
      /\ receipts'[r].status = "RECEIVED"
  BY <1>1, <1>2 DEF IsTable, Receipt
<1>4. Unaffected(orders, receipts, orders', receipts', {})
  BY <1>1, <1>3 DEF Unaffected, Owing, Counted
<1>5. RightBut(orders', receipts', {})
  BY <1>1, <1>4, RightNow, StillRight DEF Idle
<1>6. CacheTask(orders', receipts', [step |-> "idle"])
  BY <1>5 DEF CacheTask
<1>7. \A i \in Handlers : work'[i] = [step |-> "idle"]
  BY <1>1 DEF Idle, Serial, Solo
<1> QED
  BY <1>6, <1>7 DEF CacheInv

LEMMA DeleteReceiptCaches ==
  ASSUME Serial, SerialInv, NEW h \in Handlers, NEW r \in DOMAIN receipts, DeleteReceipt(h, r)
  PROVE  CacheInv'
<1> DEFINE due == {receipts[r].order} \ {NoOrder}
<1>1. /\ receipts' = Delete(receipts, {r}) /\ orders' = orders /\ Idle(h)
      /\ work' = [work EXCEPT ![h] = Owes(due, FALSE)]
  BY DEF DeleteReceipt
<1>2. /\ DOMAIN receipts' = DOMAIN receipts \ {r}
      /\ \A x \in DOMAIN receipts \ {r} : receipts'[x] = receipts[x]
  BY <1>1 DEF Delete, Restrict
<1>3. NoOrder \notin DOMAIN orders
  BY SerialParts
<1>4. Unaffected(orders, receipts, orders', receipts', due)
  BY <1>1, <1>2, <1>3 DEF Unaffected, Owing
<1>5. RightBut(orders, receipts, {})
  BY <1>1, RightNow DEF Idle
<1>6. RightBut(orders', receipts', due)
  BY <1>4, <1>5, StillRight
<1> HIDE DEF due
<1> QED
  BY <1>1, <1>6, OwesCaches, SerialParts

LEMMA CommitFinaliseCaches ==
  ASSUME Serial, SerialInv, NEW h \in Handlers, CommitFinalise(h)
  PROVE  CacheInv'
<1> DEFINE r == work[h].job.receipt
           o == work[h].job.order
           view == work[h].view
           signed == [receipts EXCEPT ![r].status = "SR_Received"]
<1>1. /\ receipts' = signed /\ orders' = Refreshed(view, orders, signed, {}, {r}, {o})
      /\ work' = [work EXCEPT ![h] = [step |-> "idle"]]
      /\ work[h].step = "open" /\ work[h].job.op = "sign"
  BY DEF CommitFinalise, Is
<1>2. r \in DOMAIN receipts /\ receipts[r].order = o
  BY <1>1 DEF SerialInv, CacheInv, CacheTask
<1>3. view.orders = orders /\ view.receipts = receipts
  BY <1>1, ViewNow
<1>4. IsTable(receipts, Receipts, Receipt) /\ receipts[r] \in Receipt /\ IsTable(orders, Orders, Order)
  BY <1>2, SerialParts DEF IsTable
<1>5. /\ DOMAIN signed = DOMAIN receipts /\ \A x \in DOMAIN receipts \ {r} : signed[x] = receipts[x]
      /\ signed[r].order = o /\ IsTable(signed, Receipts, Receipt)
  BY <1>2, <1>4 DEF IsTable, Receipt, Statuses
<1> HIDE DEF signed, r, o, view
<1>6. Unaffected(orders, receipts, orders, signed, {o})
  BY <1>2, <1>5 DEF Unaffected, Owing
<1>7. RightBut(orders, receipts, {})
  BY <1>1, RightNow
<1>8. RightBut(orders, signed, {o})
  BY <1>6, <1>7, StillRight
<1>9. \A x \in {o} \cap DOMAIN orders : orders[x] \in Order /\ x \in DOMAIN view.orders
                                        /\ view.orders[x] = orders[x]
  BY <1>3, <1>4 DEF IsTable
<1>10. \A x : x \notin {r} => /\ x \in DOMAIN view.receipts <=> x \in DOMAIN signed
                              /\ x \in DOMAIN signed => signed[x] = view.receipts[x]
  BY <1>3, <1>5
<1>11. RightBut(Refreshed(view, orders, signed, {}, {r}, {o}), signed, {})
  BY <1>3, <1>4, <1>5, <1>8, <1>9, <1>10, RefreshedRight
<1> QED
  BY <1>1, <1>11, IdleCaches, SerialParts

LEMMA CommitBindCaches ==
  ASSUME Serial, SerialInv, NEW h \in Handlers, CommitBind(h)
  PROVE  CacheInv'
<1> DEFINE r == work[h].job.receipt
           o == work[h].job.order
           view == work[h].view
           rs == Moved(receipts, {r}, o)
<1>1. /\ receipts' = rs /\ orders' = Refreshed(view, orders, rs, {}, {r}, {o})
      /\ work' = [work EXCEPT ![h] = [step |-> "idle"]] /\ o \in DOMAIN orders
      /\ work[h].step = "open" /\ work[h].job.op = "bind"
  BY DEF CommitBind, Is
<1>2. r \in DOMAIN receipts /\ receipts[r].order = NoOrder
  BY <1>1 DEF SerialInv, CacheInv, CacheTask
<1>3. view.orders = orders /\ view.receipts = receipts
  BY <1>1, ViewNow
<1>4. /\ IsTable(receipts, Receipts, Receipt) /\ IsTable(orders, Orders, Order)
      /\ NoOrder \notin DOMAIN orders
  BY SerialParts
<1>5. /\ DOMAIN rs = DOMAIN receipts /\ \A x \in DOMAIN receipts \ {r} : rs[x] = receipts[x]
      /\ rs[r].order = o /\ IsTable(rs, Receipts, Receipt)
  <2>1. o \in Orders \cup {NoOrder}
    BY <1>1, <1>4 DEF IsTable
  <2>2. IsTable(rs, Receipts, Receipt) /\ DOMAIN rs = DOMAIN receipts /\ rs[r].order = o
    BY <1>2, <1>4, <2>1, MovedTable
  <2>3. \A x \in DOMAIN receipts \ {r} : rs[x] = receipts[x]
    BY DEF Moved
  <2> QED
    BY <2>2, <2>3
<1> HIDE DEF rs, r, o, view
<1>6. Unaffected(orders, receipts, orders, rs, {o})
  BY <1>2, <1>4, <1>5 DEF Unaffected, Owing
<1>7. RightBut(orders, receipts, {})
  BY <1>1, RightNow
<1>8. RightBut(orders, rs, {o})
  BY <1>6, <1>7, StillRight
<1>9. \A x \in {o} \cap DOMAIN orders : orders[x] \in Order /\ x \in DOMAIN view.orders
                                        /\ view.orders[x] = orders[x]
  BY <1>3, <1>4 DEF IsTable
<1>10. \A x : x \notin {r} => /\ x \in DOMAIN view.receipts <=> x \in DOMAIN rs
                              /\ x \in DOMAIN rs => rs[x] = view.receipts[x]
  BY <1>3, <1>5
<1>11. RightBut(Refreshed(view, orders, rs, {}, {r}, {o}), rs, {})
  BY <1>3, <1>4, <1>5, <1>8, <1>9, <1>10, RefreshedRight
<1> QED
  BY <1>1, <1>11, IdleCaches, SerialParts

LEMMA CommitTransferCaches ==
  ASSUME Serial, SerialInv, NEW h \in Handlers, CommitTransfer(h)
  PROVE  CacheInv'
<1> DEFINE job == work[h].job
           view == work[h].view
           opens == job.to \notin DOMAIN view.orders
           to == IF opens THEN New(Orders) ELSE job.to
           g == New(Receipts)
           raised == AddedTo(orders, job.from, job.amount)
           os == IF opens THEN With(raised, to, PoolOrder(0)) ELSE raised
           row == [order |-> to, usd |-> job.amount, status |-> "Bank_Transfer", deposit |-> FALSE]
           rs == With(receipts, g, row)
           own == IF opens THEN {job.from, to} ELSE {job.from}
           due == {job.from, to}
<1>1. /\ work[h].step = "open" /\ job.op = "transfer" /\ Receipts \ issued # {}
      /\ (opens => Orders \ issued # {})
      /\ due \subseteq DOMAIN os
      /\ receipts' = rs /\ orders' = Refreshed(view, os, rs, own, {g}, due)
      /\ work' = [work EXCEPT ![h] = [step |-> "idle"]]
  BY DEF CommitTransfer, Is, AddedTo
<1>2. job.amount \in Int
  <2>1. job.amount \in Amounts
    BY <1>1, TakenJobs, JobTypes, SerialParts
  <2> HIDE DEF job
  <2> QED
    BY <2>1, AmountsAreIntegers
<1>3. view.orders = orders /\ view.receipts = receipts
  BY <1>1, ViewNow
<1>4. /\ IsTable(receipts, Receipts, Receipt) /\ IsTable(orders, Orders, Order)
      /\ DOMAIN orders \subseteq issued
  BY SerialParts
<1>5. opens => to \in Orders /\ to \notin DOMAIN orders
  BY <1>1, <1>4, NewIsNew
<1>6. IsTable(rs, Receipts, Receipt)
  BY <1>1, SerialParts, CommitTransferCommits, IsTables DEF Committed
<1>7. row.order = to
  OBVIOUS
<1> HIDE DEF row
<1>8. /\ g \notin DOMAIN receipts /\ DOMAIN rs = DOMAIN receipts \cup {g}
      /\ rs[g] = row /\ \A x \in DOMAIN receipts : rs[x] = receipts[x]
  BY <1>1, EnteredRow
<1>9. /\ IsTable(raised, Orders, Order) /\ DOMAIN raised = DOMAIN orders
  BY <1>2, <1>4, AddedTable
<1>10. \A x \in DOMAIN orders \ {job.from} : raised[x] = orders[x]
  BY DEF AddedTo
<1> HIDE DEF job, view, g, raised, rs
<1>11. /\ IsTable(os, Orders, Order)
       /\ \A x \in DOMAIN os \ {to} : x \in DOMAIN orders /\ os[x] = raised[x]
       /\ ~ opens => os = raised
  <2>1. CASE opens
    <3>1. PoolOrder(0) \in Order
      BY PoolOrderType
    <3> HIDE DEF to
    <3> QED
      BY <1>5, <1>9, <2>1, <3>1 DEF IsTable, With
  <2>2. CASE ~ opens
    BY <1>9, <2>2
  <2> QED
    BY <2>1, <2>2
<1> HIDE DEF to, opens, os
<1>12. Unaffected(orders, receipts, os, rs, due)
  BY <1>7, <1>8, <1>10, <1>11 DEF Unaffected, Owing
<1>13. RightBut(orders, receipts, {})
  BY <1>1, RightNow
<1>14. RightBut(os, rs, due)
  BY <1>12, <1>13, StillRight
<1>15. \A x \in due \cap DOMAIN os :
         os[x] \in Order /\ (x \in own \/ (x \in DOMAIN view.orders /\ view.orders[x] = os[x]))
  <2>1. \A x \in DOMAIN os : os[x] \in Order
    BY <1>11 DEF IsTable
  <2>2. CASE opens
    BY <2>1, <2>2
  <2>3. CASE ~ opens
    BY <1>3, <1>9, <1>10, <1>11, <2>1, <2>3
  <2> QED
    BY <2>2, <2>3
<1>16. \A x : x \notin {g} => /\ x \in DOMAIN view.receipts <=> x \in DOMAIN rs
                              /\ x \in DOMAIN rs => rs[x] = view.receipts[x]
  BY <1>3, <1>8
<1> HIDE DEF own, due
<1>17. RightBut(Refreshed(view, os, rs, own, {g}, due), rs, {})
  BY <1>3, <1>4, <1>6, <1>14, <1>15, <1>16, RefreshedRight
<1> QED
  BY <1>1, <1>17, IdleCaches, SerialParts

LEMMA CommitReverseCaches ==
  ASSUME Serial, SerialInv, NEW h \in Handlers, CommitReverse(h)
  PROVE  CacheInv'
<1> DEFINE g == work[h].job.transfer
           view == work[h].view
           t == view.transfers[g]
           rs == Delete(receipts, {g})
           low == Lowered(orders, t.from, t.amount)
           due == {t.from, t.to}
           os == Refreshed(view, low, rs, {t.from}, {g}, due)
           gone == Cleaned(view, os, t.from, rs, {g}, {g})
<1>1. /\ work[h].step = "open" /\ Reversible(h, g)
      /\ orders' = Delete(os, gone) /\ receipts' = WithoutOrders(rs, gone)
      /\ work' = [work EXCEPT ![h] = [step |-> "idle"]]
  BY DEF CommitReverse, Is
<1>2. view.orders = orders /\ view.receipts = receipts /\ view.transfers = transfers
  BY <1>1, ViewNow
<1>3. /\ IsTable(receipts, Receipts, Receipt) /\ IsTable(orders, Orders, Order)
      /\ IsTable(transfers, Receipts, Transfer) /\ NoOrder \notin DOMAIN orders
  BY SerialParts
<1>4. g \in DOMAIN transfers /\ receipts[g].order = t.to
  BY <1>1, <1>2 DEF Reversible, Claimed
<1>5. t.amount \in Int
  <2>1. transfers[g].amount \in Amounts
    BY <1>3, <1>4 DEF IsTable, Transfer
  <2> QED
    BY <1>2, <2>1, AmountsAreIntegers
<1>6. /\ IsTable(rs, Receipts, Receipt) /\ DOMAIN rs = DOMAIN receipts \ {g}
      /\ \A x \in DOMAIN rs : rs[x] = receipts[x]
  BY <1>3 DEF IsTable, Delete, Restrict
<1> HIDE DEF g, view, t, rs, gone
<1>7. IsTable(low, Orders, Order) /\ DOMAIN low = DOMAIN orders
  BY <1>3, <1>5, LoweredTable
<1>8. \A x \in DOMAIN orders \ {t.from} : low[x] = orders[x]
  BY DEF Lowered
<1> HIDE DEF low
<1>9. Unaffected(orders, receipts, low, rs, due)
  BY <1>4, <1>6, <1>7, <1>8 DEF Unaffected, Owing
<1>10. RightBut(orders, receipts, {})
  BY <1>1, RightNow
<1>11. RightBut(low, rs, due)
  BY <1>9, <1>10, StillRight
<1>12. \A x \in due \cap DOMAIN low :
         low[x] \in Order /\ (x \in {t.from} \/ (x \in DOMAIN view.orders /\ view.orders[x] = low[x]))
  BY <1>2, <1>7, <1>8 DEF IsTable
<1>13. \A x : x \notin {g} => /\ x \in DOMAIN view.receipts <=> x \in DOMAIN rs
                              /\ x \in DOMAIN rs => rs[x] = view.receipts[x]
  BY <1>2, <1>6
<1> HIDE DEF due
<1>14. RightBut(os, rs, {})
  BY <1>2, <1>3, <1>6, <1>11, <1>12, <1>13, RefreshedRight
<1>15. NoOrder \notin DOMAIN os
  BY <1>3, <1>7 DEF Refreshed
<1> HIDE DEF os
<1>16. RightBut(Delete(os, gone), WithoutOrders(rs, gone), {})
  BY <1>6, <1>14, <1>15, DeletedRight
<1> QED
  BY <1>1, <1>16, IdleCaches, SerialParts

LEMMA CommitEditCaches ==
  ASSUME Serial, SerialInv, NEW h \in Handlers, CommitEdit(h)
  PROVE  CacheInv'
<1> DEFINE job == work[h].job
           view == work[h].view
           r == job.receipt
           row == view.receipts[r]
           opens == job.to # NoOrder /\ job.to \notin DOMAIN view.orders
           to == IF opens THEN New(Orders) ELSE job.to
           undone == Impact(view, r, to)
           held == IF opens THEN With(orders, to, PoolOrder(0)) ELSE orders
           lowered == IF undone = {} THEN held ELSE Lowered(held, row.order, row.usd)
           rs0 == Delete(receipts, undone)
           rs == Moved(rs0, {r}, to)
           due == {row.order, to}
           own == (IF undone = {} THEN {} ELSE {row.order, to}) \cup (IF opens THEN {to} ELSE {})
           changed == {r} \cup undone
           os == Refreshed(view, lowered, rs, own, changed, due)
           gone == IF undone = {} THEN {} ELSE Cleaned(view, os, row.order, rs, changed, undone)
<1>1. /\ work[h].step = "open" /\ job.op = "edit" /\ r \in DOMAIN receipts
      /\ (opens => Orders \ issued # {})
      /\ to \in DOMAIN held \cup {NoOrder}
      /\ \A g \in undone : g # r /\ Reversible(h, g)
      /\ orders' = Delete(os, gone) /\ receipts' = WithoutOrders(rs, gone)
      /\ work' = [work EXCEPT ![h] = [step |-> "idle"]]
  BY DEF CommitEdit, Is
<1>2. view.orders = orders /\ view.receipts = receipts /\ view.transfers = transfers
  BY <1>1, ViewNow
<1>3. /\ IsTable(receipts, Receipts, Receipt) /\ IsTable(orders, Orders, Order)
      /\ IsTable(transfers, Receipts, Transfer) /\ NoOrder \notin DOMAIN orders
      /\ DOMAIN orders \subseteq issued
  BY SerialParts
<1>4. \A g \in undone : receipts[g].order = to
  <2> SUFFICES ASSUME NEW g \in undone
               PROVE  receipts[g].order = to
    OBVIOUS
  <2>1. view.receipts[g].order = view.transfers[g].to
    BY <1>1 DEF Reversible
  <2>2. view.transfers[g].to = to
    BY DEF Impact
  <2> QED
    BY <1>2, <2>1, <2>2
<1>5. opens => to \in Orders /\ to \notin DOMAIN orders
  BY <1>1, <1>3, NewIsNew
<1>6. row = receipts[r]
  BY <1>2
<1>7. row.usd \in Int
  <2>1. receipts[r].usd \in Amounts
    BY <1>1, <1>3 DEF IsTable, Receipt
  <2> QED
    BY <1>6, <2>1, AmountsAreIntegers
<1> HIDE DEF job, view, r, row, opens, to, undone, gone
<1>8. /\ IsTable(held, Orders, Order)
      /\ \A x \in DOMAIN held \ {to} : x \in DOMAIN orders /\ held[x] = orders[x]
      /\ ~ opens => held = orders
  <2>1. PoolOrder(0) \in Order
    BY PoolOrderType
  <2>2. CASE opens
    BY <1>3, <1>5, <2>1, <2>2 DEF IsTable, With
  <2>3. CASE ~ opens
    BY <1>3, <2>3
  <2> QED
    BY <2>2, <2>3
<1>9. to \in Orders \cup {NoOrder}
  BY <1>1, <1>8 DEF IsTable
<1> HIDE DEF held
<1>10. /\ IsTable(rs0, Receipts, Receipt) /\ DOMAIN rs0 = DOMAIN receipts \ undone
       /\ \A x \in DOMAIN rs0 : rs0[x] = receipts[x]
  BY <1>3 DEF IsTable, Delete, Restrict
<1> HIDE DEF rs0
<1>11. /\ IsTable(rs, Receipts, Receipt) /\ DOMAIN rs = DOMAIN rs0
       /\ \A x \in DOMAIN rs0 \ {r} : rs[x] = rs0[x]
       /\ r \in DOMAIN rs0 => rs[r].order = to
  <2>1. /\ IsTable(rs, Receipts, Receipt) /\ DOMAIN rs = DOMAIN rs0
        /\ r \in DOMAIN rs0 => rs[r].order = to
    BY <1>9, <1>10, MovedTable
  <2>2. \A x \in DOMAIN rs0 \ {r} : rs[x] = rs0[x]
    BY DEF Moved
  <2> QED
    BY <2>1, <2>2
<1> HIDE DEF rs
<1>12. /\ IsTable(lowered, Orders, Order) /\ DOMAIN lowered = DOMAIN held
       /\ \A x \in DOMAIN held \ {row.order} : lowered[x] = held[x]
       /\ undone = {} => lowered = held
  <2>1. CASE undone = {}
    BY <1>8, <2>1
  <2>2. CASE undone # {}
    <3>1. lowered = Lowered(held, row.order, row.usd)
      BY <2>2
    <3> HIDE DEF lowered
    <3>2. IsTable(lowered, Orders, Order) /\ DOMAIN lowered = DOMAIN held
      BY <1>7, <1>8, <3>1, LoweredTable
    <3>3. \A x \in DOMAIN held \ {row.order} : lowered[x] = held[x]
      BY <3>1 DEF Lowered
    <3> QED
      BY <2>2, <3>2, <3>3
  <2> QED
    BY <2>1, <2>2
<1> HIDE DEF lowered
<1>13. \A x \in DOMAIN lowered \ due : x \in DOMAIN orders /\ lowered[x] = orders[x]
  BY <1>8, <1>12
<1>14. \A x \in DOMAIN receipts \ changed : x \in DOMAIN rs /\ rs[x] = receipts[x]
  BY <1>10, <1>11
<1>15. Unaffected(orders, receipts, lowered, rs, due)
  BY <1>4, <1>6, <1>10, <1>11, <1>13, <1>14 DEF Unaffected, Owing
<1>16. RightBut(orders, receipts, {})
  BY <1>1, RightNow
<1>17. RightBut(lowered, rs, due)
  BY <1>15, <1>16, StillRight
<1>18. \A x \in due \cap DOMAIN lowered :
         /\ lowered[x] \in Order
         /\ x \in own \/ (x \in DOMAIN view.orders /\ view.orders[x] = lowered[x])
  <2>1. \A x \in DOMAIN lowered : lowered[x] \in Order
    BY <1>12 DEF IsTable
  <2>2. CASE undone # {}
    BY <2>1, <2>2
  <2>3. CASE undone = {} /\ opens
    BY <1>2, <1>8, <1>12, <2>1, <2>3
  <2>4. CASE undone = {} /\ ~ opens
    BY <1>2, <1>8, <1>12, <2>1, <2>4
  <2> QED
    BY <2>2, <2>3, <2>4
<1>19. \A x : x \notin changed => /\ x \in DOMAIN view.receipts <=> x \in DOMAIN rs
                                  /\ x \in DOMAIN rs => rs[x] = view.receipts[x]
  BY <1>2, <1>10, <1>11, <1>14
<1> HIDE DEF own, due, changed
<1>20. RightBut(os, rs, {})
  BY <1>2, <1>3, <1>11, <1>17, <1>18, <1>19, RefreshedRight
<1>21. NoOrder \notin DOMAIN os
  BY <1>12, LedgerAssumption DEF Refreshed, IsTable
<1> HIDE DEF os
<1>22. RightBut(Delete(os, gone), WithoutOrders(rs, gone), {})
  BY <1>11, <1>20, <1>21, DeletedRight
<1> QED
  BY <1>1, <1>22, IdleCaches, SerialParts

LEMMA RightWiden ==
  ASSUME NEW os, NEW rs, NEW S, RightBut(os, rs, {})
  PROVE  RightBut(os, rs, S)
BY DEF RightBut

LEMMA BillCaches ==
  ASSUME Serial, SerialInv, NEW h \in Handlers, NEW o \in DOMAIN orders \cup {NewOrder},
         NEW amount \in Amounts, NEW saving \in BOOLEAN, Bill(h, o, amount, saving)
  PROVE  CacheInv'
<1> DEFINE target == IF o = NewOrder THEN New(Orders) ELSE o
           row == [amount |-> amount, cached |-> amount, pool |-> FALSE]
           due == IF saving THEN {target} ELSE {}
<1>1. /\ orders' = IF o = NewOrder THEN With(orders, target, row) ELSE Raised(orders, o, amount)
      /\ receipts' = receipts /\ work' = [work EXCEPT ![h] = Owes(due, saving)] /\ Idle(h)
      /\ (o = NewOrder => Orders \ issued # {})
  BY DEF Bill, Raised
<1>2. amount \in Int
  BY AmountsAreIntegers
<1>3. /\ IsTable(receipts, Receipts, Receipt) /\ IsTable(orders, Orders, Order)
      /\ DOMAIN orders \subseteq issued /\ NoOrder \notin DOMAIN orders
      /\ \A r \in DOMAIN receipts : receipts[r].order \in DOMAIN orders \cup {NoOrder}
  BY SerialParts
<1>4. RightBut(orders, receipts, {})
  BY <1>1, RightNow DEF Idle
<1>5. row.amount = amount /\ row.cached = amount
  OBVIOUS
<1> HIDE DEF row, due
<1>6. CASE o = NewOrder
  <2>1. target \in Orders /\ target \notin DOMAIN orders
    BY <1>1, <1>3, <1>6, NewIsNew
  <2> HIDE DEF target
  <2>2. /\ DOMAIN orders' = DOMAIN orders \cup {target} /\ orders'[target] = row
        /\ \A x \in DOMAIN orders : orders'[x] = orders[x]
    BY <1>1, <1>6, <2>1 DEF With
  <2> DEFINE R == {r \in ReceiptsOf(receipts, target) : Counted(receipts[r])}
  <2>3. R = {}
    BY <1>3, <2>1, LedgerAssumption DEF ReceiptsOf
  <2>4. Total(receipts, R) = 0
    <3>1. DOMAIN [r \in R |-> receipts[r].usd] = {}
      BY <2>3
    <3> QED
      BY <3>1, SumOfNothing DEF Total
  <2> HIDE DEF R
  <2>5. Owed(orders', receipts, target) = amount
    <3>1. Owed(orders', receipts, target) = row.amount - Total(receipts, R)
      BY <2>2 DEF Owed, R
    <3> QED
      BY <1>2, <1>5, <2>4, <3>1
  <2>6. RightAt(orders', receipts', target)
    BY <1>1, <1>5, <2>2, <2>5 DEF RightAt
  <2>7. Unaffected(orders, receipts, orders', receipts', {target})
    BY <1>1, <2>2 DEF Unaffected
  <2>8. RightBut(orders', receipts', {target})
    BY <1>4, <2>7, StillRight
  <2>9. RightBut(orders', receipts', {})
    BY <2>6, <2>8 DEF RightBut
  <2> QED
    BY <1>1, <2>9, RightWiden, OwesCaches, SerialParts
<1>7. CASE o # NewOrder
  <2>1. o \in DOMAIN orders
    BY <1>7
  <2> DEFINE sum == Total(receipts, {r \in ReceiptsOf(receipts, o) : Counted(receipts[r])})
  <2>2. sum \in Nat
    <3>1. {r \in ReceiptsOf(receipts, o) : Counted(receipts[r])} \in SUBSET DOMAIN receipts
      BY DEF ReceiptsOf
    <3> QED
      BY <1>3, <3>1, TotalType
  <2>3. orders[o].amount \in Int /\ orders[o].cached \in Int
    BY <1>3, <2>1 DEF IsTable, Order
  <2>4. /\ DOMAIN orders' = DOMAIN orders
        /\ orders'[o].amount = orders[o].amount + amount
        /\ orders'[o].cached = orders[o].cached + amount
        /\ \A x \in DOMAIN orders \ {o} : orders'[x] = orders[x]
    BY <1>1, <1>2, <1>3, <1>7, <2>1, RaisedTable
  <2>5. Owed(orders, receipts, o) = orders[o].amount - sum
        /\ Owed(orders', receipts, o) = orders'[o].amount - sum
    BY DEF Owed
  <2>6. orders[o].cached = Owed(orders, receipts, o)
    BY <1>4, <2>1 DEF RightBut, RightAt
  <2> HIDE DEF sum
  <2>7. orders'[o].cached = Owed(orders', receipts, o)
    BY <1>2, <2>2, <2>3, <2>4, <2>5, <2>6
  <2>8. Unaffected(orders, receipts, orders', receipts', {o})
    BY <1>1, <2>4 DEF Unaffected
  <2>9. RightBut(orders', receipts', {o})
    BY <1>4, <2>8, StillRight
  <2>10. RightBut(orders', receipts', {})
    BY <1>1, <2>7, <2>9 DEF RightBut, RightAt
  <2> QED
    BY <1>1, <2>10, RightWiden, OwesCaches, SerialParts
<1> QED
  BY <1>6, <1>7

LEMMA CommitUpdateCaches ==
  ASSUME Serial, SerialInv, NEW h \in Handlers, CommitUpdate(h)
  PROVE  CacheInv'
<1> DEFINE o == work[h].job.order
<1>1. /\ orders' = [orders EXCEPT ![o].amount = work[h].job.amount] /\ receipts' = receipts
      /\ work' = [work EXCEPT ![h] = Owes({o}, FALSE)] /\ work[h].step = "checked"
  BY DEF CommitUpdate, Is
<1> HIDE DEF o
<1>2. Unaffected(orders, receipts, orders', receipts', {o})
  BY <1>1 DEF Unaffected
<1>3. RightBut(orders', receipts', {o})
  BY <1>1, <1>2, RightNow, StillRight
<1> QED
  BY <1>1, <1>3, OwesCaches, SerialParts

LEMMA CommitDeleteOrderCaches ==
  ASSUME Serial, SerialInv, NEW h \in Handlers, CommitDeleteOrder(h)
  PROVE  CacheInv'
<1> DEFINE o == work[h].job.order
<1>1. /\ orders' = Delete(orders, {o}) /\ receipts' = WithoutOrders(receipts, {o})
      /\ work' = [work EXCEPT ![h] = [step |-> "idle"]] /\ work[h].step = "checked"
  BY DEF CommitDeleteOrder, Is
<1> HIDE DEF o
<1>2. RightBut(orders', receipts', {})
  BY <1>1, RightNow, DeletedRight, SerialParts
<1> QED
  BY <1>1, <1>2, IdleCaches, SerialParts

LEMMA CommitMigrateCaches ==
  ASSUME Serial, SerialInv, NEW h \in Handlers, CommitMigrate(h)
  PROVE  CacheInv'
<1> DEFINE job == work[h].job
           o == job.order
           view == work[h].view
           kept == IF job.to = NoOrder THEN o ELSE job.to
           sum == IF job.to = NoOrder /\ ~ job.saving THEN view.orders[o].amount ELSE job.amount
           moved == ReceiptsOf(receipts, o)
           rs == IF job.to = NoOrder THEN receipts ELSE Moved(receipts, moved, kept)
           os == IF job.to = NoOrder
                 THEN [orders EXCEPT ![o].amount = sum, ![o].pool = FALSE]
                 ELSE Raised(Delete(orders, {o}), kept, sum)
           own == IF job.to = NoOrder \/ sum > 0 THEN {kept} ELSE {}
           due == IF job.saving THEN {kept} ELSE {}
<1>1. /\ work[h].step = "open" /\ job.op = "migrate"
      /\ {o, kept} \subseteq DOMAIN orders
      /\ receipts' = rs /\ orders' = Refreshed(view, os, rs, own, moved, {kept})
      /\ work' = [work EXCEPT ![h] = Owes(due, TRUE)]
  BY DEF CommitMigrate, Is, Raised
<1>2. /\ job.order \in Orders /\ job.to \in Orders \cup {NoOrder} /\ job.amount \in Nat
      /\ job.order # job.to
  BY <1>1, TakenJobs, JobTypes, SerialParts
<1>3. view.orders = orders /\ view.receipts = receipts
  BY <1>1, ViewNow
<1>4. /\ IsTable(receipts, Receipts, Receipt) /\ IsTable(orders, Orders, Order)
  BY SerialParts
<1>5. \A x \in DOMAIN receipts : x \in moved <=> receipts[x].order = o
  BY DEF ReceiptsOf
<1>6. o \in DOMAIN orders /\ kept \in DOMAIN orders /\ kept \in Orders
  BY <1>1, <1>4 DEF IsTable
<1>7. job.to # NoOrder => kept # o /\ sum \in Nat
  BY <1>2
<1>8. sum \in Int
  <2>1. orders[o].amount \in Int
    BY <1>4, <1>6 DEF IsTable, Order
  <2> QED
    BY <1>2, <1>3, <2>1
<1> HIDE DEF job, view, o, kept, sum, moved, due
<1>9. RightBut(orders, receipts, {})
  BY <1>1, RightNow
<1>10. /\ Unaffected(orders, receipts, os, rs, {kept}) /\ IsTable(rs, Receipts, Receipt)
       /\ \A x \in {kept} \cap DOMAIN os :
            os[x] \in Order /\ (x \in own \/ (x \in DOMAIN orders /\ orders[x] = os[x]))
       /\ \A x : x \notin moved => /\ x \in DOMAIN receipts <=> x \in DOMAIN rs
                                   /\ x \in DOMAIN rs => rs[x] = receipts[x]
  <2>1. CASE job.to = NoOrder
    <3>1. /\ os = [orders EXCEPT ![o].amount = sum, ![o].pool = FALSE] /\ rs = receipts
          /\ kept = o /\ own = {kept}
      BY <2>1 DEF kept
    <3> HIDE DEF os, rs, own
    <3>2. IsTable(os, Orders, Order) /\ DOMAIN os = DOMAIN orders
      BY <3>1, <1>4, <1>6, <1>8, TakenTable
    <3>3. \A x \in DOMAIN orders \ {o} : os[x] = orders[x]
      BY <3>1
    <3>4. os[kept] \in Order
      BY <1>6, <3>2 DEF IsTable
    <3>5. Unaffected(orders, receipts, os, rs, {kept})
      BY <3>1, <3>2, <3>3 DEF Unaffected
    <3> QED
      BY <3>1, <3>4, <3>5, <1>4
  <2>2. CASE job.to # NoOrder
    <3>1. /\ os = Raised(Delete(orders, {o}), kept, sum) /\ rs = Moved(receipts, moved, kept)
          /\ own = IF sum > 0 THEN {kept} ELSE {}
      BY <2>2
    <3> HIDE DEF os, rs, own
    <3>2. /\ IsTable(Delete(orders, {o}), Orders, Order)
          /\ DOMAIN Delete(orders, {o}) = DOMAIN orders \ {o}
          /\ \A x \in DOMAIN orders \ {o} : Delete(orders, {o})[x] = orders[x]
      BY <1>4 DEF IsTable, Delete, Restrict
    <3>3. kept \in DOMAIN Delete(orders, {o})
      BY <3>2, <1>6, <1>7, <2>2
    <3> DEFINE rest == Delete(orders, {o})
    <3>a. IsTable(rest, Orders, Order) /\ kept \in DOMAIN rest /\ os = Raised(rest, kept, sum)
      BY <3>1, <3>2, <3>3
    <3>b. DOMAIN rest = DOMAIN orders \ {o} /\ \A x \in DOMAIN rest : rest[x] = orders[x]
      BY <3>2
    <3> HIDE DEF rest
    <3>c. /\ IsTable(os, Orders, Order) /\ DOMAIN os = DOMAIN rest
          /\ os[kept].amount = rest[kept].amount + sum
          /\ os[kept].cached = rest[kept].cached + sum
          /\ os[kept].pool = rest[kept].pool
          /\ \A x \in DOMAIN rest \ {kept} : os[x] = rest[x]
      BY <3>a, <1>8, RaisedTable
    <3>4. /\ IsTable(os, Orders, Order) /\ DOMAIN os = DOMAIN orders \ {o}
          /\ os[kept].amount = orders[kept].amount + sum
          /\ os[kept].cached = orders[kept].cached + sum
          /\ os[kept].pool = orders[kept].pool
          /\ \A x \in DOMAIN orders \ {o, kept} : os[x] = orders[x]
      BY <3>a, <3>b, <3>c
    <3>5. os[kept] \in Order /\ orders[kept] \in Order
      BY <1>4, <1>6, <3>2, <3>3, <3>4 DEF IsTable
    <3>6. kept \in own \/ orders[kept] = os[kept]
      <4>1. CASE sum > 0
        BY <3>1, <4>1
      <4>2. CASE ~ sum > 0
        <5>1. sum = 0
          BY <1>7, <2>2, <4>2
        <5>2. orders[kept].amount \in Int /\ orders[kept].cached \in Int
          BY <3>5 DEF Order
        <5>3. os[kept].amount = orders[kept].amount /\ os[kept].cached = orders[kept].cached
          BY <3>4, <5>1, <5>2
        <5> QED
          BY <3>4, <3>5, <5>3 DEF Order
      <4> QED
        BY <4>1, <4>2
    <3>7. /\ IsTable(rs, Receipts, Receipt) /\ DOMAIN rs = DOMAIN receipts
          /\ \A x \in DOMAIN receipts \cap moved : rs[x].order = kept
      BY <3>1, <1>4, <1>6, MovedTable
    <3>8. \A x \in DOMAIN receipts \ moved : rs[x] = receipts[x]
      BY <3>1 DEF Moved
    <3>9. Unaffected(orders, receipts, os, rs, {kept})
      BY <1>5, <3>4, <3>7, <3>8 DEF Unaffected, Owing
    <3> QED
      BY <1>6, <3>5, <3>6, <3>7, <3>8, <3>9
  <2> QED
    BY <2>1, <2>2
<1> HIDE DEF os, rs, own
<1>11. RightBut(os, rs, {kept})
  BY <1>9, <1>10, StillRight
<1>12. RightBut(Refreshed(view, os, rs, own, moved, {kept}), rs, {})
  BY <1>3, <1>4, <1>10, <1>11, RefreshedRight
<1> QED
  BY <1>1, <1>12, RightWiden, OwesCaches, SerialParts

LEMMA CommitMergeCaches ==
  ASSUME Serial, SerialInv, NEW h \in Handlers, CommitMerge(h)
  PROVE  CacheInv'
<1> DEFINE job == work[h].job
           view == work[h].view
           opens == job.to = NewOrder
           to == IF opens THEN New(Orders) ELSE job.to
           moved == {r \in DOMAIN receipts : receipts[r].order \in job.sources}
           rs == Moved(receipts, moved, to)
           left == Delete(orders, job.sources)
           row == [amount |-> job.add, cached |-> 0, pool |-> FALSE]
           os == IF opens THEN With(left, to, row) ELSE AddedTo(left, to, job.add)
           own == IF opens \/ job.add # 0 THEN {to} ELSE {}
<1>1. /\ work[h].step = "open" /\ job.op = "merge"
      /\ (opens => Orders \ issued # {}) /\ to \in DOMAIN os
      /\ receipts' = rs /\ orders' = Refreshed(view, os, rs, own, moved, {to})
      /\ work' = [work EXCEPT ![h] = [step |-> "idle"]]
  BY DEF CommitMerge, Is, AddedTo
<1>2. job.add \in Int
  BY <1>1, TakenJobs, JobTypes, SerialParts
<1>3. view.orders = orders /\ view.receipts = receipts
  BY <1>1, ViewNow
<1>4. /\ IsTable(receipts, Receipts, Receipt) /\ IsTable(orders, Orders, Order)
      /\ DOMAIN orders \subseteq issued
  BY SerialParts
<1>5. opens => to \in Orders /\ to \notin DOMAIN orders
  BY <1>1, <1>4, NewIsNew
<1>6. row \in Order
  <2> HIDE DEF job
  <2> QED
    BY <1>2 DEF Order
<1>7. \A x \in DOMAIN receipts : x \in moved <=> receipts[x].order \in job.sources
  OBVIOUS
<1> HIDE DEF job, view, opens, to, moved, row
<1>8. /\ IsTable(left, Orders, Order) /\ DOMAIN left = DOMAIN orders \ job.sources
      /\ \A x \in DOMAIN left : left[x] = orders[x]
  BY <1>4 DEF IsTable, Delete, Restrict
<1> HIDE DEF left
<1>9. RightBut(orders, receipts, {})
  BY <1>1, RightNow
<1>10. /\ IsTable(os, Orders, Order) /\ to \in DOMAIN os
       /\ \A x \in DOMAIN os \ {to} : x \in DOMAIN left /\ os[x] = left[x]
       /\ to \in own \/ (to \in DOMAIN left /\ os[to] = left[to])
  <2>1. CASE opens
    <3>1. os = With(left, to, row) /\ own = {to}
      BY <2>1
    <3> HIDE DEF os, own
    <3> QED
      BY <1>5, <1>6, <1>8, <2>1, <3>1 DEF IsTable, With
  <2>2. CASE ~ opens
    <3>1. os = AddedTo(left, to, job.add) /\ own = IF job.add # 0 THEN {to} ELSE {}
      BY <2>2
    <3> HIDE DEF os, own
    <3>2. /\ IsTable(os, Orders, Order) /\ DOMAIN os = DOMAIN left
          /\ \A x \in DOMAIN left : /\ os[x].amount = IF x = to THEN left[x].amount + job.add ELSE left[x].amount
                                    /\ os[x].cached = left[x].cached /\ os[x].pool = left[x].pool
      BY <1>2, <1>8, <3>1, AddedTable
    <3>3. \A x \in DOMAIN left \ {to} : os[x] = left[x]
      BY <3>1 DEF AddedTo
    <3>4. to \in DOMAIN left
      BY <1>1, <3>2 DEF os
    <3>5. os[to] \in Order /\ left[to] \in Order
      BY <1>8, <3>2, <3>4 DEF IsTable
    <3>6. job.add = 0 => os[to] = left[to]
      <4>1. left[to].amount \in Int
        BY <3>5 DEF Order
      <4>2. job.add = 0 => os[to].amount = left[to].amount
        BY <3>2, <3>4, <4>1
      <4>3. os[to].cached = left[to].cached /\ os[to].pool = left[to].pool
        BY <3>2, <3>4
      <4> QED
        BY <3>5, <4>2, <4>3 DEF Order
    <3> QED
      BY <3>1, <3>2, <3>3, <3>4, <3>6
  <2> QED
    BY <2>1, <2>2
<1>11. to \in Orders
  BY <1>10 DEF IsTable
<1> HIDE DEF os, own
<1>12. /\ IsTable(rs, Receipts, Receipt) /\ DOMAIN rs = DOMAIN receipts
       /\ \A x \in DOMAIN receipts \cap moved : rs[x].order = to
  BY <1>4, <1>11, MovedTable
<1>13. \A x \in DOMAIN receipts \ moved : rs[x] = receipts[x]
  BY DEF Moved
<1> HIDE DEF rs
<1>14. Unaffected(orders, receipts, os, rs, {to})
  BY <1>7, <1>8, <1>10, <1>12, <1>13 DEF Unaffected, Owing
<1>15. RightBut(os, rs, {to})
  BY <1>9, <1>14, StillRight
<1>16. \A x \in {to} \cap DOMAIN os :
         os[x] \in Order /\ (x \in own \/ (x \in DOMAIN view.orders /\ view.orders[x] = os[x]))
  BY <1>3, <1>8, <1>10 DEF IsTable
<1>17. \A x : x \notin moved => /\ x \in DOMAIN view.receipts <=> x \in DOMAIN rs
                                /\ x \in DOMAIN rs => rs[x] = view.receipts[x]
  BY <1>3, <1>12, <1>13
<1>18. RightBut(Refreshed(view, os, rs, own, moved, {to}), rs, {})
  BY <1>3, <1>4, <1>12, <1>15, <1>16, <1>17, RefreshedRight
<1> QED
  BY <1>1, <1>18, IdleCaches, SerialParts

LEMMA MergeDepositCaches ==
  ASSUME Serial, SerialInv, NEW h \in Handlers, NEW d \in DOMAIN receipts, NEW o,
         MergeDeposit(h, d, o)
  PROVE  CacheInv'
<1>1. receipts[d].deposit /\ (receipts[d].deposit => Deposits)
  BY SerialParts DEF MergeDeposit, Sound
<1>2. Deposits = FALSE
  BY DEF Serial
<1> QED
  BY <1>1, <1>2, Zenon

LEMMA CrashCaches ==
  ASSUME Serial, SerialInv, NEW h \in Handlers, Crash(h)
  PROVE  CacheInv'
<1>1. Crashes /\ Crashes = FALSE
  BY DEF Crash, Serial
<1> QED
  BY <1>1, Zenon

LEMMA StutterCaches ==
  ASSUME SerialInv, UNCHANGED vars
  PROVE  CacheInv'
BY DEF vars, SerialInv, CacheInv

LEMMA InitCaches == Init => CacheInv
<1> SUFFICES ASSUME Init
             PROVE  CacheInv
  OBVIOUS
<1>1. PICK sums \in [Invoiced -> Amounts], payees \in [Entered -> Invoiced],
           usd \in [Entered -> Amounts], deposits \in [Entered -> {FALSE, Deposits}] :
        /\ receipts = [r \in Entered |-> [order |-> payees[r], usd |-> usd[r],
                                         status |-> "SR_Received", deposit |-> deposits[r]]]
        /\ orders = [o \in Invoiced |-> [amount |-> sums[o], pool |-> FALSE,
                                        cached |-> sums[o] - Total(receipts, ReceiptsOf(receipts, o))]]
        /\ work = [h \in Handlers |-> [step |-> "idle"]]
  BY DEF Init
<1>2. \A r \in DOMAIN receipts : Counted(receipts[r])
  BY <1>1 DEF Counted
<1>3. ASSUME NEW o \in DOMAIN orders
      PROVE  RightAt(orders, receipts, o)
  <2>1. {r \in ReceiptsOf(receipts, o) : Counted(receipts[r])} = ReceiptsOf(receipts, o)
    BY <1>2 DEF ReceiptsOf
  <2>2. orders[o] = [amount |-> sums[o], pool |-> FALSE,
                     cached |-> sums[o] - Total(receipts, ReceiptsOf(receipts, o))]
    BY <1>1
  <2> DEFINE sum == Total(receipts, ReceiptsOf(receipts, o))
  <2>3. orders[o].amount = sums[o] /\ orders[o].cached = sums[o] - sum
    <3> HIDE DEF sum
    <3> QED
      BY <2>2 DEF sum
  <2>4. Owed(orders, receipts, o) = orders[o].amount - sum
    BY <2>1 DEF Owed
  <2> HIDE DEF sum
  <2> QED
    BY <2>3, <2>4 DEF RightAt
<1>4. RightBut(orders, receipts, {})
  BY <1>3 DEF RightBut
<1>5. \A h \in Handlers : work[h] = [step |-> "idle"]
  BY <1>1
<1> QED
  BY <1>4, <1>5 DEF CacheInv, CacheTask

LEMMA NextKeepsCache ==
  ASSUME Serial, SerialInv, [Next]_vars
  PROVE  CacheInv'
<1>1. CASE UNCHANGED vars
  BY <1>1, StutterCaches
<1>2. ASSUME NEW h \in Handlers, ReceiptRequests(h)
      PROVE  CacheInv'
  <2>1. ASSUME NEW o \in DOMAIN orders \cup {NewOrder, NoOrder}, NEW usd \in Amounts,
               NEW deposit \in {FALSE, Deposits},
               CreateReceipt(h, o, usd, deposit) \/ CreateSession(h, o, usd, deposit)
        PROVE  CacheInv'
    BY <2>1, CreateReceiptCaches, CreateSessionCaches
  <2>2. ASSUME NEW r \in DOMAIN receipts, MarkReceived(h, r) \/ DeleteReceipt(h, r)
        PROVE  CacheInv'
    BY <2>2, MarkReceivedCaches, DeleteReceiptCaches
  <2>3. ASSUME NEW r \in DOMAIN receipts, BeginFinalise(h, r)
        PROVE  CacheInv'
    BY <2>3, BeginCaches DEF BeginFinalise, Knows
  <2>4. ASSUME NEW r \in DOMAIN receipts, NEW to \in DOMAIN orders \cup {NewOrder, NoOrder},
               OpenEdit(h, r, to)
        PROVE  CacheInv'
    BY <2>4, OpenCaches DEF OpenEdit, OpenAtOnce, Idle, Knows
  <2>5. ASSUME NEW r \in DOMAIN receipts, NEW o \in DOMAIN orders, BeginBind(h, r, o)
        PROVE  CacheInv'
    BY <2>5, BeginCaches DEF BeginBind, Knows
  <2> QED
    BY <1>2, <2>1, <2>2, <2>3, <2>4, <2>5, CommitFinaliseCaches, CommitEditCaches, CommitBindCaches
       DEF ReceiptRequests
<1>3. ASSUME NEW h \in Handlers, TransferRequests(h)
      PROVE  CacheInv'
  <2>1. ASSUME NEW from \in DOMAIN orders, NEW to \in DOMAIN orders \cup {NewOrder},
               NEW amount \in Amounts, BeginTransfer(h, from, to, amount)
        PROVE  CacheInv'
    BY <2>1, BeginCaches DEF BeginTransfer, Knows
  <2>2. ASSUME NEW g \in DOMAIN transfers, OpenReverse(h, g)
        PROVE  CacheInv'
    BY <2>2, OpenCaches DEF OpenReverse, OpenAtOnce, Idle, Knows
  <2> QED
    BY <1>3, <2>1, <2>2, CommitTransferCaches, CommitReverseCaches DEF TransferRequests
<1>4. ASSUME NEW h \in Handlers, InvoiceRequests(h)
      PROVE  CacheInv'
  <2>1. ASSUME NEW o \in DOMAIN orders, BeginDeleteOrder(h, o) \/ Repair(h, o)
        PROVE  CacheInv'
    BY <2>1, BeginCaches, RepairCaches DEF BeginDeleteOrder, Knows
  <2>2. ASSUME NEW o \in DOMAIN orders, NEW amount \in Amounts \cup {0, orders[o].amount},
               BeginUpdate(h, o, amount)
        PROVE  CacheInv'
    BY <2>2, BeginCaches DEF BeginUpdate, Knows
  <2>3. ASSUME NEW o \in DOMAIN orders, NEW amount \in Amounts \cup {0, orders[o].amount},
               NEW to \in DOMAIN orders \cup {NoOrder}, NEW saving \in BOOLEAN,
               BeginMigrate(h, o, to, amount, saving)
        PROVE  CacheInv'
    BY <2>3, BeginCaches DEF BeginMigrate, Knows
  <2>4. ASSUME NEW o \in DOMAIN orders \cup {NewOrder}, NEW amount \in Amounts,
               NEW saving \in BOOLEAN, Bill(h, o, amount, saving)
        PROVE  CacheInv'
    BY <2>4, BillCaches
  <2>5. ASSUME NEW sources \in SUBSET DOMAIN orders, NEW to \in DOMAIN orders \cup {NewOrder},
               NEW keep \in BOOLEAN, BeginMerge(h, sources, to, keep)
        PROVE  CacheInv'
    BY <2>5, BeginCaches DEF BeginMerge, Knows
  <2>6. ASSUME NEW d \in DOMAIN receipts, NEW o \in DOMAIN orders, MergeDeposit(h, d, o)
        PROVE  CacheInv'
    BY <2>6, MergeDepositCaches
  <2> QED
    BY <1>4, <2>1, <2>2, <2>3, <2>4, <2>5, <2>6, CommitUpdateCaches, CommitMigrateCaches,
       CommitMergeCaches, CommitDeleteOrderCaches DEF InvoiceRequests
<1>5. ASSUME NEW h \in Handlers,
             Open(h) \/ ReadBalance(h) \/ WriteBalance(h) \/ Refuse(h) \/ Crash(h)
      PROVE  CacheInv'
  <2>1. CASE Open(h)
    <3>1. Knows(receipts, work[h].job)
      BY <2>1 DEF Open, Knows, SerialInv, CacheInv, CacheTask
    <3> QED
      BY <2>1, <3>1, OpenCaches DEF Open
  <2> QED
    BY <1>5, <2>1, ReadBalanceCaches, WriteBalanceCaches, RefuseCaches, CrashCaches
<1> QED
  BY <1>1, <1>2, <1>3, <1>4, <1>5 DEF Next

LEMMA SerialInvAlways ==
  ASSUME Serial
  PROVE  Spec => []SerialInv
<1>1. Solo
  BY DEF Serial
<1>2. Spec => []ViewInv
  BY <1>1, ViewInvAlways
<1>3. Init => CacheInv
  BY InitCaches
<1>4. LedgerInv /\ ViewInv /\ CacheInv /\ [Next]_vars => CacheInv'
  BY NextKeepsCache DEF SerialInv
<1>5. Spec => []CacheInv
  BY <1>2, <1>3, <1>4, LedgerInvAlways, PTL DEF Spec
<1> QED
  BY <1>2, <1>5, LedgerInvAlways, PTL DEF SerialInv

\* With one request at a time, no crash and no deposits, every order has the
\* cached balance it owes whenever no request is under way: each operation
\* refreshes, inside its transaction or after it, every order whose amount or
\* counted receipts it has changed, and the refresh sees its own writes.
THEOREM CacheIsRightAlways ==
  ASSUME Solo, Crashes = FALSE, Deposits = FALSE
  PROVE  Spec => []CacheIsRight
<1>1. Serial
  BY DEF Serial
<1>2. Spec => []SerialInv
  BY <1>1, SerialInvAlways
<1>3. ASSUME SerialInv
      PROVE  CacheIsRight
  <2> SUFFICES ASSUME \A h \in Handlers : Idle(h), NEW o \in DOMAIN orders
               PROVE  orders[o].cached = Owed(orders, receipts, o)
    BY DEF CacheIsRight
  <2>1. PICK h \in Handlers : TRUE
    BY DEF Solo
  <2>2. RightBut(orders, receipts, {})
    BY <1>3, RightNow DEF Idle
  <2> QED
    BY <2>2 DEF RightBut, RightAt
<1> QED
  BY <1>2, <1>3, PTL

-----------------------------------------------------------------------------
(* Reversing a transfer while its receipt follows it.                      *)

\* What has been paid for an order.
Paid(rs, o) == Total(rs, {r \in ReceiptsOf(rs, o) : Counted(rs[r])})

LEMMA PaidType ==
  ASSUME NEW rs, IsTable(rs, Receipts, Receipt), NEW o
  PROVE  Paid(rs, o) \in Nat
<1>1. {r \in ReceiptsOf(rs, o) : Counted(rs[r])} \in SUBSET DOMAIN rs
  BY DEF ReceiptsOf
<1> QED
  BY <1>1, TotalType DEF Paid

LEMMA PaidSame ==
  ASSUME NEW rs, NEW rs2, NEW o,
         \A r : /\ Owing(rs, o, r) <=> Owing(rs2, o, r)
                /\ Owing(rs, o, r) => rs[r].usd = rs2[r].usd
  PROVE  Paid(rs2, o) = Paid(rs, o)
<1> DEFINE R == {r \in ReceiptsOf(rs, o) : Counted(rs[r])}
           R2 == {r \in ReceiptsOf(rs2, o) : Counted(rs2[r])}
<1>1. R = R2
  BY DEF ReceiptsOf, Owing
<1>2. [r \in R |-> rs[r].usd] = [r \in R2 |-> rs2[r].usd]
  BY <1>1 DEF ReceiptsOf, Owing
<1> QED
  BY <1>2 DEF Paid, Total

\* One more receipt is counted.
LEMMA PaidMore ==
  ASSUME NEW rs, IsTable(rs, Receipts, Receipt), NEW rs2, IsTable(rs2, Receipts, Receipt), NEW o,
         NEW x, Owing(rs2, o, x), ~ Owing(rs, o, x),
         \A r : r # x => /\ Owing(rs, o, r) <=> Owing(rs2, o, r)
                         /\ Owing(rs, o, r) => rs[r].usd = rs2[r].usd
  PROVE  Paid(rs2, o) = Paid(rs, o) + rs2[x].usd
<1> DEFINE R == {r \in ReceiptsOf(rs, o) : Counted(rs[r])}
           R2 == {r \in ReceiptsOf(rs2, o) : Counted(rs2[r])}
           sums == [r \in R |-> rs[r].usd]
           more == [r \in R2 |-> rs2[r].usd]
<1>1. R2 = R \cup {x} /\ x \notin R
  BY DEF ReceiptsOf, Owing
<1>2. IsFiniteSet(R)
  BY IdentifiersAssumption, FS_Subset DEF IsTable, ReceiptsOf
<1>3. /\ \A r \in DOMAIN rs : rs[r].usd \in Nat
      /\ \A r \in DOMAIN rs2 : rs2[r].usd \in Nat
  BY LedgerAssumption DEF IsTable, Receipt
<1>4. sums \in [R -> Nat] /\ more \in [R \cup {x} -> Nat]
  BY <1>1, <1>3 DEF ReceiptsOf
<1>5. more[x] = rs2[x].usd /\ rs2[x].usd \in Nat /\ \A r \in R : more[r] = sums[r]
  BY <1>1, <1>3 DEF ReceiptsOf, Owing
<1>6. Paid(rs, o) = SumOf(sums) /\ Paid(rs2, o) = SumOf(more)
  BY DEF Paid, Total
<1> HIDE DEF R, R2, sums, more
<1> QED
  BY <1>1, <1>2, <1>4, <1>5, <1>6, SumOfAdded

LEMMA EditIsNeutral ==
  ASSUME LedgerInv, ViewInv, NEW h \in Handlers, CommitEdit(h), transfers' # transfers,
         Counted(receipts[work[h].job.receipt]), NEW o \in DOMAIN orders \cap DOMAIN orders'
  PROVE  Owed(orders', receipts', o) = Owed(orders, receipts, o)
<1> DEFINE job == work[h].job
           view == work[h].view
           r == job.receipt
           row == receipts[r]
           opens == job.to # NoOrder /\ job.to \notin DOMAIN view.orders
           to == IF opens THEN New(Orders) ELSE job.to
           undone == Impact(view, r, to)
           rs0 == Delete(receipts, undone)
           rs == Moved(rs0, {r}, to)
           rest == Delete(rs0, {r})
<1>1. view.receipts = receipts /\ view.transfers = transfers /\ view.orders = orders
  <2>1. work[h].view = [orders |-> orders, receipts |-> receipts, transfers |-> transfers]
    BY DEF CommitEdit, Is, ViewInv, Current
  <2> QED
    BY <2>1
<1>2. /\ r \in DOMAIN receipts /\ Cardinality(undone) <= 1
      /\ \A g \in undone : g # r /\ Reversible(h, g)
      /\ transfers' = Delete(transfers, undone)
  BY DEF CommitEdit, Is
<1>3. PICK gone : /\ receipts' = WithoutOrders(rs, gone)
                  /\ o \notin gone
  <2>1. \E os, gone : receipts' = WithoutOrders(rs, gone) /\ orders' = Delete(os, gone)
    BY DEF CommitEdit
  <2> QED
    BY <2>1 DEF Delete, Restrict
<1>4. /\ IsTable(transfers, Receipts, Transfer) /\ IsTable(receipts, Receipts, Receipt)
      /\ IsTable(orders, Orders, Order)
  BY Sounds, IsTables
<1>5. /\ IsTable(transfers', Receipts, Transfer) /\ IsTable(orders', Orders, Order)
  BY CommitEditCommits, IsTables DEF Committed
<1>6. undone = {y \in DOMAIN transfers :
                  transfers[y] = [from |-> row.order, to |-> to, amount |-> row.usd]}
  BY <1>1 DEF Impact
<1>7. PICK g \in undone : TRUE
  <2>1. undone # {}
    <3> SUFFICES ASSUME undone = {}
                 PROVE  transfers' = transfers
      OBVIOUS
    <3> HIDE DEF undone
    <3> QED
      BY <1>2, <1>4 DEF IsTable, Delete, Restrict
  <2> QED
    BY <2>1
<1>8. undone = {g}
  <2>1. IsFiniteSet(undone)
    BY <1>4, <1>6, IdentifiersAssumption, FS_Subset DEF IsTable
  <2> HIDE DEF undone
  <2> QED
    BY <1>2, <1>7, <2>1, OnlyOne
<1>9. /\ g \in DOMAIN transfers /\ transfers[g].from = row.order /\ transfers[g].to = to
      /\ transfers[g].amount = row.usd /\ g # r
  BY <1>2, <1>6, <1>7
<1>10. receipts[g].order = to /\ receipts[g].usd = row.usd /\ g \in DOMAIN receipts
       /\ Counted(receipts[g])
  <2>1. receipts[g].order = transfers[g].to /\ receipts[g].usd = transfers[g].amount
    BY <1>1, <1>2, <1>7 DEF Reversible
  <2>2. g \in DOMAIN receipts /\ Counted(receipts[g])
    BY <1>9, Sounds DEF Sound
  <2> QED
    BY <1>9, <2>1, <2>2
<1>11. to \in Orders \cup {NoOrder}
  BY <1>4, <1>9 DEF IsTable, Transfer
<1> HIDE DEF job, view, r, opens, to, undone
<1>12. row.usd \in Nat
  BY <1>2, <1>4, LedgerAssumption DEF IsTable, Receipt
<1>13. Counted(row)
  BY DEF r, job
<1>14. /\ IsTable(rs0, Receipts, Receipt) /\ DOMAIN rs0 = DOMAIN receipts \ {g}
       /\ \A x \in DOMAIN rs0 : rs0[x] = receipts[x]
  BY <1>4, <1>8 DEF IsTable, Delete, Restrict
<1> HIDE DEF rs0
<1>15. /\ IsTable(rest, Receipts, Receipt) /\ DOMAIN rest = DOMAIN receipts \ {g, r}
       /\ \A x \in DOMAIN rest : rest[x] = receipts[x]
  BY <1>14 DEF IsTable, Delete, Restrict
<1> HIDE DEF rest
<1>16. /\ IsTable(rs, Receipts, Receipt) /\ DOMAIN rs = DOMAIN receipts \ {g}
       /\ \A x \in DOMAIN rs \ {r} : rs[x] = receipts[x]
       /\ r \in DOMAIN rs /\ rs[r].order = to /\ rs[r].usd = row.usd /\ rs[r].status = row.status
  <2>1. r \in DOMAIN rs0 /\ rs0[r] = row
    BY <1>2, <1>9, <1>14
  <2>2. /\ IsTable(rs, Receipts, Receipt) /\ DOMAIN rs = DOMAIN rs0
        /\ rs[r].order = to /\ rs[r].usd = rs0[r].usd /\ rs[r].status = rs0[r].status
    BY <1>11, <1>14, <2>1, MovedTable
  <2>3. \A x \in DOMAIN rs0 \ {r} : rs[x] = rs0[x]
    BY DEF Moved
  <2> QED
    BY <1>14, <2>1, <2>2, <2>3
<1> HIDE DEF rs, row
<1>17. Paid(rs, o) = IF o = to THEN Paid(rest, o) + row.usd ELSE Paid(rest, o)
  <2>1. CASE o = to
    <3>1. /\ Owing(rs, o, r) /\ ~ Owing(rest, o, r)
          /\ \A x : x # r => /\ Owing(rest, o, x) <=> Owing(rs, o, x)
                             /\ Owing(rest, o, x) => rest[x].usd = rs[x].usd
      BY <1>13, <1>15, <1>16, <2>1 DEF Owing, Counted
    <3>2. Paid(rs, o) = Paid(rest, o) + rs[r].usd
      BY <1>15, <1>16, <3>1, PaidMore
    <3> QED
      BY <1>16, <2>1, <3>2
  <2>2. CASE o # to
    <3>1. \A x : /\ Owing(rest, o, x) <=> Owing(rs, o, x)
                 /\ Owing(rest, o, x) => rest[x].usd = rs[x].usd
      BY <1>15, <1>16, <2>2 DEF Owing
    <3> QED
      BY <2>2, <3>1, PaidSame
  <2> QED
    BY <2>1, <2>2
<1>18. Paid(receipts', o) = Paid(rs, o)
  <2>1. /\ DOMAIN receipts' = DOMAIN rs
        /\ \A x \in DOMAIN rs : /\ receipts'[x].usd = rs[x].usd /\ receipts'[x].status = rs[x].status
                                /\ receipts'[x].order = IF rs[x].order \in gone THEN NoOrder ELSE rs[x].order
    BY <1>3, <1>16, WithoutOrdersTable
  <2>2. o # NoOrder
    BY <1>4, LedgerAssumption DEF IsTable
  <2>3. \A x : /\ Owing(rs, o, x) <=> Owing(receipts', o, x)
               /\ Owing(rs, o, x) => rs[x].usd = receipts'[x].usd
    BY <1>3, <2>1, <2>2 DEF Owing, Counted
  <2> QED
    BY <2>3, PaidSame
<1>19. Paid(rs0, o) = IF o = row.order THEN Paid(rest, o) + row.usd ELSE Paid(rest, o)
  <2>1. r \in DOMAIN rs0 /\ rs0[r] = row
    BY <1>2, <1>9, <1>14 DEF row
  <2>2. CASE o = row.order
    <3>1. /\ Owing(rs0, o, r) /\ ~ Owing(rest, o, r)
          /\ \A x : x # r => /\ Owing(rest, o, x) <=> Owing(rs0, o, x)
                             /\ Owing(rest, o, x) => rest[x].usd = rs0[x].usd
      BY <1>13, <1>14, <1>15, <2>1, <2>2 DEF Owing
    <3>2. Paid(rs0, o) = Paid(rest, o) + rs0[r].usd
      BY <1>14, <1>15, <3>1, PaidMore
    <3> QED
      BY <2>1, <2>2, <3>2
  <2>3. CASE o # row.order
    <3>1. \A x : /\ Owing(rest, o, x) <=> Owing(rs0, o, x)
                 /\ Owing(rest, o, x) => rest[x].usd = rs0[x].usd
      BY <1>14, <1>15, <2>1, <2>3 DEF Owing
    <3> QED
      BY <2>3, <3>1, PaidSame
  <2> QED
    BY <2>2, <2>3
<1>20. Paid(receipts, o) = IF o = to THEN Paid(rs0, o) + row.usd ELSE Paid(rs0, o)
  <2>1. CASE o = to
    <3>1. /\ Owing(receipts, o, g) /\ ~ Owing(rs0, o, g)
          /\ \A x : x # g => /\ Owing(rs0, o, x) <=> Owing(receipts, o, x)
                             /\ Owing(rs0, o, x) => rs0[x].usd = receipts[x].usd
      BY <1>10, <1>14, <2>1 DEF Owing
    <3>2. Paid(receipts, o) = Paid(rs0, o) + receipts[g].usd
      BY <1>4, <1>14, <3>1, PaidMore
    <3> QED
      BY <1>10, <2>1, <3>2
  <2>2. CASE o # to
    <3>1. \A x : /\ Owing(rs0, o, x) <=> Owing(receipts, o, x)
                 /\ Owing(rs0, o, x) => rs0[x].usd = receipts[x].usd
      BY <1>10, <1>14, <2>2 DEF Owing
    <3> QED
      BY <2>2, <3>1, PaidSame
  <2> QED
    BY <2>1, <2>2
<1>21. orders'[o].amount = IF o = row.order THEN orders[o].amount - row.usd ELSE orders[o].amount
  <2>1. orders'[o].amount - Out(transfers', o) = orders[o].amount - Out(transfers, o)
    BY CommitEditAlike DEF BilledAlike
  <2>2. transfers' = Delete(transfers, {g})
    BY <1>2, <1>8
  <2>3. IsTable(transfers, Receipts, Transfer) /\ g \in DOMAIN transfers
    BY <1>4, <1>9
  <2>4. /\ Out(transfers', o) \in Nat
        /\ Out(transfers, o) = IF o = transfers[g].from THEN Out(transfers', o) + transfers[g].amount
                               ELSE Out(transfers', o)
    BY <2>2, <2>3, OutLess
  <2>5. orders[o].amount \in Int /\ orders'[o].amount \in Int
    BY <1>4, <1>5 DEF IsTable, Order
  <2> QED
    BY <1>9, <1>12, <2>1, <2>4, <2>5
<1>22. Paid(rest, o) \in Nat
  BY <1>15, PaidType
<1>23. orders[o].amount \in Int
  BY <1>4 DEF IsTable, Order
<1>24. /\ Owed(orders, receipts, o) = orders[o].amount - Paid(receipts, o)
       /\ Owed(orders', receipts', o) = orders'[o].amount - Paid(receipts', o)
  BY DEF Owed, Paid
<1> QED
  BY <1>12, <1>17, <1>18, <1>19, <1>20, <1>21, <1>22, <1>23, <1>24

\* Reversing the transfer while the receipt follows it leaves every balance
\* where it was, when requests run one after the other: the source loses the
\* receipt and the sum the transfer had added, the target exchanges the
\* generated receipt for the moved one.
THEOREM ReversalByEditIsNeutralAlways ==
  ASSUME Solo
  PROVE  Spec => ReversalByEditIsNeutral
<1>1. LedgerInv /\ ViewInv /\ [Next]_vars =>
        [\A h \in Handlers :
           CommitEdit(h) /\ transfers' # transfers /\ Counted(receipts[work[h].job.receipt]) =>
             \A o \in DOMAIN orders \cap DOMAIN orders' :
               Owed(orders', receipts', o) = Owed(orders, receipts, o)]_vars
  BY EditIsNeutral
<1> QED
  BY <1>1, LedgerInvAlways, ViewInvAlways, PTL DEF Spec, ReversalByEditIsNeutral
=============================================================================
