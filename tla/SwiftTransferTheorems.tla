----------------------- MODULE SwiftTransferTheorems -----------------------
(***************************************************************************)
(* Facts about sums of money that the proofs about Settlement cite.        *)
(***************************************************************************)
EXTENDS SwiftTransfer, FiniteSetTheorems, TLAPS

\* The units of a finite table form a finite set.
LEMMA UnitsFinite ==
  ASSUME NEW K, IsFiniteSet(K), NEW rows \in Rows(K, Amounts)
  PROVE  IsFiniteSet(Units(rows))
<1>1. DOMAIN rows \subseteq K
  BY DEF Rows
<1>2. IsFiniteSet(Amounts)
  BY MaxAmountAssumption, FS_Interval DEF Amounts
<1>3. IsFiniteSet(K \X Amounts)
  BY <1>2, FS_Product
<1>4. Units(rows) \in SUBSET (K \X Amounts)
  <2>1. ASSUME NEW k \in DOMAIN rows
        PROVE  1..rows[k] \subseteq Amounts
    BY MaxAmountAssumption DEF Rows, Amounts
  <2>2. ASSUME NEW k \in DOMAIN rows
        PROVE  {k} \X (1..rows[k]) \subseteq K \X Amounts
    BY <1>1, <2>1
  <2> QED
    BY <2>2 DEF Units
<1> QED
  BY <1>3, <1>4, FS_Subset

\* The sum of a finite table of amounts is a natural number.
LEMMA SumOfType ==
  ASSUME NEW K, IsFiniteSet(K), NEW rows \in Rows(K, Amounts)
  PROVE  SumOf(rows) \in Nat
BY UnitsFinite, FS_CardinalityType DEF SumOf

\* Dropping rows never increases the sum.
LEMMA SumOfShrinks ==
  ASSUME NEW K, IsFiniteSet(K), NEW rows \in Rows(K, Amounts),
         NEW fewer \in Rows(K, Amounts),
         DOMAIN fewer \subseteq DOMAIN rows,
         \A k \in DOMAIN fewer : fewer[k] = rows[k]
  PROVE  SumOf(fewer) <= SumOf(rows)
<1>1. Units(fewer) \in SUBSET Units(rows)
  BY DEF Units
<1> QED
  BY <1>1, UnitsFinite, FS_Subset DEF SumOf

\* The empty table sums to zero.
LEMMA SumOfNoRows == SumOf(NoRows) = 0
<1>1. Units(NoRows) = {}
  BY DEF Units, NoRows
<1> QED
  BY <1>1, FS_EmptySet DEF SumOf
=============================================================================
