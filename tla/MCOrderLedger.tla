--------------------------- MODULE MCOrderLedger ---------------------------
(***************************************************************************)
(* The balances of orders on small instances.                              *)
(***************************************************************************)
EXTENDS OrderLedgerProperties, TLC

\* Only handlers are interchangeable: identifiers are given out in an order.
Symmetry == Permutations(Handlers)
=============================================================================
