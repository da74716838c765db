---------------------------- MODULE MCSettlement ----------------------------
(***************************************************************************)
(* Settlement on small instances.                                          *)
(***************************************************************************)
EXTENDS SettlementProperties, TLC

\* The identifiers of each kind are interchangeable.
Symmetry ==
  UNION {Permutations(Receipts), Permutations(Details), Permutations(Swifts),
         Permutations(Requests), Permutations(Workers)}
=============================================================================
