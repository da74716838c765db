---- MODULE MCContractSync ----
(* Instances of the contract synchronisation for TLC. *)
EXTENDS ContractSync, TLC

Symmetry == Permutations(Runs) \cup Permutations(OrderNos)

====
