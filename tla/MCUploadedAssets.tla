---- MODULE MCUploadedAssets ----
(* Instances of the uploaded files for TLC. *)
EXTENDS UploadedAssets, TLC

Symmetry == Permutations(Uploads) \cup Permutations(Receipts) \cup Permutations(Details)

====
