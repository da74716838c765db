------------------------------ MODULE MCEmail ------------------------------
(***************************************************************************)
(* Customer e-mails on small instances.                                    *)
(***************************************************************************)
EXTENDS EmailProperties, TLC

\* The identifiers of each kind are interchangeable.
Symmetry ==
  UNION {Permutations(Corrections), Permutations(Workers), Permutations(Hooks)}
=============================================================================
