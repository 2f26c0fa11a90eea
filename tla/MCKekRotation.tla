---------------------------- MODULE MCKekRotation ------------------------------
(* Instances of KekRotation.                                                    *)
EXTENDS KekRotation, TLC

CONSTANTS k1, k2, k3

Symmetry == Permutations(Environments) \cup Permutations(Workers) \cup Permutations(MasterKeys)

================================================================================
