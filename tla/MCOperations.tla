---------------------------- MODULE MCOperations -------------------------------
(* Instances of Operations.                                                     *)
EXTENDS Operations, TLC

Symmetry == Permutations(Backups) \cup Permutations(Workers)

================================================================================
