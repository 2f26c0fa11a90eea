----------------------------- MODULE MCDekRotation -----------------------------
(* TLC instances of DekRotation: the bounds are in the cfg files.               *)
EXTENDS DekRotation, TLC

\* Requests are interchangeable, and so are the rows of one table.
Symmetry == Permutations(Admins) \cup Permutations(Writers)
              \cup Permutations(Current) \cup Permutations(History)
              \cup Permutations(Proposals)

================================================================================
