--------------------------- MODULE MCRequestWorkflow ---------------------------
(* TLC instances of RequestWorkflow: the bounds are in the cfg files.           *)
EXTENDS RequestWorkflow, TLC

\* Handlers, requests, keys and contents are interchangeable.
Symmetry == Permutations(Workers) \cup Permutations(Requests) \cup Permutations(Keys)
              \cup Permutations(Contents)

================================================================================
