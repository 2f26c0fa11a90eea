------------------------------ MODULE MCAccounts -------------------------------
(* TLC instances of Accounts: the bounds are in the cfg files.                  *)
EXTENDS Accounts, TLC

\* Handlers and session ids are interchangeable.
Symmetry == Permutations(Workers) \cup Permutations(Sids)

================================================================================
