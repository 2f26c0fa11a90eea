------------------------------- MODULE MCImport --------------------------------
(* Instances of Import.                                                         *)
EXTENDS Import

MCValues == {<<"a", "\\", "n", "\"">>}
MCGroups == {<<"Db">>}
Symmetry == Permutations(Environments)

\* A value over two lines under a decorated comment, and a key under a bracketed one.
MCTexts ==
  {<<"#", " ", "-", "Db", "-", "\n",
     "export", " ", "K1", " ", "=", "'", "a", " ", "\r", "\n", "#", "\n", "'", "\n",
     "\n", "#", "[", "Log", "]", "\n",
     "K2", "=", "\"", "\\", "t", "\"">>}

Chars == {"a", "n", " ", "\t", "\r", "\n", "\\", "\"", "'", "#", "="}

\* Every value of up to three characters survives rendering and parsing, alone and
\* before a second, grouped entry.
ASSUME ValuesSurvive ==
  \A v \in UNION {[1..n -> Chars] : n \in 0..3} :
    LET one == <<[key |-> "K1", value |-> v, group |-> << >>]>>
        two == Append(one, [key |-> "K2", value |-> v, group |-> <<"Db">>])
    IN /\ Parse(Render(one)) = [ok |-> TRUE, entries |-> one]
       /\ Parse(Render(two)) = [ok |-> TRUE, entries |-> two]

\* The files and groups of this instance are ones that an export can hold.
ASSUME InstanceExportable == Exportable

================================================================================
