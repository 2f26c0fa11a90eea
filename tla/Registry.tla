------------------------------- MODULE Registry --------------------------------
(***************************************************************************)
(* What the change-request workflow promises of one environment, whatever  *)
(* its handlers read and when: a change happens at once, on the rows and   *)
(* proposals of that moment.  A selection of open requests is applied as a *)
(* whole or not at all; every write is the next version of its key and one *)
(* row of the ledger.  No handlers, revisions, approvals or previews:      *)
(* RequestWorkflow has them, and implements this module.                   *)
(***************************************************************************)
EXTENDS Integers

CONSTANTS Requests, Keys, Contents, None

VARIABLES
  state,      \* of a request: "ABSENT", "OPEN", "APPLIED" or "REJECTED"
  proposal,   \* by request and key
  row,        \* the current variables
  ledger      \* every version ever written

vars == <<state, proposal, row, ledger>>

Proposal == [action : {"ADD", "UPDATE", "DELETE"}, base : Nat, content : Contents \cup {None}]

Init ==
  /\ state = [r \in Requests |-> "ABSENT"]
  /\ proposal = [r \in Requests |-> [k \in Keys |-> None]]
  /\ row = [k \in Keys |-> [lifecycle |-> "NONE", version |-> 0, content |-> None]]
  /\ ledger = {}

Active(k) == row[k].lifecycle = "ACTIVE"

\* A proposal may be made against any version there has been, but of no later one.
Submit(r) ==
  /\ state[r] = "ABSENT"
  /\ state' = [state EXCEPT ![r] = "OPEN"]
  /\ \A q \in Requests \ {r} : proposal'[q] = proposal[q]
  /\ proposal'[r] \in [Keys -> Proposal \cup {None}]
  /\ \E k \in Keys : proposal'[r][k] # None
  /\ \A k \in Keys : proposal'[r][k] # None => proposal'[r][k].base <= row[k].version
  /\ UNCHANGED <<row, ledger>>

\* Values of an open request may be supplied or corrected, nothing else.
Revise(r) ==
  /\ state[r] = "OPEN"
  /\ \E k \in Keys, c \in Contents :
       /\ proposal[r][k] # None
       /\ proposal[r][k].action # "DELETE"
       /\ proposal' = [proposal EXCEPT ![r][k].content = c]
  /\ UNCHANGED <<state, row, ledger>>

Reject(r) ==
  /\ state[r] = "OPEN"
  /\ state' = [state EXCEPT ![r] = "REJECTED"]
  /\ UNCHANGED <<proposal, row, ledger>>

\* One version more, and its row in the ledger.
Install(writes) ==
  LET keys == {w.key : w \in writes}
      of(k) == CHOOSE w \in writes : w.key = k
      new(k) == [lifecycle |-> IF of(k).action = "DELETE" THEN "DELETED" ELSE "ACTIVE",
                 version |-> row[k].version + 1,
                 content |-> IF of(k).action = "DELETE" THEN row[k].content ELSE of(k).content]
  IN
  /\ row' = [k \in Keys |-> IF k \in keys THEN new(k) ELSE row[k]]
  /\ ledger' = ledger \cup
       {[key |-> k, version |-> new(k).version, operation |-> of(k).action,
         lifecycle |-> new(k).lifecycle, content |-> new(k).content, by |-> of(k).by] : k \in keys}

\* Whole requests that do not touch a key twice, each item on the row it was made for.
Apply(ids) ==
  LET touches(r) == {k \in Keys : proposal[r][k] # None} IN
  /\ ids # {}
  /\ \A r \in ids : state[r] = "OPEN"
  /\ \A r, q \in ids : r # q => touches(r) \cap touches(q) = {}
  /\ \A r \in ids : \A k \in touches(r) :
       LET p == proposal[r][k] IN
       IF p.action = "ADD" THEN ~Active(k) ELSE Active(k) /\ row[k].version = p.base
  /\ \A r \in ids : \A k \in touches(r) :
       proposal[r][k].action # "DELETE" => proposal[r][k].content # None
  /\ Install(UNION {{[key |-> k, action |-> proposal[r][k].action,
                      content |-> proposal[r][k].content, by |-> r] : k \in touches(r)} : r \in ids})
  /\ state' = [r \in Requests |-> IF r \in ids THEN "APPLIED" ELSE state[r]]
  /\ UNCHANGED proposal

\* A direct change of one key.
Write(k) ==
  /\ \/ \E c \in Contents :
          Install({[key |-> k, action |-> IF Active(k) THEN "UPDATE" ELSE "ADD",
                    content |-> c, by |-> None]})
     \/ Active(k) /\ Install({[key |-> k, action |-> "DELETE", content |-> None, by |-> None]})
  /\ UNCHANGED <<state, proposal>>

Next ==
  \/ \E r \in Requests : Submit(r) \/ Revise(r) \/ Reject(r)
  \/ \E ids \in SUBSET Requests : Apply(ids)
  \/ \E k \in Keys : Write(k)

Spec == Init /\ [][Next]_vars

================================================================================
