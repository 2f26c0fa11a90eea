---------------------------- MODULE RequestWorkflow ----------------------------
(***************************************************************************)
(* The change-request workflow of one ConfigDeck environment: requests,    *)
(* their items, the current variables and the version history, and the     *)
(* request handlers that work on them concurrently.                        *)
(*                                                                         *)
(* A handler of src/requests reads rows through the connection pool,       *)
(* checks and encrypts outside any transaction, and only then opens the    *)
(* transaction that writes.  Each such read is an action of its own that   *)
(* leaves what was read in handler[w]; each transaction is one action      *)
(* (SQLite serialises writers, and a deferred transaction that read a      *)
(* superseded snapshot fails when it writes).  A commit action is enabled  *)
(* exactly when all the checks of the transaction pass; every early        *)
(* return, rollback, dropped connection and 15 s timeout is Abandon.       *)
(*                                                                         *)
(* A content stands for a plaintext together with its metadata             *)
(* (visibility, type, description, group, order).  A fingerprint, a SHA-256 *)
(* digest in the code, is the record of what is hashed.  A direct write    *)
(* also inserts a request of its own that is born APPLIED and that no      *)
(* handler ever selects; in the history, by = None stands for it.          *)
(***************************************************************************)
EXTENDS Integers, FiniteSets

CONSTANTS
  Requests,         \* request ids that may ever be created
  Keys,             \* keys of the environment; a key is also its variable id
  Contents,         \* plaintexts with their metadata
  Workers,          \* handlers that may be in flight at the same time
  MaxItems,         \* MAX_ITEMS, the items of one request
  MaxVersion,       \* bound: direct writes stop at this variable version
  MaxItemRevision,  \* bound: preview edits stop at this item revision
  None              \* SQL NULL, and the absence of a row

ASSUME WorkflowAssumption ==
  /\ None \notin Contents
  /\ None \notin Requests
  /\ MaxItems \in Nat \ {0}
  /\ MaxVersion \in Nat
  /\ MaxItemRevision \in Nat

VARIABLES
  status,    \* change_requests.status, "ABSENT" before the row exists
  revision,  \* change_requests.revision
  approved,  \* the requests whose approved_at is not NULL
  preview,   \* change_requests.preview_fingerprint
  item,      \* change_request_items by request and key
  current,   \* variables by key
  history,   \* variable_versions
  handler,   \* what each handler in flight has read
  shown      \* preview pages that reached a reviewer: selection, digest, result

requestVars == <<status, revision, approved, preview, item>>
variableVars == <<current, history>>
vars == <<requestVars, variableVars, handler, shown>>

--------------------------------------------------------------------------------
(* Rows and messages.                                                           *)

OpenStatus == {"REQUESTED", "NEEDS_INPUT", "READY_TO_APPLY"}
FinalStatus == {"APPLIED", "REJECTED"}
Status == {"ABSENT"} \cup OpenStatus \cup FinalStatus

Action == {"ADD", "UPDATE", "DELETE"}

\* An item: content is NULL for DELETE and for a value an operator still owes.
\* base is base_variable_version, 0 for the NULL of an ADD.
Item == [action : Action, base : Nat, content : Contents \cup {None}, rev : Nat]
ItemSet == [Keys -> Item \cup {None}]
NoItems == [k \in Keys |-> None]

ASSUME NoneAssumption == None \notin Item

\* A row of variables.  A key without a row has version 0.
Row == [lifecycle : {"NONE"}, version : {0}, content : {None}]
         \cup [lifecycle : {"ACTIVE", "DELETED"}, version : Nat \ {0},
               content : Contents]
NoRow == [lifecycle |-> "NONE", version |-> 0, content |-> None]

\* A row of variable_versions; by is the change request, None for a direct write.
HistoryRow == [key : Keys, version : Nat \ {0}, operation : Action,
               lifecycle : {"ACTIVE", "DELETED"}, content : Contents,
               by : Requests \cup {None}]

\* What selection_fingerprint hashes.  Requests that are not selected are pinned
\* to revision 0 and no items, so that the record is a function of the selection.
RowTag == [lifecycle : {"NONE", "ACTIVE", "DELETED"}, version : Nat]
FingerprintSet == [ids : SUBSET Requests, revs : [Requests -> Nat],
                   items : [Requests -> ItemSet], rows : [Keys -> RowTag]]

\* The rendered dotenv: the content of every key that is ACTIVE.
Dotenv == [Keys -> Contents \cup {None}]
Page == [ids : SUBSET Requests, fingerprint : FingerprintSet, result : Dotenv]

\* What a requester submits for a key.  An ADD or UPDATE without content asks the
\* operators for the value (OPERATOR_PROVIDED).
Draft == [action : {"ADD", "UPDATE"}, content : Contents \cup {None}]
           \cup [action : {"DELETE"}, content : {None}]
Drafts == {d \in [Keys -> Draft \cup {None}] :
             Cardinality({k \in Keys : d[k] # None}) \in 1..MaxItems}

\* The handlers in flight, by how far they have read.
SelectionOp == {"preview", "edit", "apply"}
Idle == [at |-> "idle"]
CreateHandler == [at : {"create"}, request : Requests, items : ItemSet]
FulfillHandler == [at : {"fulfill"}, request : Requests, key : Keys,
                   content : Contents, rev : Nat]
DirectHandler == [at : {"direct"}, key : Keys, operation : Action,
                  content : Contents, row : Row]
RequestsLoaded == [at : {"requests"}, op : SelectionOp,
                   expected : FingerprintSet \cup {None},
                   ids : SUBSET Requests, revs : [Requests -> Nat]]
ItemsLoaded == [at : {"items"}, op : SelectionOp,
                expected : FingerprintSet \cup {None},
                ids : SUBSET Requests, revs : [Requests -> Nat],
                items : [Requests -> ItemSet]]
RowsLoaded == [at : {"rows"}, op : SelectionOp,
               expected : FingerprintSet \cup {None},
               ids : SUBSET Requests, revs : [Requests -> Nat],
               items : [Requests -> ItemSet], rows : [Keys -> Row]]
Handler == {Idle} \cup CreateHandler \cup FulfillHandler \cup DirectHandler
             \cup RequestsLoaded \cup ItemsLoaded \cup RowsLoaded

TypeOK ==
  /\ status \in [Requests -> Status]
  /\ revision \in [Requests -> Nat]
  /\ approved \in SUBSET Requests
  /\ preview \in [Requests -> FingerprintSet \cup {None}]
  /\ item \in [Requests -> ItemSet]
  /\ current \in [Keys -> Row]
  /\ history \in SUBSET HistoryRow
  /\ handler \in [Workers -> Handler]
  /\ shown \in SUBSET Page

Init ==
  /\ status = [r \in Requests |-> "ABSENT"]
  /\ revision = [r \in Requests |-> 0]
  /\ approved = {}
  /\ preview = [r \in Requests |-> None]
  /\ item = [r \in Requests |-> NoItems]
  /\ current = [k \in Keys |-> NoRow]
  /\ history = {}
  /\ handler = [w \in Workers |-> Idle]
  /\ shown = {}

--------------------------------------------------------------------------------
(* Checks and computations shared by the handlers.                              *)

\* Some ADD or UPDATE has no value yet.
Missing(items) == \E k \in Keys : /\ items[k] # None
                                  /\ items[k].action # "DELETE"
                                  /\ items[k].content = None

\* The status an open request gets from its approval and its values.
ForgetApproval(isApproved, missing) ==
  IF missing THEN "NEEDS_INPUT" ELSE "REQUESTED"
StatusFor(isApproved, missing) ==
  IF missing THEN "NEEDS_INPUT"
  ELSE IF isApproved THEN "READY_TO_APPLY" ELSE "REQUESTED"

\* The row an item may be proposed against, and what it records of it.
Proposable(d, row) == IF d.action = "ADD" THEN row.lifecycle # "ACTIVE"
                                          ELSE row.lifecycle = "ACTIVE"
PrepareItem(d, row) ==
  [action |-> d.action, base |-> IF d.action = "ADD" THEN 0 ELSE row.version,
   content |-> d.content, rev |-> 1]

\* Writing the value of an item bumps its item_revision.
WithValue(it, c, rev) ==
  [action |-> it.action, base |-> it.base, content |-> c, rev |-> rev + 1]

\* The schema rejects an open status on a row that was rejected or applied.
AcceptAnyRow(r) == r \in Requests
SchemaAcceptsOpen(r) == status[r] \in OpenStatus

\* Every selected request is READY_TO_APPLY and approved.
Selectable(ids) == \A r \in ids : status[r] = "READY_TO_APPLY" /\ r \in approved

\* No key twice in a selection, and no value missing.
ValidItems(ids, items) ==
  /\ \A r \in ids : ~Missing(items[r])
  /\ \A r, q \in ids : \A k \in Keys :
       items[r][k] # None /\ items[q][k] # None => r = q

TouchedKeys(ids, items) == {k \in Keys : \E r \in ids : items[r][k] # None}
WriterOf(ids, items, k) == CHOOSE r \in ids : items[r][k] # None

\* An item still fits the row it was proposed against.
FitsAnyVersion(it, row) == IF it.action = "ADD" THEN row.lifecycle # "ACTIVE"
                                                ELSE row.lifecycle = "ACTIVE"
Fits(it, row) == IF it.action = "ADD"
                 THEN row.lifecycle # "ACTIVE"
                 ELSE row.lifecycle = "ACTIVE" /\ row.version = it.base

Resolvable(ids, items, rows) ==
  \A r \in ids : \A k \in Keys : items[r][k] # None => Fits(items[r][k], rows[k])

IgnoreCurrent(ids, revs, items, rows) ==
  [ids |-> ids, revs |-> revs, items |-> items,
   rows |-> [k \in Keys |-> [lifecycle |-> "NONE", version |-> 0]]]
Fingerprint(ids, revs, items, rows) ==
  [ids |-> ids, revs |-> revs, items |-> items,
   rows |-> [k \in Keys |-> [lifecycle |-> rows[k].lifecycle,
                             version |-> rows[k].version]]]

SelectedRevisions(ids) == [r \in Requests |-> IF r \in ids THEN revision[r] ELSE 0]
SelectedItems(ids) == [r \in Requests |-> IF r \in ids THEN item[r] ELSE NoItems]
FingerprintNow(ids) ==
  Fingerprint(ids, SelectedRevisions(ids), SelectedItems(ids), current)

ActiveContent(row) == IF row.lifecycle = "ACTIVE" THEN row.content ELSE None

\* The dotenv a selection results in.
ResolveDotenv(ids, items, rows) ==
  [k \in Keys |-> IF k \in TouchedKeys(ids, items)
                  THEN items[WriterOf(ids, items, k)][k].content
                  ELSE ActiveContent(rows[k])]

\* What an item writes: a DELETE keeps the content of the row it deletes.
ProposedContent(it, row) == it.content
AppliedContent(it, row) == IF it.action = "DELETE" THEN row.content ELSE it.content
SameVersionRow(it, row) ==
  [lifecycle |-> IF it.action = "DELETE" THEN "DELETED" ELSE "ACTIVE",
   version |-> IF row.version = 0 THEN 1 ELSE row.version, content |-> AppliedContent(it, row)]
AppliedRow(it, row) ==
  [lifecycle |-> IF it.action = "DELETE" THEN "DELETED" ELSE "ACTIVE",
   version |-> row.version + 1, content |-> AppliedContent(it, row)]
VersionRow(k, op, row, r) ==
  [key |-> k, version |-> row.version, operation |-> op,
   lifecycle |-> row.lifecycle, content |-> row.content, by |-> r]

\* UPDATE variables ... WHERE version = ? AND lifecycle_status = ?, or an INSERT
\* that the unique key accepts.
RowUnchanged(k, row) == /\ current[k].lifecycle = row.lifecycle
                        /\ current[k].version = row.version

--------------------------------------------------------------------------------
(* Creating a request.                                                          *)

\* The rows of the draft's keys are read and its values encrypted.
CreatePrepare(w, r, d) ==
  /\ handler[w] = Idle
  /\ status[r] = "ABSENT"
  /\ \A v \in Workers : handler[v].at = "create" => handler[v].request # r
  /\ \A k \in Keys : d[k] # None => Proposable(d[k], current[k])
  /\ handler' = [handler EXCEPT ![w] =
       [at |-> "create", request |-> r,
        items |-> [k \in Keys |-> IF d[k] = None THEN None
                                  ELSE PrepareItem(d[k], current[k])]]]
  /\ UNCHANGED <<requestVars, variableVars, shown>>

\* The transaction inserts the request and its items and checks nothing again.
CreateCommit(w) ==
  LET h == handler[w] IN
  /\ h.at = "create"
  /\ status' = [status EXCEPT ![h.request] = StatusFor(FALSE, Missing(h.items))]
  /\ revision' = [revision EXCEPT ![h.request] = 1]
  /\ item' = [item EXCEPT ![h.request] = h.items]
  /\ handler' = [handler EXCEPT ![w] = Idle]
  /\ UNCHANGED <<approved, preview, variableVars, shown>>

--------------------------------------------------------------------------------
(* Supplying a value the requester left to the operators.                       *)

FulfillPrepare(w, r, k, c) ==
  /\ handler[w] = Idle
  /\ status[r] \in {"NEEDS_INPUT", "REQUESTED"}
  /\ item[r][k] # None
  /\ item[r][k].action # "DELETE"
  /\ item[r][k].content = None
  /\ handler' = [handler EXCEPT ![w] =
       [at |-> "fulfill", request |-> r, key |-> k, content |-> c,
        rev |-> item[r][k].rev]]
  /\ UNCHANGED <<requestVars, variableVars, shown>>

FulfillCommit(w) ==
  LET h == handler[w]
      old == item[h.request][h.key]
      items == [item[h.request] EXCEPT
                  ![h.key] = WithValue(old, h.content, h.rev)]
  IN
  /\ h.at = "fulfill"
  /\ old.rev = h.rev
  /\ old.content = None
  /\ SchemaAcceptsOpen(h.request)
  /\ item' = [item EXCEPT ![h.request] = items]
  /\ status' = [status EXCEPT ![h.request] =
                  StatusFor(h.request \in approved, Missing(items))]
  /\ revision' = [revision EXCEPT ![h.request] = revision[h.request] + 1]
  /\ preview' = [preview EXCEPT ![h.request] = None]
  /\ handler' = [handler EXCEPT ![w] = Idle]
  /\ UNCHANGED <<approved, variableVars, shown>>

--------------------------------------------------------------------------------
(* Approval and rejection: the checks are inside the transaction.               *)

Approve(r) ==
  /\ status[r] \in {"REQUESTED", "NEEDS_INPUT"}
  /\ r \notin approved
  /\ status' = [status EXCEPT ![r] = StatusFor(TRUE, Missing(item[r]))]
  /\ approved' = approved \cup {r}
  /\ revision' = [revision EXCEPT ![r] = revision[r] + 1]
  /\ preview' = [preview EXCEPT ![r] = None]
  /\ UNCHANGED <<item, variableVars, handler, shown>>

Reject(r) ==
  /\ status[r] \in OpenStatus
  /\ status' = [status EXCEPT ![r] = "REJECTED"]
  /\ revision' = [revision EXCEPT ![r] = revision[r] + 1]
  /\ preview' = [preview EXCEPT ![r] = None]
  /\ UNCHANGED <<approved, item, variableVars, handler, shown>>

--------------------------------------------------------------------------------
(* Previewing, editing and applying a selection of requests.  The three         *)
(* handlers load the requests, then the items, then the current rows, each in   *)
(* a statement of its own; edit and apply start from the digest of a page.      *)

LoadRequests(w, op, ids, expected) ==
  /\ handler[w] = Idle
  /\ ids # {}
  /\ Selectable(ids)
  /\ op = "edit" => \A r \in ids : preview[r] = expected
  /\ handler' = [handler EXCEPT ![w] =
       [at |-> "requests", op |-> op, expected |-> expected, ids |-> ids,
        revs |-> SelectedRevisions(ids)]]
  /\ UNCHANGED <<requestVars, variableVars, shown>>

LoadItems(w) ==
  LET h == handler[w] IN
  /\ h.at = "requests"
  /\ ValidItems(h.ids, item)
  /\ handler' = [handler EXCEPT ![w] =
       [at |-> "items", op |-> h.op, expected |-> h.expected, ids |-> h.ids,
        revs |-> h.revs, items |-> SelectedItems(h.ids)]]
  /\ UNCHANGED <<requestVars, variableVars, shown>>

LoadCurrentRows(w) ==
  LET h == handler[w] IN
  /\ h.at = "items"
  /\ h.op \in {"preview", "apply"} => Resolvable(h.ids, h.items, current)
  /\ h.op = "edit" => Fingerprint(h.ids, h.revs, h.items, current) = h.expected
  /\ handler' = [handler EXCEPT ![w] =
       [at |-> "rows", op |-> h.op, expected |-> h.expected, ids |-> h.ids,
        revs |-> h.revs, items |-> h.items, rows |-> current]]
  /\ UNCHANGED <<requestVars, variableVars, shown>>

\* The digest is stored on every request that kept its revision and status, and
\* the page is shown.
PreviewCommit(w) ==
  LET h == handler[w]
      fp == Fingerprint(h.ids, h.revs, h.items, h.rows)
  IN
  /\ h.at = "rows" /\ h.op = "preview"
  /\ \A r \in h.ids : revision[r] = h.revs[r] /\ status[r] = "READY_TO_APPLY"
  /\ preview' = [r \in Requests |-> IF r \in h.ids THEN fp ELSE preview[r]]
  /\ shown' = shown \cup {[ids |-> h.ids, fingerprint |-> fp,
                           result |-> ResolveDotenv(h.ids, h.items, h.rows)]}
  /\ handler' = [handler EXCEPT ![w] = Idle]
  /\ UNCHANGED <<status, revision, approved, item, variableVars>>

\* What the transactions of edit and apply check before they write.
StillSelectable(h) == Selectable(h.ids) /\ ValidItems(h.ids, item)
StillAsPreviewed(h) ==
  /\ Selectable(h.ids)
  /\ ValidItems(h.ids, item)
  /\ FingerprintNow(h.ids) = h.expected
  /\ \A r \in h.ids : preview[r] = h.expected

\* A reviewer's correction of one item; the other requests keep their digests.
\* An edit that changes nothing writes nothing and is an Abandon.
EditCommit(w, r, k, c) ==
  LET h == handler[w]
      it == h.items[r][k]
  IN
  /\ h.at = "rows" /\ h.op = "edit"
  /\ r \in h.ids
  /\ it # None /\ it.action # "DELETE"
  /\ it.rev < MaxItemRevision
  /\ it.content # c
  /\ StillAsPreviewed(h)
  /\ item' = [item EXCEPT ![r] = [item[r] EXCEPT
                ![k] = WithValue(it, c, it.rev)]]
  /\ revision' = [revision EXCEPT ![r] = revision[r] + 1]
  /\ preview' = [preview EXCEPT ![r] = None]
  /\ approved' = approved \cup {r}
  /\ handler' = [handler EXCEPT ![w] = Idle]
  /\ UNCHANGED <<status, variableVars, shown>>

\* The writes prepared from what was loaded, in one transaction with the requests.
ApplyCommit(w) ==
  LET h == handler[w]
      touched == TouchedKeys(h.ids, h.items)
      writer(k) == WriterOf(h.ids, h.items, k)
      written(k) == AppliedRow(h.items[writer(k)][k], h.rows[k])
  IN
  /\ h.at = "rows" /\ h.op = "apply"
  /\ StillAsPreviewed(h)
  /\ \A k \in touched : RowUnchanged(k, h.rows[k])
  /\ current' = [k \in Keys |-> IF k \in touched THEN written(k) ELSE current[k]]
  /\ history' = history \cup
       {VersionRow(k, h.items[writer(k)][k].action, written(k), writer(k)) :
          k \in touched}
  /\ status' = [r \in Requests |-> IF r \in h.ids THEN "APPLIED" ELSE status[r]]
  /\ revision' = [r \in Requests |-> IF r \in h.ids THEN revision[r] + 1
                                     ELSE revision[r]]
  /\ handler' = [handler EXCEPT ![w] = Idle]
  /\ UNCHANGED <<approved, preview, item, shown>>

--------------------------------------------------------------------------------
(* Direct registry changes.                                                     *)

\* record_applied (ADD or UPDATE, after the row read) and delete_applied.
RecordPrepare(w, k, c) ==
  /\ handler[w] = Idle
  /\ handler' = [handler EXCEPT ![w] =
       [at |-> "direct", key |-> k, row |-> current[k], content |-> c,
        operation |-> IF current[k].lifecycle = "ACTIVE" THEN "UPDATE" ELSE "ADD"]]
  /\ UNCHANGED <<requestVars, variableVars, shown>>

DeletePrepare(w, k) ==
  /\ handler[w] = Idle
  /\ current[k].lifecycle = "ACTIVE"
  /\ handler' = [handler EXCEPT ![w] =
       [at |-> "direct", key |-> k, row |-> current[k],
        content |-> current[k].content, operation |-> "DELETE"]]
  /\ UNCHANGED <<requestVars, variableVars, shown>>

DirectCommit(w) ==
  LET h == handler[w]
      new == [lifecycle |-> IF h.operation = "DELETE" THEN "DELETED" ELSE "ACTIVE",
              version |-> h.row.version + 1, content |-> h.content]
  IN
  /\ h.at = "direct"
  /\ h.row.version < MaxVersion
  /\ RowUnchanged(h.key, h.row)
  /\ current' = [current EXCEPT ![h.key] = new]
  /\ history' = history \cup {VersionRow(h.key, h.operation, new, None)}
  /\ handler' = [handler EXCEPT ![w] = Idle]
  /\ UNCHANGED <<requestVars, shown>>

\* A failed check, a rolled-back transaction, a closed connection, a timeout.
Abandon(w) ==
  /\ handler[w] # Idle
  /\ handler' = [handler EXCEPT ![w] = Idle]
  /\ UNCHANGED <<requestVars, variableVars, shown>>

--------------------------------------------------------------------------------

SelectionStart(w) ==
  \/ \E ids \in SUBSET Requests : LoadRequests(w, "preview", ids, None)
  \/ \E page \in shown, op \in {"edit", "apply"} :
       LoadRequests(w, op, page.ids, page.fingerprint)

Step(w) ==
  \/ \E r \in Requests, d \in Drafts : CreatePrepare(w, r, d)
  \/ CreateCommit(w)
  \/ \E r \in Requests, k \in Keys, c \in Contents : FulfillPrepare(w, r, k, c)
  \/ FulfillCommit(w)
  \/ SelectionStart(w)
  \/ LoadItems(w)
  \/ LoadCurrentRows(w)
  \/ PreviewCommit(w)
  \/ \E r \in Requests, k \in Keys, c \in Contents : EditCommit(w, r, k, c)
  \/ ApplyCommit(w)
  \/ \E k \in Keys, c \in Contents : RecordPrepare(w, k, c)
  \/ \E k \in Keys : DeletePrepare(w, k)
  \/ DirectCommit(w)
  \/ Abandon(w)

Next == \/ \E w \in Workers : Step(w)
        \/ \E r \in Requests : Approve(r) \/ Reject(r)

Spec == Init /\ [][Next]_vars

--------------------------------------------------------------------------------
(* Properties.                                                                  *)

\* A request that was applied or rejected never changes again, whatever handlers
\* were in flight when it was decided: not its row, its approval or its items.
FinalFrozen ==
  [][\A r \in Requests : status[r] \in FinalStatus =>
       /\ status'[r] = status[r]
       /\ revision'[r] = revision[r]
       /\ item'[r] = item[r]
       /\ r \in approved' <=> r \in approved]_vars

\* The status of an open request is exactly what its approval and its values say:
\* no interleaving of approve, fulfill_value and edit_preview leaves a request
\* ready without a value or an approval, or waiting although it has both.
StatusReflectsReview ==
  \A r \in Requests : status[r] \in OpenStatus =>
    /\ status[r] = "NEEDS_INPUT" <=> Missing(item[r])
    /\ status[r] = "READY_TO_APPLY" <=> r \in approved /\ ~Missing(item[r])

\* The version history is a complete ledger: one row for each version of each
\* key, none beyond, and the last one is what the variable holds.
LedgerComplete ==
  /\ \A h \in history : h.version <= current[h.key].version
  /\ \A k \in Keys : \A n \in 1..current[k].version :
       \E h \in history : h.key = k /\ h.version = n
  /\ \A g, h \in history : g.key = h.key /\ g.version = h.version => g = h
  /\ \A h \in history : h.version = current[h.key].version =>
       /\ h.content = current[h.key].content
       /\ h.lifecycle = current[h.key].lifecycle

\* Marking requests applied installs exactly a dotenv a reviewer was shown for
\* exactly that selection, and applies the selection as a whole: nothing that
\* happened between the preview page and the commit slips in.
AppliesWhatWasShown ==
  [][\A r \in Requests : status[r] # "APPLIED" /\ status'[r] = "APPLIED" =>
       \E page \in shown :
         /\ r \in page.ids
         /\ \A q \in page.ids : status[q] # "APPLIED" /\ status'[q] = "APPLIED"
         /\ page.result = [k \in Keys |-> ActiveContent(current'[k])]]_vars

\* An applied request wrote each of its items exactly once, an UPDATE or DELETE
\* on top of the version it was proposed against; a request that is not applied
\* wrote nothing.
AppliedExactlyOnce ==
  \A r \in Requests :
    LET written == {h \in history : h.by = r} IN
    IF status[r] # "APPLIED" THEN written = {}
    ELSE /\ {h.key : h \in written} = {k \in Keys : item[r][k] # None}
         /\ \A h \in written :
              LET it == item[r][h.key] IN
              /\ h.operation = it.action
              /\ it.action = "DELETE" \/ h.content = it.content
              /\ it.action = "ADD" \/ h.version = it.base + 1
         /\ \A g, h \in written : g.key = h.key => g = h

\* The handlers, with all they read before they write, implement the registry that
\* changes at once: each apply installs the proposals and builds on the rows of the
\* moment it commits.
Registry == INSTANCE Registry WITH
  state <- [r \in Requests |-> IF status[r] \in OpenStatus THEN "OPEN" ELSE status[r]],
  proposal <- [r \in Requests |-> [k \in Keys |->
                 IF item[r][k] = None THEN None
                 ELSE [action |-> item[r][k].action, base |-> item[r][k].base,
                       content |-> item[r][k].content]]],
  row <- current,
  ledger <- history
ImplementsRegistry == Registry!Spec

\* In the registry too, the absence of a proposal is not a proposal.
ASSUME ProposalAssumption == None \notin Registry!Proposal

================================================================================
