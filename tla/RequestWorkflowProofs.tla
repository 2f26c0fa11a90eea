------------------------- MODULE RequestWorkflowProofs -------------------------
(***************************************************************************)
(* Proofs about RequestWorkflow, for any requests, keys, contents and      *)
(* number of concurrent handlers.                                          *)
(*                                                                         *)
(* The invariants of the workflow are not inductive by themselves: what a  *)
(* handler read before its transaction must still say enough when the      *)
(* transaction runs.  HandlerOK collects what that is; IInv is the         *)
(* conjunction every step preserves.  The second half is about what is     *)
(* installed when requests are applied: what a reviewer was shown, each    *)
(* item once, and, seen from outside, the registry that changes at once.   *)
(***************************************************************************)
EXTENDS RequestWorkflow, FiniteSetTheorems, TLAPS

\* What remains true of a handler's reads until its transaction: the id a create
\* chose is free, the item a fulfill fills exists and is no DELETE, a loaded
\* selection is complete, an edit loaded what its digest says, and an apply fits
\* the rows it loaded.
HandlerOK(h) ==
  /\ h.at = "create" => status[h.request] = "ABSENT"
  /\ h.at = "fulfill" => /\ status[h.request] # "ABSENT"
                         /\ item[h.request][h.key] # None
                         /\ item[h.request][h.key].action # "DELETE"
  /\ h.at \in {"items", "rows"} => ValidItems(h.ids, h.items)
  /\ h.at = "rows" /\ h.op = "edit" =>
       Fingerprint(h.ids, h.revs, h.items, h.rows) = h.expected
  /\ h.at = "rows" /\ h.op = "apply" => Resolvable(h.ids, h.items, h.rows)
HandlersOK == \A w \in Workers : HandlerOK(handler[w])

\* Two creates in flight never use the same id.
CreatesDistinct ==
  \A v, w \in Workers :
    /\ handler[v].at = "create" /\ handler[w].at = "create"
    /\ handler[v].request = handler[w].request
    => v = w

\* A request without a row has no approval.
AbsentUnapproved == \A r \in approved : status[r] # "ABSENT"

\* The inductive invariant.
IInv == /\ TypeOK
        /\ HandlersOK
        /\ CreatesDistinct
        /\ AbsentUnapproved
        /\ StatusReflectsReview
        /\ LedgerComplete

--------------------------------------------------------------------------------
(* Facts about the operators.                                                   *)

\* The stage of a handler tells which record it is.
LEMMA HandlerKinds ==
  ASSUME NEW h \in Handler
  PROVE  /\ h.at = "create" => h \in CreateHandler
         /\ h.at = "fulfill" => h \in FulfillHandler
         /\ h.at = "direct" => h \in DirectHandler
         /\ h.at = "requests" => h \in RequestsLoaded
         /\ h.at = "items" => h \in ItemsLoaded
         /\ h.at = "rows" => h \in RowsLoaded
BY DEF Handler, Idle, CreateHandler, FulfillHandler, DirectHandler, RequestsLoaded,
       ItemsLoaded, RowsLoaded

\* The digest of a loaded selection is a digest.
LEMMA FingerprintType ==
  ASSUME NEW ids \in SUBSET Requests, NEW revs \in [Requests -> Nat],
         NEW items \in [Requests -> ItemSet], NEW rows \in [Keys -> Row]
  PROVE  Fingerprint(ids, revs, items, rows) \in FingerprintSet
<1>1. ASSUME NEW k \in Keys
      PROVE [lifecycle |-> rows[k].lifecycle, version |-> rows[k].version] \in RowTag
  BY DEF Row, RowTag
<1>2. [k \in Keys |-> [lifecycle |-> rows[k].lifecycle, version |-> rows[k].version]]
        \in [Keys -> RowTag]
  BY <1>1
<1> QED
  BY <1>2 DEF Fingerprint, FingerprintSet

\* What a selection reads of the request tables has the right shape.
LEMMA SelectionType ==
  ASSUME TypeOK, NEW ids \in SUBSET Requests
  PROVE  /\ SelectedRevisions(ids) \in [Requests -> Nat]
         /\ SelectedItems(ids) \in [Requests -> ItemSet]
BY DEF TypeOK, SelectedRevisions, SelectedItems, NoItems, ItemSet

\* Replacing the value of an item gives an item of the same action.
LEMMA ItemWithValue ==
  ASSUME NEW it \in Item, NEW c \in Contents, NEW n \in Nat
  PROVE  /\ WithValue(it, c, n) \in Item
         /\ WithValue(it, c, n) # None
         /\ WithValue(it, c, n).action = it.action
         /\ WithValue(it, c, n).content = c
         /\ c # None
<1>1. WithValue(it, c, n) \in Item
  BY DEF Item, WithValue
<1> QED
  BY <1>1, NoneAssumption, WorkflowAssumption DEF WithValue

\* The computed status of an open request is an open status.
LEMMA StatusForOpen ==
  ASSUME NEW a \in BOOLEAN, NEW m \in BOOLEAN
  PROVE  /\ StatusFor(a, m) \in OpenStatus
         /\ StatusFor(a, m) = "NEEDS_INPUT" <=> m
         /\ StatusFor(a, m) = "READY_TO_APPLY" <=> a /\ ~m
BY DEF StatusFor, OpenStatus

\* A complete selection resolves to a dotenv: every touched key has a writer.
LEMMA TouchedWriter ==
  ASSUME NEW ids \in SUBSET Requests, NEW items \in [Requests -> ItemSet],
         NEW k \in TouchedKeys(ids, items)
  PROVE  /\ k \in Keys
         /\ WriterOf(ids, items, k) \in ids
         /\ items[WriterOf(ids, items, k)][k] \in Item
BY DEF TouchedKeys, WriterOf, ItemSet

--------------------------------------------------------------------------------
(* Steps that only read: they change nothing but one handler.                   *)

\* A step that only replaces one handler by a consistent one preserves the
\* invariant.
LEMMA HandlerStep ==
  ASSUME IInv, NEW w \in Workers, NEW h \in Handler,
         handler' = [handler EXCEPT ![w] = h],
         UNCHANGED <<requestVars, variableVars, shown>>,
         HandlerOK(h),
         h.at = "create" => \A v \in Workers :
           handler[v].at = "create" => handler[v].request # h.request
  PROVE  IInv'
<1> USE DEF IInv, requestVars, variableVars
<1>1. TypeOK'
  BY DEF TypeOK
<1>2. HandlersOK'
  <2> SUFFICES ASSUME NEW v \in Workers PROVE HandlerOK(handler[v])'
    BY DEF HandlersOK
  <2>1. handler'[v] = IF v = w THEN h ELSE handler[v]
    BY DEF TypeOK
  <2>2. HandlerOK(handler[v])
    BY DEF HandlersOK
  <2> QED
    BY <2>1, <2>2 DEF HandlerOK
<1>3. CreatesDistinct'
  <2>1. \A v \in Workers : handler'[v] = IF v = w THEN h ELSE handler[v]
    BY DEF TypeOK
  <2> QED
    BY <2>1 DEF CreatesDistinct
<1>4. AbsentUnapproved'
  BY DEF AbsentUnapproved
<1>5. StatusReflectsReview'
  BY DEF StatusReflectsReview, Missing
<1>6. LedgerComplete'
  BY DEF LedgerComplete
<1> QED
  BY <1>1, <1>2, <1>3, <1>4, <1>5, <1>6

\* An idle handler is consistent.
LEMMA IdleOK ==
  /\ Idle \in Handler
  /\ HandlerOK(Idle)
  /\ Idle.at # "create"
BY DEF Idle, Handler, HandlerOK

\* The drafting reads of create only fill the handler, with a well-formed item set.
LEMMA CreatePrepareStep ==
  ASSUME IInv, NEW w \in Workers, NEW r \in Requests, NEW d \in Drafts,
         CreatePrepare(w, r, d)
  PROVE  IInv'
<1> DEFINE its == [k \in Keys |-> IF d[k] = None THEN None
                                  ELSE PrepareItem(d[k], current[k])]
           h == [at |-> "create", request |-> r, items |-> its]
<1>1. ASSUME NEW k \in Keys, d[k] # None
      PROVE  PrepareItem(d[k], current[k]) \in Item
  <2>1. d[k] \in Draft
    BY <1>1 DEF Drafts
  <2>2. d[k].action \in Action /\ d[k].content \in Contents \cup {None}
    BY <2>1 DEF Draft, Action
  <2>3. current[k].version \in Nat
    BY DEF IInv, TypeOK, Row
  <2> QED
    BY <2>2, <2>3 DEF PrepareItem, Item
<1>2. its \in ItemSet
  BY <1>1 DEF ItemSet
<1>3. h \in Handler
  BY <1>2 DEF Handler, CreateHandler
<1>4. HandlerOK(h)
  BY DEF HandlerOK, CreatePrepare
<1> QED
  BY <1>3, <1>4, HandlerStep DEF CreatePrepare

\* The read of fulfill_value only fills the handler.
LEMMA FulfillPrepareStep ==
  ASSUME IInv, NEW w \in Workers, NEW r \in Requests, NEW k \in Keys,
         NEW c \in Contents, FulfillPrepare(w, r, k, c)
  PROVE  IInv'
<1> DEFINE h == [at |-> "fulfill", request |-> r, key |-> k, content |-> c,
                 rev |-> item[r][k].rev]
<1>1. item[r][k] \in Item
  BY DEF IInv, TypeOK, ItemSet, FulfillPrepare
<1>2. h \in Handler
  BY <1>1 DEF Handler, FulfillHandler, Item
<1>3. HandlerOK(h)
  BY DEF HandlerOK, FulfillPrepare
<1> QED
  BY <1>2, <1>3, HandlerStep DEF FulfillPrepare

\* Loading the selected requests only fills the handler, with their revisions.
LEMMA LoadRequestsStep ==
  ASSUME IInv, NEW w \in Workers, NEW op \in SelectionOp, NEW ids \in SUBSET Requests,
         NEW expected \in FingerprintSet \cup {None},
         LoadRequests(w, op, ids, expected)
  PROVE  IInv'
<1> DEFINE h == [at |-> "requests", op |-> op, expected |-> expected, ids |-> ids,
                 revs |-> SelectedRevisions(ids)]
<1>1. h \in Handler
  BY SelectionType DEF Handler, RequestsLoaded, IInv
<1>2. HandlerOK(h)
  BY DEF HandlerOK
<1> QED
  BY <1>1, <1>2, HandlerStep DEF LoadRequests

\* Loading the items keeps what was loaded and adds items without missing values.
LEMMA LoadItemsStep ==
  ASSUME IInv, NEW w \in Workers, LoadItems(w)
  PROVE  IInv'
<1> DEFINE g == handler[w]
           h == [at |-> "items", op |-> g.op, expected |-> g.expected, ids |-> g.ids,
                 revs |-> g.revs, items |-> SelectedItems(g.ids)]
<1>1. g \in RequestsLoaded
  BY HandlerKinds DEF IInv, TypeOK, LoadItems
<1>2. /\ g.op \in SelectionOp /\ g.expected \in FingerprintSet \cup {None}
      /\ g.ids \in SUBSET Requests /\ g.revs \in [Requests -> Nat]
  BY <1>1 DEF RequestsLoaded
<1>3. SelectedItems(g.ids) \in [Requests -> ItemSet]
  BY <1>2, SelectionType DEF IInv
<1>4. h \in Handler
  BY <1>2, <1>3 DEF Handler, ItemsLoaded
<1>5. ValidItems(g.ids, SelectedItems(g.ids))
  <2>1. \A r \in g.ids : SelectedItems(g.ids)[r] = item[r]
    BY <1>2 DEF SelectedItems
  <2> QED
    BY <2>1 DEF LoadItems, ValidItems, Missing
<1>6. HandlerOK(h)
  BY <1>5 DEF HandlerOK
<1> QED
  BY <1>4, <1>6, HandlerStep DEF LoadItems

\* Loading the current rows keeps what was loaded and adds rows that the
\* items fit, or that give the digest an edit started from.
LEMMA LoadCurrentRowsStep ==
  ASSUME IInv, NEW w \in Workers, LoadCurrentRows(w)
  PROVE  IInv'
<1> DEFINE g == handler[w]
           h == [at |-> "rows", op |-> g.op, expected |-> g.expected, ids |-> g.ids,
                 revs |-> g.revs, items |-> g.items, rows |-> current]
<1>1. g \in ItemsLoaded
  BY HandlerKinds DEF IInv, TypeOK, LoadCurrentRows
<1>2. h \in Handler
  BY <1>1 DEF Handler, ItemsLoaded, RowsLoaded, IInv, TypeOK
<1>3. HandlerOK(g)
  BY DEF IInv, HandlersOK
<1>4. ValidItems(g.ids, g.items)
  BY <1>3 DEF HandlerOK, LoadCurrentRows
<1>5. HandlerOK(h)
  BY <1>4 DEF HandlerOK, LoadCurrentRows
<1> QED
  BY <1>2, <1>5, HandlerStep DEF LoadCurrentRows

\* record_applied and delete_applied first read the row they will write.
LEMMA DirectPrepareStep ==
  ASSUME IInv, NEW w \in Workers, NEW k \in Keys,
         DeletePrepare(w, k) \/ \E c \in Contents : RecordPrepare(w, k, c)
  PROVE  IInv'
<1>1. CASE DeletePrepare(w, k)
  <2> DEFINE h == [at |-> "direct", key |-> k, row |-> current[k],
                   content |-> current[k].content, operation |-> "DELETE"]
  <2>1. current[k] \in Row /\ current[k].content \in Contents
    BY <1>1 DEF IInv, TypeOK, Row, DeletePrepare
  <2>2. h \in Handler
    BY <2>1 DEF Handler, DirectHandler, Action
  <2>3. HandlerOK(h)
    BY DEF HandlerOK
  <2> QED
    BY <1>1, <2>2, <2>3, HandlerStep DEF DeletePrepare
<1>2. CASE \E c \in Contents : RecordPrepare(w, k, c)
  <2> PICK c \in Contents : RecordPrepare(w, k, c)
    BY <1>2
  <2> DEFINE h == [at |-> "direct", key |-> k, row |-> current[k], content |-> c,
                   operation |-> IF current[k].lifecycle = "ACTIVE" THEN "UPDATE"
                                                                    ELSE "ADD"]
  <2>1. h \in Handler
    BY DEF Handler, DirectHandler, Action, IInv, TypeOK
  <2>2. HandlerOK(h)
    BY DEF HandlerOK
  <2> QED
    BY <2>1, <2>2, HandlerStep DEF RecordPrepare
<1> QED
  BY <1>1, <1>2

\* Dropping a handler changes nothing else.
LEMMA AbandonStep ==
  ASSUME IInv, NEW w \in Workers, Abandon(w)
  PROVE  IInv'
BY IdleOK, HandlerStep DEF Abandon

--------------------------------------------------------------------------------
(* Transactions that write request rows.                                        *)

\* A transaction that deletes no request and no item leaves the other handlers
\* consistent.
LEMMA OthersOK ==
  ASSUME IInv, NEW v \in Workers, handler'[v] = handler[v],
         \A q \in Requests : status[q] # "ABSENT" =>
           /\ status'[q] # "ABSENT"
           /\ \A k \in Keys : item[q][k] # None =>
                item'[q][k] # None /\ item'[q][k].action = item[q][k].action,
         handler[v].at = "create" => status'[handler[v].request] = "ABSENT"
  PROVE  HandlerOK(handler[v])'
<1> DEFINE h == handler[v]
<1>1. h \in Handler /\ HandlerOK(h)
  BY DEF IInv, TypeOK, HandlersOK
<1>2. h.at = "fulfill" => h.request \in Requests /\ h.key \in Keys
  BY <1>1, HandlerKinds DEF FulfillHandler
<1>3. h.at = "fulfill" => /\ status'[h.request] # "ABSENT"
                          /\ item'[h.request][h.key] # None
                          /\ item'[h.request][h.key].action # "DELETE"
  BY <1>1, <1>2 DEF HandlerOK
<1> QED
  BY <1>1, <1>3 DEF HandlerOK

\* A transaction that ends its handler and starts no create keeps creates apart.
LEMMA EndsHandler ==
  ASSUME IInv, NEW w \in Workers, handler' = [handler EXCEPT ![w] = Idle]
  PROVE  /\ handler' \in [Workers -> Handler]
         /\ \A v \in Workers : handler'[v] = IF v = w THEN Idle ELSE handler[v]
         /\ HandlerOK(Idle)'
         /\ CreatesDistinct'
<1>1. handler' \in [Workers -> Handler]
  BY IdleOK DEF IInv, TypeOK
<1>2. \A v \in Workers : handler'[v] = IF v = w THEN Idle ELSE handler[v]
  BY DEF IInv, TypeOK
<1>3. HandlerOK(Idle)'
  BY DEF HandlerOK, Idle
<1>4. CreatesDistinct'
  BY <1>2 DEF CreatesDistinct, IInv, Idle
<1> QED
  BY <1>1, <1>2, <1>3, <1>4

\* The id of a create in flight has no row, so inserting it overwrites nothing.
LEMMA CreateCommitStep ==
  ASSUME IInv, NEW w \in Workers, CreateCommit(w)
  PROVE  IInv'
<1> DEFINE h == handler[w]
           new == StatusFor(FALSE, Missing(h.items))
<1>1. /\ h \in CreateHandler
      /\ h.request \in Requests /\ h.items \in ItemSet
      /\ status[h.request] = "ABSENT"
      /\ h.request \notin approved
  <2>1. h \in CreateHandler
    BY HandlerKinds DEF IInv, TypeOK, CreateCommit
  <2>2. status[h.request] = "ABSENT"
    BY DEF IInv, HandlersOK, HandlerOK, CreateCommit
  <2> QED
    BY <2>1, <2>2 DEF CreateHandler, IInv, AbsentUnapproved
<1>2. Missing(h.items) \in BOOLEAN
  BY DEF Missing
<1>3. /\ new \in OpenStatus
      /\ new = "NEEDS_INPUT" <=> Missing(h.items)
      /\ new # "READY_TO_APPLY"
  BY <1>2, StatusForOpen
<1>4. /\ \A q \in Requests : status'[q] = IF q = h.request THEN new ELSE status[q]
      /\ \A q \in Requests : item'[q] = IF q = h.request THEN h.items ELSE item[q]
  BY DEF CreateCommit, IInv, TypeOK
<1>5. /\ handler' \in [Workers -> Handler]
      /\ \A v \in Workers : handler'[v] = IF v = w THEN Idle ELSE handler[v]
      /\ HandlerOK(Idle)'
      /\ CreatesDistinct'
  BY EndsHandler DEF CreateCommit
<1>6. TypeOK'
  <2>1. status' \in [Requests -> Status] /\ item' \in [Requests -> ItemSet]
    BY <1>1, <1>3 DEF CreateCommit, IInv, TypeOK, Status
  <2>2. revision' \in [Requests -> Nat]
    BY <1>1 DEF CreateCommit, IInv, TypeOK
  <2> QED
    BY <1>5, <2>1, <2>2 DEF CreateCommit, IInv, TypeOK, variableVars
<1>7. HandlersOK'
  <2> SUFFICES ASSUME NEW v \in Workers, v # w PROVE HandlerOK(handler[v])'
    BY <1>5 DEF HandlersOK
  <2>1. handler'[v] = handler[v]
    BY <1>5
  <2>2. handler[v].at = "create" => /\ handler[v].request \in Requests
                                    /\ handler[v].request # h.request
                                    /\ status[handler[v].request] = "ABSENT"
    BY HandlerKinds DEF IInv, TypeOK, CreatesDistinct, HandlersOK, HandlerOK,
                        CreateHandler, CreateCommit
  <2>3. handler[v].at = "create" => status'[handler[v].request] = "ABSENT"
    BY <1>4, <2>2
  <2>4. \A q \in Requests : status[q] # "ABSENT" =>
           /\ status'[q] # "ABSENT"
           /\ \A k \in Keys : item[q][k] # None =>
                item'[q][k] # None /\ item'[q][k].action = item[q][k].action
    BY <1>1, <1>4
  <2> QED
    BY <2>1, <2>3, <2>4, OthersOK
<1>8. AbsentUnapproved'
  BY <1>1, <1>4 DEF CreateCommit, IInv, AbsentUnapproved, TypeOK
<1>9. StatusReflectsReview'
  <2> SUFFICES ASSUME NEW q \in Requests, status'[q] \in OpenStatus
               PROVE  /\ status'[q] = "NEEDS_INPUT" <=> Missing(item'[q])
                      /\ status'[q] = "READY_TO_APPLY" <=> q \in approved' /\ ~Missing(item'[q])
    BY DEF StatusReflectsReview, Missing
  <2>1. CASE q = h.request
    <3>1. status'[q] = new /\ item'[q] = h.items /\ q \notin approved'
      BY <1>1, <1>4, <2>1 DEF CreateCommit
    <3> HIDE DEF new, h
    <3> QED
      BY <1>3, <3>1
  <2>2. CASE q # h.request
    BY <1>4, <2>2 DEF CreateCommit, IInv, StatusReflectsReview
  <2> QED
    BY <2>1, <2>2
<1>10. LedgerComplete'
  BY DEF CreateCommit, IInv, LedgerComplete, variableVars
<1> QED
  BY <1>5, <1>6, <1>7, <1>8, <1>9, <1>10 DEF IInv

\* A transaction that neither inserts nor deletes requests or items keeps every
\* handler in flight consistent.
LEMMA HandlersKept ==
  ASSUME IInv,
         UNCHANGED handler \/ \E w \in Workers : handler' = [handler EXCEPT ![w] = Idle],
         \A q \in Requests : status[q] = "ABSENT" <=> status'[q] = "ABSENT",
         \A q \in Requests, k \in Keys : item[q][k] # None =>
           item'[q][k] # None /\ item'[q][k].action = item[q][k].action
  PROVE  handler' \in [Workers -> Handler] /\ HandlersOK' /\ CreatesDistinct'
<1>1. ASSUME NEW v \in Workers, handler'[v] = handler[v]
      PROVE  HandlerOK(handler[v])'
  <2>1. handler[v].at = "create" => /\ handler[v].request \in Requests
                                    /\ status[handler[v].request] = "ABSENT"
    BY HandlerKinds DEF IInv, TypeOK, HandlersOK, HandlerOK, CreateHandler
  <2>2. handler[v].at = "create" => status'[handler[v].request] = "ABSENT"
    BY <2>1
  <2> QED
    BY <1>1, <2>2, OthersOK
<1>2. CASE UNCHANGED handler
  BY <1>1, <1>2 DEF IInv, TypeOK, HandlersOK, CreatesDistinct
<1>3. ASSUME NEW w \in Workers, handler' = [handler EXCEPT ![w] = Idle]
      PROVE  handler' \in [Workers -> Handler] /\ HandlersOK' /\ CreatesDistinct'
  <2>1. /\ handler' \in [Workers -> Handler]
        /\ \A v \in Workers : handler'[v] = IF v = w THEN Idle ELSE handler[v]
        /\ HandlerOK(Idle)'
        /\ CreatesDistinct'
    BY <1>3, EndsHandler
  <2>2. ASSUME NEW v \in Workers PROVE HandlerOK(handler[v])'
    <3>1. CASE v = w
      BY <2>1, <3>1
    <3>2. CASE v # w
      BY <1>1, <2>1, <3>2
    <3> QED
      BY <3>1, <3>2
  <2> QED
    BY <2>1, <2>2 DEF HandlersOK
<1> QED
  BY <1>2, <1>3

\* A transaction of a handler, or of none, moves request r to status s with items its.
Reviewed(r, s, its) ==
  /\ status' = [status EXCEPT ![r] = s]
  /\ item' = [item EXCEPT ![r] = its]
  /\ revision' = [revision EXCEPT ![r] = revision[r] + 1]
  /\ preview' = [preview EXCEPT ![r] = None]
  /\ approved' = approved \/ approved' = approved \cup {r}
  /\ UNCHANGED handler \/ \E w \in Workers : handler' = [handler EXCEPT ![w] = Idle]
  /\ UNCHANGED <<current, history, shown>>

\* A transaction on one open request that leaves it in the status its approval and
\* its values call for, or decides it, preserves the invariant.
LEMMA ReviewStep ==
  ASSUME IInv, NEW r \in Requests, status[r] \in OpenStatus,
         NEW s \in OpenStatus \cup {"REJECTED"}, NEW its \in ItemSet, Reviewed(r, s, its),
         \A k \in Keys : item[r][k] # None =>
           its[k] # None /\ its[k].action = item[r][k].action,
         s \in OpenStatus =>
           /\ s = "NEEDS_INPUT" <=> Missing(its)
           /\ s = "READY_TO_APPLY" <=> r \in approved' /\ ~Missing(its)
  PROVE  IInv'
<1> USE DEF Reviewed
<1>1. /\ \A q \in Requests : status'[q] = IF q = r THEN s ELSE status[q]
      /\ \A q \in Requests : item'[q] = IF q = r THEN its ELSE item[q]
  BY DEF IInv, TypeOK
<1>2. s # "ABSENT" /\ s \in Status /\ status[r] # "ABSENT"
  BY DEF OpenStatus, Status, FinalStatus
<1>3. handler' \in [Workers -> Handler] /\ HandlersOK' /\ CreatesDistinct'
  <2>1. \A q \in Requests : status[q] = "ABSENT" <=> status'[q] = "ABSENT"
    BY <1>1, <1>2
  <2>2. \A q \in Requests, k \in Keys : item[q][k] # None =>
           item'[q][k] # None /\ item'[q][k].action = item[q][k].action
    BY <1>1
  <2> QED
    BY <2>1, <2>2, HandlersKept
<1>4. TypeOK'
  <2>1. status' \in [Requests -> Status] /\ item' \in [Requests -> ItemSet]
    BY <1>2 DEF IInv, TypeOK
  <2>2. revision' \in [Requests -> Nat]
    BY DEF IInv, TypeOK
  <2>3. preview' \in [Requests -> FingerprintSet \cup {None}]
    BY DEF IInv, TypeOK
  <2>4. approved' \in SUBSET Requests
    BY DEF IInv, TypeOK
  <2> QED
    BY <1>3, <2>1, <2>2, <2>3, <2>4 DEF IInv, TypeOK
<1>5. AbsentUnapproved'
  BY <1>1, <1>2 DEF IInv, TypeOK, AbsentUnapproved
<1>6. StatusReflectsReview'
  <2> SUFFICES ASSUME NEW q \in Requests, status'[q] \in OpenStatus
               PROVE  /\ status'[q] = "NEEDS_INPUT" <=> Missing(item'[q])
                      /\ status'[q] = "READY_TO_APPLY" <=> q \in approved' /\ ~Missing(item'[q])
    BY DEF StatusReflectsReview, Missing
  <2>1. CASE q = r
    <3>1. status'[q] = s /\ item'[q] = its
      BY <1>1, <2>1
    <3> QED
      BY <2>1, <3>1
  <2>2. CASE q # r
    <3>1. status'[q] = status[q] /\ item'[q] = item[q] /\ (q \in approved' <=> q \in approved)
      BY <1>1, <2>2
    <3> QED
      BY <3>1 DEF IInv, StatusReflectsReview
  <2> QED
    BY <2>1, <2>2
<1>7. LedgerComplete'
  BY DEF IInv, LedgerComplete
<1> QED
  BY <1>3, <1>4, <1>5, <1>6, <1>7 DEF IInv

\* Filling in a value: the schema has refused a request decided meanwhile.
LEMMA FulfillCommitStep ==
  ASSUME IInv, NEW w \in Workers, FulfillCommit(w)
  PROVE  IInv'
<1> DEFINE h == handler[w]
           r == h.request
           old == item[r][h.key]
           its == [item[r] EXCEPT ![h.key] = WithValue(old, h.content, h.rev)]
           new == StatusFor(r \in approved, Missing(its))
<1>1. /\ r \in Requests /\ h.key \in Keys /\ h.content \in Contents /\ h.rev \in Nat
      /\ old \in Item
      /\ status[r] \in OpenStatus
  <2>1. h \in FulfillHandler
    BY HandlerKinds DEF IInv, TypeOK, FulfillCommit
  <2>2. old # None
    BY DEF IInv, HandlersOK, HandlerOK, FulfillCommit
  <2> QED
    BY <2>1, <2>2 DEF FulfillHandler, FulfillCommit, IInv, TypeOK, ItemSet,
                      SchemaAcceptsOpen
<1>2. /\ WithValue(old, h.content, h.rev) \in Item
      /\ WithValue(old, h.content, h.rev) # None
      /\ WithValue(old, h.content, h.rev).action = old.action
  BY <1>1, ItemWithValue
<1>3. /\ its \in ItemSet
      /\ \A k \in Keys : item[r][k] # None =>
           its[k] # None /\ its[k].action = item[r][k].action
  <2>1. item[r] \in [Keys -> Item \cup {None}]
    BY <1>1 DEF IInv, TypeOK, ItemSet
  <2> QED
    BY <1>1, <1>2, <2>1 DEF ItemSet
<1>4. /\ new \in OpenStatus
      /\ new = "NEEDS_INPUT" <=> Missing(its)
      /\ new = "READY_TO_APPLY" <=> r \in approved /\ ~Missing(its)
  <2>1. (r \in approved) \in BOOLEAN /\ Missing(its) \in BOOLEAN
    BY DEF Missing
  <2> QED
    BY <2>1, StatusForOpen
<1>5. /\ status' = [status EXCEPT ![r] = new]
      /\ item' = [item EXCEPT ![r] = its]
      /\ revision' = [revision EXCEPT ![r] = revision[r] + 1]
      /\ preview' = [preview EXCEPT ![r] = None]
      /\ handler' = [handler EXCEPT ![w] = Idle]
      /\ UNCHANGED <<approved, current, history, shown>>
  BY DEF FulfillCommit, variableVars
<1> HIDE DEF new, its, old, r, h
<1>6. Reviewed(r, new, its)
  BY <1>5 DEF Reviewed
<1>7. new \in OpenStatus \cup {"REJECTED"} /\ approved' = approved
  BY <1>4, <1>5
<1>8. /\ new = "NEEDS_INPUT" <=> Missing(its)
      /\ new = "READY_TO_APPLY" <=> r \in approved' /\ ~Missing(its)
  BY <1>4, <1>7
<1> QED
  BY ONLY IInv, <1>1, <1>3, <1>6, <1>7, <1>8, ReviewStep

\* Approving a request moves it to the status its values call for.
LEMMA ApproveStep ==
  ASSUME IInv, NEW r \in Requests, Approve(r)
  PROVE  IInv'
<1> DEFINE new == StatusFor(TRUE, Missing(item[r]))
<1>1. status[r] \in OpenStatus
  BY DEF Approve, OpenStatus
<1>2. item[r] \in ItemSet /\ item' = [item EXCEPT ![r] = item[r]]
  BY DEF Approve, IInv, TypeOK
<1>3. /\ new \in OpenStatus
      /\ new = "NEEDS_INPUT" <=> Missing(item[r])
      /\ new = "READY_TO_APPLY" <=> TRUE /\ ~Missing(item[r])
  <2>1. Missing(item[r]) \in BOOLEAN
    BY DEF Missing
  <2> QED
    BY <2>1, StatusForOpen
<1>4. /\ status' = [status EXCEPT ![r] = new]
      /\ revision' = [revision EXCEPT ![r] = revision[r] + 1]
      /\ preview' = [preview EXCEPT ![r] = None]
      /\ approved' = approved \cup {r}
      /\ UNCHANGED handler
      /\ UNCHANGED <<current, history, shown>>
  BY DEF Approve, variableVars
<1> HIDE DEF new
<1>5. new \in OpenStatus \cup {"REJECTED"} /\ r \in approved'
  BY <1>3, <1>4
<1>6. /\ new = "NEEDS_INPUT" <=> Missing(item[r])
      /\ new = "READY_TO_APPLY" <=> r \in approved' /\ ~Missing(item[r])
  BY <1>3, <1>5
<1>7. Reviewed(r, new, item[r])
  BY <1>2, <1>4 DEF Reviewed
<1> QED
  BY ONLY IInv, <1>1, <1>2, <1>5, <1>6, <1>7, ReviewStep

\* Rejecting an open request decides it.
LEMMA RejectStep ==
  ASSUME IInv, NEW r \in Requests, Reject(r)
  PROVE  IInv'
<1>1. status[r] \in OpenStatus
  BY DEF Reject
<1>2. item[r] \in ItemSet /\ item' = [item EXCEPT ![r] = item[r]]
  BY DEF Reject, IInv, TypeOK
<1>3. /\ status' = [status EXCEPT ![r] = "REJECTED"]
      /\ revision' = [revision EXCEPT ![r] = revision[r] + 1]
      /\ preview' = [preview EXCEPT ![r] = None]
      /\ approved' = approved
      /\ UNCHANGED handler
      /\ UNCHANGED <<current, history, shown>>
  BY DEF Reject, variableVars
<1>4. "REJECTED" \in OpenStatus \cup {"REJECTED"} /\ "REJECTED" \notin OpenStatus
  BY DEF OpenStatus
<1>5. Reviewed(r, "REJECTED", item[r])
  BY <1>2, <1>3 DEF Reviewed
<1> QED
  BY ONLY IInv, <1>1, <1>2, <1>4, <1>5, ReviewStep

\* A correction on the preview page keeps the request ready: it replaces a value by
\* a value.
LEMMA EditCommitStep ==
  ASSUME IInv, NEW w \in Workers, NEW r \in Requests, NEW k \in Keys,
         NEW c \in Contents, EditCommit(w, r, k, c)
  PROVE  IInv'
<1> DEFINE h == handler[w]
           it == h.items[r][k]
           its == [item[r] EXCEPT ![k] = WithValue(it, c, it.rev)]
<1>1. it \in Item
  <2>1. h \in RowsLoaded
    BY HandlerKinds DEF IInv, TypeOK, EditCommit
  <2> QED
    BY <2>1 DEF RowsLoaded, ItemSet, EditCommit
<1>2. /\ r \in h.ids /\ it # None /\ Selectable(h.ids)
      /\ Fingerprint(h.ids, h.revs, h.items, h.rows) = FingerprintNow(h.ids)
  BY DEF EditCommit, StillAsPreviewed, IInv, HandlersOK, HandlerOK
<1>3. it = item[r][k]
  <2>1. h.items = SelectedItems(h.ids)
    BY <1>2 DEF Fingerprint, FingerprintNow
  <2> QED
    BY <1>2, <2>1 DEF SelectedItems
<1>4. status[r] = "READY_TO_APPLY" /\ r \in approved /\ status[r] \in OpenStatus
  BY <1>2 DEF Selectable, OpenStatus
<1>5. /\ WithValue(it, c, it.rev) \in Item
      /\ WithValue(it, c, it.rev) # None
      /\ WithValue(it, c, it.rev).action = it.action
      /\ WithValue(it, c, it.rev).content # None
  <2>1. PICK i \in Item : i = it
    BY <1>1
  <2>2. PICK n : n = i.rev
    OBVIOUS
  <2>3. n \in Nat
    BY ONLY <2>1, <2>2 DEF Item
  <2>4. /\ WithValue(i, c, n) \in Item /\ WithValue(i, c, n) # None
        /\ WithValue(i, c, n).action = i.action /\ WithValue(i, c, n).content # None
    BY <2>3, ItemWithValue
  <2> QED
    BY ONLY <2>1, <2>2, <2>4
<1>6. item[r] \in [Keys -> Item \cup {None}]
  BY DEF IInv, TypeOK, ItemSet
<1>7. its \in ItemSet /\ \A j \in Keys : item[r][j] # None =>
                           its[j] # None /\ its[j].action = item[r][j].action
  BY <1>3, <1>5, <1>6 DEF ItemSet
<1>8. ~Missing(its)
  <2>1. ~Missing(item[r])
    BY <1>4 DEF IInv, StatusReflectsReview, OpenStatus
  <2> QED
    BY <1>5, <1>6, <2>1 DEF Missing
<1>9. /\ status' = [status EXCEPT ![r] = "READY_TO_APPLY"]
      /\ item' = [item EXCEPT ![r] = its]
      /\ revision' = [revision EXCEPT ![r] = revision[r] + 1]
      /\ preview' = [preview EXCEPT ![r] = None]
      /\ approved' = approved \cup {r}
      /\ handler' = [handler EXCEPT ![w] = Idle]
      /\ UNCHANGED <<current, history, shown>>
  BY <1>4 DEF EditCommit, variableVars, IInv, TypeOK
<1> HIDE DEF its, it, h
<1>10. Reviewed(r, "READY_TO_APPLY", its)
  BY <1>9 DEF Reviewed
<1>11. "READY_TO_APPLY" \in OpenStatus \cup {"REJECTED"} /\ r \in approved'
  BY <1>9 DEF OpenStatus
<1> QED
  BY ONLY IInv, <1>4, <1>7, <1>8, <1>10, <1>11, ReviewStep

\* Storing the digest of a preview touches neither status nor items.
LEMMA PreviewCommitStep ==
  ASSUME IInv, NEW w \in Workers, PreviewCommit(w)
  PROVE  IInv'
<1> DEFINE h == handler[w]
           fp == Fingerprint(h.ids, h.revs, h.items, h.rows)
           page == [ids |-> h.ids, fingerprint |-> fp,
                    result |-> ResolveDotenv(h.ids, h.items, h.rows)]
<1>1. h \in RowsLoaded
  BY HandlerKinds DEF IInv, TypeOK, PreviewCommit
<1>2. /\ h.ids \in SUBSET Requests /\ h.revs \in [Requests -> Nat]
      /\ h.items \in [Requests -> ItemSet] /\ h.rows \in [Keys -> Row]
  BY <1>1 DEF RowsLoaded
<1>3. fp \in FingerprintSet
  BY <1>2, FingerprintType
<1>4. ResolveDotenv(h.ids, h.items, h.rows) \in Dotenv
  <2> SUFFICES ASSUME NEW k \in Keys
               PROVE  (IF k \in TouchedKeys(h.ids, h.items)
                       THEN h.items[WriterOf(h.ids, h.items, k)][k].content
                       ELSE ActiveContent(h.rows[k])) \in Contents \cup {None}
    BY DEF ResolveDotenv, Dotenv
  <2>1. CASE k \in TouchedKeys(h.ids, h.items)
    <3>1. h.items[WriterOf(h.ids, h.items, k)][k] \in Item
      BY <1>2, <2>1, TouchedWriter
    <3> QED
      BY <2>1, <3>1 DEF Item
  <2>2. CASE k \notin TouchedKeys(h.ids, h.items)
    BY <1>2, <2>2 DEF ActiveContent, Row
  <2> QED
    BY <2>1, <2>2
<1>5. page \in Page
  BY <1>2, <1>3, <1>4 DEF Page
<1>6. /\ UNCHANGED <<status, revision, approved, item, current, history>>
      /\ preview' = [q \in Requests |-> IF q \in h.ids THEN fp ELSE preview[q]]
      /\ shown' = shown \cup {page}
      /\ handler' = [handler EXCEPT ![w] = Idle]
  BY DEF PreviewCommit, variableVars
<1> HIDE DEF page, fp, h
<1>7. handler' \in [Workers -> Handler] /\ HandlersOK' /\ CreatesDistinct'
  BY <1>6, HandlersKept
<1>8. TypeOK'
  <2>1. preview' \in [Requests -> FingerprintSet \cup {None}]
    BY <1>3, <1>6 DEF IInv, TypeOK
  <2>2. shown' \in SUBSET Page
    BY <1>5, <1>6 DEF IInv, TypeOK
  <2> QED
    BY <1>6, <1>7, <2>1, <2>2 DEF IInv, TypeOK
<1>9. AbsentUnapproved' /\ StatusReflectsReview' /\ LedgerComplete'
  BY <1>6 DEF IInv, AbsentUnapproved, StatusReflectsReview, Missing, LedgerComplete
<1> QED
  BY <1>7, <1>8, <1>9 DEF IInv

--------------------------------------------------------------------------------
(* Transactions that write variables.                                           *)

\* Rows as mutate_current and insert_version_and_audit write them.
WrittenRow == [lifecycle : {"ACTIVE", "DELETED"}, version : Nat \ {0},
               content : Contents]

\* Writing the next version of some keys, each with its version row, keeps the
\* history a complete ledger.
LEMMA LedgerStep ==
  ASSUME IInv, NEW K \in SUBSET Keys,
         NEW rows \in [K -> WrittenRow], NEW ops \in [K -> Action],
         NEW by \in [K -> Requests \cup {None}],
         \A k \in K : rows[k].version = current[k].version + 1,
         current' = [k \in Keys |-> IF k \in K THEN rows[k] ELSE current[k]],
         history' = history \cup {VersionRow(k, ops[k], rows[k], by[k]) : k \in K}
  PROVE  /\ current' \in [Keys -> Row]
         /\ history' \in SUBSET HistoryRow
         /\ LedgerComplete'
<1> DEFINE vr(k) == VersionRow(k, ops[k], rows[k], by[k])
<1>1. current' \in [Keys -> Row]
  BY DEF IInv, TypeOK, Row, WrittenRow
<1>2. \A k \in K : vr(k) \in HistoryRow
  BY DEF WrittenRow, VersionRow, HistoryRow
<1>3. history' \in SUBSET HistoryRow
  BY <1>2 DEF IInv, TypeOK
<1>4. \A k \in K : /\ vr(k).key = k /\ vr(k).version = current[k].version + 1
                   /\ vr(k).content = rows[k].content
                   /\ vr(k).lifecycle = rows[k].lifecycle
  BY DEF VersionRow
<1>5. \A k \in Keys : /\ current[k].version \in Nat
                      /\ current'[k] = IF k \in K THEN rows[k] ELSE current[k]
                      /\ current'[k].version =
                           IF k \in K THEN current[k].version + 1 ELSE current[k].version
  BY DEF IInv, TypeOK, Row
<1>6. \A h \in history : /\ h.key \in Keys /\ h.version \in Nat
                         /\ h.version <= current[h.key].version
  BY DEF IInv, TypeOK, HistoryRow, LedgerComplete
<1>7. \A h \in history' : h \in history \/ \E k \in K : h = vr(k)
  OBVIOUS
<1>8. history \subseteq history' /\ \A k \in K : vr(k) \in history'
  OBVIOUS
<1> HIDE DEF vr
<1>9. \A h \in history' : h.version <= current'[h.key].version
  BY <1>4, <1>5, <1>6, <1>7
<1>10. ASSUME NEW k \in Keys, NEW n \in 1..current'[k].version
       PROVE  \E h \in history' : h.key = k /\ h.version = n
  <2>1. CASE n \in 1..current[k].version
    BY <2>1, <1>8 DEF IInv, LedgerComplete
  <2>2. CASE n \notin 1..current[k].version
    <3> DEFINE m == current[k].version
    <3>1. m \in Nat /\ n \in 1..(IF k \in K THEN m + 1 ELSE m) /\ n \notin 1..m
      BY <1>5, <2>2
    <3>2. k \in K
      BY <3>1
    <3>3. n = m + 1
      <4> HIDE DEF m
      <4> QED
        BY <3>1, <3>2
    <3> QED
      BY <1>4, <1>8, <3>2, <3>3
  <2> QED
    BY <2>1, <2>2
<1>11. ASSUME NEW g \in history', NEW h \in history',
              g.key = h.key, g.version = h.version
       PROVE  g = h
  <2>1. CASE g \in history /\ h \in history
    BY <1>11, <2>1 DEF IInv, LedgerComplete
  <2>2. ASSUME NEW k \in K, g = vr(k) PROVE g = h
    BY <1>4, <1>5, <1>6, <1>7, <1>11, <2>2
  <2>3. ASSUME NEW k \in K, h = vr(k) PROVE g = h
    BY <1>4, <1>5, <1>6, <1>7, <1>11, <2>3
  <2> QED
    BY <1>7, <2>1, <2>2, <2>3
<1>12. ASSUME NEW h \in history', h.version = current'[h.key].version
       PROVE  /\ h.content = current'[h.key].content
              /\ h.lifecycle = current'[h.key].lifecycle
  <2>1. CASE h \in history
    <3>1. h.key \notin K /\ current'[h.key] = current[h.key]
      BY <1>5, <1>6, <1>12, <2>1
    <3> QED
      BY <1>12, <2>1, <3>1 DEF IInv, LedgerComplete
  <2>2. ASSUME NEW k \in K, h = vr(k)
        PROVE  /\ h.content = current'[h.key].content
               /\ h.lifecycle = current'[h.key].lifecycle
    BY <1>4, <1>5, <2>2
  <2> QED
    BY <1>7, <2>1, <2>2
<1> QED
  BY <1>1, <1>3, <1>9, <1>10, <1>11, <1>12 DEF LedgerComplete

\* A direct registry change writes one key on top of the row it read.
LEMMA DirectCommitStep ==
  ASSUME IInv, NEW w \in Workers, DirectCommit(w)
  PROVE  IInv'
<1> DEFINE h == handler[w]
           k == h.key
           new == [lifecycle |-> IF h.operation = "DELETE" THEN "DELETED" ELSE "ACTIVE",
                   version |-> h.row.version + 1, content |-> h.content]
           rows == [j \in {k} |-> new]
           ops == [j \in {k} |-> h.operation]
           by == [j \in {k} |-> None]
<1>1. /\ k \in Keys /\ h.operation \in Action /\ h.content \in Contents
      /\ h.row \in Row
  <2>1. h \in DirectHandler
    BY HandlerKinds DEF IInv, TypeOK, DirectCommit
  <2> QED
    BY <2>1 DEF DirectHandler
<1>2. new \in WrittenRow /\ new.version = current[k].version + 1
  BY <1>1 DEF WrittenRow, Row, DirectCommit, RowUnchanged
<1>3. current' = [j \in Keys |-> IF j \in {k} THEN rows[j] ELSE current[j]]
  BY DEF DirectCommit, IInv, TypeOK
<1>4. history' = history \cup {VersionRow(j, ops[j], rows[j], by[j]) : j \in {k}}
  BY DEF DirectCommit
<1>5. /\ rows \in [{k} -> WrittenRow] /\ ops \in [{k} -> Action]
      /\ by \in [{k} -> Requests \cup {None}] /\ {k} \in SUBSET Keys
      /\ \A j \in {k} : rows[j].version = current[j].version + 1
  BY <1>1, <1>2
<1>6. UNCHANGED <<status, revision, approved, preview, item, shown>>
  BY DEF DirectCommit, requestVars
<1>7. handler' = [handler EXCEPT ![w] = Idle]
  BY DEF DirectCommit
<1> HIDE DEF rows, ops, by, new, k, h
<1>8. /\ current' \in [Keys -> Row]
      /\ history' \in SUBSET HistoryRow
      /\ LedgerComplete'
  BY <1>3, <1>4, <1>5, LedgerStep
<1>9. handler' \in [Workers -> Handler] /\ HandlersOK' /\ CreatesDistinct'
  BY <1>6, <1>7, HandlersKept
<1>10. TypeOK'
  BY <1>6, <1>8, <1>9 DEF IInv, TypeOK
<1>11. AbsentUnapproved' /\ StatusReflectsReview'
  BY <1>6 DEF IInv, AbsentUnapproved, StatusReflectsReview, Missing
<1> QED
  BY <1>8, <1>9, <1>10, <1>11 DEF IInv

\* Applying a selection writes each touched key on top of the row it loaded and
\* decides exactly the selected requests.
LEMMA ApplyCommitStep ==
  ASSUME IInv, NEW w \in Workers, ApplyCommit(w)
  PROVE  IInv'
<1> DEFINE h == handler[w]
           K == TouchedKeys(h.ids, h.items)
           writer(k) == WriterOf(h.ids, h.items, k)
           written(k) == AppliedRow(h.items[writer(k)][k], h.rows[k])
           rows == [k \in K |-> written(k)]
           ops == [k \in K |-> h.items[writer(k)][k].action]
           by == [k \in K |-> writer(k)]
<1>1. h \in RowsLoaded
  BY HandlerKinds DEF IInv, TypeOK, ApplyCommit
<1>2. /\ h.ids \in SUBSET Requests /\ h.items \in [Requests -> ItemSet]
      /\ h.rows \in [Keys -> Row]
      /\ ValidItems(h.ids, h.items)
      /\ Resolvable(h.ids, h.items, h.rows)
      /\ Selectable(h.ids)
  BY <1>1 DEF RowsLoaded, IInv, HandlersOK, HandlerOK, ApplyCommit, StillAsPreviewed
<1>3. ASSUME NEW k \in K
      PROVE  /\ k \in Keys /\ writer(k) \in h.ids
             /\ h.items[writer(k)][k] \in Item
             /\ written(k) \in WrittenRow
             /\ written(k).version = current[k].version + 1
  <2> DEFINE it == h.items[writer(k)][k]
  <2>1. k \in Keys /\ writer(k) \in h.ids /\ it \in Item
    BY <1>2, TouchedWriter
  <2>2. it # None
    BY <2>1, NoneAssumption
  <2>3. Fits(it, h.rows[k])
    BY <1>2, <2>1, <2>2 DEF Resolvable
  <2>4. it.action = "DELETE" \/ it.content \in Contents
    <3>1. ~Missing(h.items[writer(k)])
      BY <1>2, <2>1 DEF ValidItems
    <3> QED
      BY <2>1, <2>2, <3>1 DEF Missing, Item
  <2>5. h.rows[k] \in Row
    BY <1>2, <2>1
  <2>6. it.action = "DELETE" => h.rows[k].content \in Contents
    BY <2>3, <2>5 DEF Fits, Row
  <2>7. AppliedContent(it, h.rows[k]) \in Contents
    BY <2>4, <2>6 DEF AppliedContent
  <2>8. h.rows[k].version \in Nat /\ h.rows[k].version = current[k].version
    BY <2>5 DEF Row, ApplyCommit, RowUnchanged
  <2> QED
    BY <2>1, <2>7, <2>8 DEF AppliedRow, WrittenRow
<1>4. current' = [k \in Keys |-> IF k \in K THEN rows[k] ELSE current[k]]
  BY DEF ApplyCommit
<1>5. history' = history \cup {VersionRow(k, ops[k], rows[k], by[k]) : k \in K}
  BY DEF ApplyCommit
<1>6. /\ K \in SUBSET Keys /\ rows \in [K -> WrittenRow] /\ ops \in [K -> Action]
      /\ by \in [K -> Requests \cup {None}]
      /\ \A k \in K : rows[k].version = current[k].version + 1
  BY <1>2, <1>3 DEF Item
<1>7. /\ status' = [q \in Requests |-> IF q \in h.ids THEN "APPLIED" ELSE status[q]]
      /\ revision' = [q \in Requests |-> IF q \in h.ids THEN revision[q] + 1
                                         ELSE revision[q]]
      /\ handler' = [handler EXCEPT ![w] = Idle]
      /\ UNCHANGED <<approved, preview, item, shown>>
  BY DEF ApplyCommit
<1>8. \A q \in h.ids : status[q] = "READY_TO_APPLY"
  BY <1>2 DEF Selectable
<1> HIDE DEF h, K, writer, written, rows, ops, by
<1>9. /\ current' \in [Keys -> Row]
      /\ history' \in SUBSET HistoryRow
      /\ LedgerComplete'
  BY <1>4, <1>5, <1>6, LedgerStep
<1>10. handler' \in [Workers -> Handler] /\ HandlersOK' /\ CreatesDistinct'
  <2>1. \A q \in Requests : status[q] = "ABSENT" <=> status'[q] = "ABSENT"
    BY <1>7, <1>8
  <2> QED
    BY <1>7, <2>1, HandlersKept
<1>11. TypeOK'
  <2>1. status' \in [Requests -> Status] /\ revision' \in [Requests -> Nat]
    BY <1>7 DEF IInv, TypeOK, Status, FinalStatus
  <2> QED
    BY <1>7, <1>9, <1>10, <2>1 DEF IInv, TypeOK
<1>12. AbsentUnapproved'
  BY <1>7 DEF IInv, TypeOK, AbsentUnapproved
<1>13. StatusReflectsReview'
  BY <1>7 DEF IInv, StatusReflectsReview, Missing, OpenStatus
<1> QED
  BY <1>9, <1>10, <1>11, <1>12, <1>13 DEF IInv

--------------------------------------------------------------------------------
(* The theorems.                                                                *)

\* The initial state satisfies the inductive invariant.
LEMMA InitIInv == Init => IInv
<1> SUFFICES ASSUME Init PROVE IInv
  OBVIOUS
<1>1. TypeOK
  BY DEF Init, TypeOK, Status, NoItems, ItemSet, NoRow, Row, Handler
<1>2. HandlersOK /\ CreatesDistinct /\ AbsentUnapproved
  BY DEF Init, HandlersOK, HandlerOK, CreatesDistinct, AbsentUnapproved, Idle
<1>3. StatusReflectsReview
  BY DEF Init, StatusReflectsReview, OpenStatus
<1>4. LedgerComplete
  BY DEF Init, LedgerComplete, NoRow
<1> QED
  BY <1>1, <1>2, <1>3, <1>4 DEF IInv

\* Every step preserves the inductive invariant.
LEMMA NextIInv == IInv /\ [Next]_vars => IInv'
<1> SUFFICES ASSUME IInv, [Next]_vars PROVE IInv'
  OBVIOUS
<1>1. ASSUME NEW w \in Workers, Step(w) PROVE IInv'
  <2>1. ASSUME NEW r \in Requests, NEW d \in Drafts, CreatePrepare(w, r, d) PROVE IInv'
    BY <2>1, CreatePrepareStep
  <2>2. CASE CreateCommit(w)
    BY <2>2, CreateCommitStep
  <2>3. ASSUME NEW r \in Requests, NEW k \in Keys, NEW c \in Contents,
               FulfillPrepare(w, r, k, c)
        PROVE  IInv'
    BY <2>3, FulfillPrepareStep
  <2>4. CASE FulfillCommit(w)
    BY <2>4, FulfillCommitStep
  <2>5. CASE SelectionStart(w)
    <3>1. ASSUME NEW ids \in SUBSET Requests, LoadRequests(w, "preview", ids, None)
          PROVE  IInv'
      BY <3>1, LoadRequestsStep DEF SelectionOp
    <3>2. ASSUME NEW page \in shown, NEW op \in {"edit", "apply"},
                 LoadRequests(w, op, page.ids, page.fingerprint)
          PROVE  IInv'
      <4>1. /\ op \in SelectionOp
            /\ page.ids \in SUBSET Requests
            /\ page.fingerprint \in FingerprintSet \cup {None}
        BY DEF SelectionOp, IInv, TypeOK, Page
      <4> QED
        BY <3>2, <4>1, LoadRequestsStep
    <3> QED
      BY <2>5, <3>1, <3>2 DEF SelectionStart
  <2>6. CASE LoadItems(w)
    BY <2>6, LoadItemsStep
  <2>7. CASE LoadCurrentRows(w)
    BY <2>7, LoadCurrentRowsStep
  <2>8. CASE PreviewCommit(w)
    BY <2>8, PreviewCommitStep
  <2>9. ASSUME NEW r \in Requests, NEW k \in Keys, NEW c \in Contents,
               EditCommit(w, r, k, c)
        PROVE  IInv'
    BY <2>9, EditCommitStep
  <2>10. CASE ApplyCommit(w)
    BY <2>10, ApplyCommitStep
  <2>11. ASSUME NEW k \in Keys,
                DeletePrepare(w, k) \/ \E c \in Contents : RecordPrepare(w, k, c)
         PROVE  IInv'
    BY <2>11, DirectPrepareStep
  <2>12. CASE DirectCommit(w)
    BY <2>12, DirectCommitStep
  <2>13. CASE Abandon(w)
    BY <2>13, AbandonStep
  <2> QED
    BY <1>1, <2>1, <2>2, <2>3, <2>4, <2>5, <2>6, <2>7, <2>8, <2>9, <2>10, <2>11,
       <2>12, <2>13 DEF Step
<1>2. ASSUME NEW r \in Requests, Approve(r) PROVE IInv'
  BY <1>2, ApproveStep
<1>3. ASSUME NEW r \in Requests, Reject(r) PROVE IInv'
  BY <1>3, RejectStep
<1>4. CASE UNCHANGED vars
  <2>1. /\ UNCHANGED <<status, revision, approved, preview, item>>
        /\ UNCHANGED <<current, history, handler, shown>>
    BY <1>4 DEF vars, requestVars, variableVars
  <2>2. TypeOK'
    BY <2>1 DEF IInv, TypeOK
  <2>3. HandlersOK' /\ CreatesDistinct'
    BY <2>1 DEF IInv, HandlersOK, HandlerOK, CreatesDistinct
  <2>4. AbsentUnapproved' /\ StatusReflectsReview'
    BY <2>1 DEF IInv, AbsentUnapproved, StatusReflectsReview, Missing
  <2>5. LedgerComplete'
    BY <2>1 DEF IInv, LedgerComplete
  <2> QED
    BY <2>2, <2>3, <2>4, <2>5 DEF IInv
<1> QED
  BY <1>1, <1>2, <1>3, <1>4 DEF Next

\* The inductive invariant holds in every reachable state.
THEOREM Invariance == Spec => []IInv
BY InitIInv, NextIInv, PTL DEF Spec

\* Every table, every read in flight and every page shown has its type: in
\* particular an apply never writes a variable without a value.
THEOREM TypeCorrect == Spec => []TypeOK
<1>1. IInv => TypeOK
  BY DEF IInv
<1> QED
  BY <1>1, Invariance, PTL

\* An open request is ready exactly when it is approved and complete, and waits for
\* input exactly when a value is missing, for any number of concurrent reviewers.
THEOREM ReviewCorrect == Spec => []StatusReflectsReview
<1>1. IInv => StatusReflectsReview
  BY DEF IInv
<1> QED
  BY <1>1, Invariance, PTL

\* The version history is a complete ledger of the variables, however direct changes
\* and applied requests interleave.
THEOREM LedgerCorrect == Spec => []LedgerComplete
<1>1. IInv => LedgerComplete
  BY DEF IInv
<1> QED
  BY <1>1, Invariance, PTL

\* What FinalFrozen says of a step.
Frozen == \A r \in Requests : status[r] \in FinalStatus =>
            /\ status'[r] = status[r]
            /\ revision'[r] = revision[r]
            /\ item'[r] = item[r]
            /\ r \in approved' <=> r \in approved

\* No transaction touches a decided request: create inserts a fresh id, the schema
\* refuses a late fulfill, and every other one checks the status it writes over.
LEMMA NextFrozen == IInv /\ Next => Frozen
<1> SUFFICES ASSUME IInv, Next, NEW r \in Requests, status[r] \in FinalStatus
             PROVE  /\ status'[r] = status[r]
                    /\ revision'[r] = revision[r]
                    /\ item'[r] = item[r]
                    /\ r \in approved' <=> r \in approved
  BY DEF Frozen
<1> DEFINE same == /\ status'[r] = status[r]
                   /\ revision'[r] = revision[r]
                   /\ item'[r] = item[r]
                   /\ r \in approved' <=> r \in approved
<1>1. status[r] \notin OpenStatus /\ status[r] # "ABSENT"
  BY DEF FinalStatus, OpenStatus
<1>2. ASSUME NEW q \in Requests, Approve(q) \/ Reject(q) PROVE same
  <2>1. q # r
    BY <1>1, <1>2 DEF Approve, Reject, OpenStatus
  <2> QED
    BY <1>2, <2>1 DEF Approve, Reject, IInv, TypeOK
<1>3. ASSUME NEW w \in Workers, CreateCommit(w) PROVE same
  <2>1. handler[w].request # r
    BY <1>1, <1>3 DEF CreateCommit, IInv, HandlersOK, HandlerOK
  <2> QED
    BY <1>3, <2>1 DEF CreateCommit, IInv, TypeOK
<1>4. ASSUME NEW w \in Workers, FulfillCommit(w) PROVE same
  <2>1. handler[w].request # r
    BY <1>1, <1>4 DEF FulfillCommit, SchemaAcceptsOpen
  <2> QED
    BY <1>4, <2>1 DEF FulfillCommit, IInv, TypeOK
<1>5. ASSUME NEW w \in Workers, NEW q \in Requests, NEW k \in Keys, NEW c \in Contents,
             EditCommit(w, q, k, c)
      PROVE  same
  <2>1. q # r
    BY <1>1, <1>5 DEF EditCommit, StillAsPreviewed, Selectable, OpenStatus
  <2> QED
    BY <1>5, <2>1 DEF EditCommit, IInv, TypeOK
<1>6. ASSUME NEW w \in Workers, ApplyCommit(w) PROVE same
  <2>1. r \notin handler[w].ids
    BY <1>1, <1>6 DEF ApplyCommit, StillAsPreviewed, Selectable, OpenStatus
  <2> QED
    BY <1>6, <2>1 DEF ApplyCommit, IInv, TypeOK
<1>7. ASSUME NEW w \in Workers, PreviewCommit(w) PROVE same
  BY <1>7 DEF PreviewCommit
<1>8. ASSUME UNCHANGED requestVars PROVE same
  BY <1>8 DEF requestVars
<1>9. ASSUME NEW w \in Workers, Step(w) PROVE same
  <2>1. \/ UNCHANGED requestVars
        \/ CreateCommit(w) \/ FulfillCommit(w) \/ PreviewCommit(w) \/ ApplyCommit(w)
        \/ \E q \in Requests, k \in Keys, c \in Contents : EditCommit(w, q, k, c)
    BY <1>9 DEF Step, SelectionStart, CreatePrepare, FulfillPrepare, LoadRequests,
                LoadItems, LoadCurrentRows, RecordPrepare, DeletePrepare, DirectCommit,
                Abandon
  <2> QED
    BY <1>3, <1>4, <1>5, <1>6, <1>7, <1>8, <2>1
<1> QED
  BY <1>2, <1>9 DEF Next

\* A request that was applied or rejected never changes again.
THEOREM DecisionsFinal == Spec => FinalFrozen
<1>1. IInv /\ [Next]_vars => [Frozen]_vars
  BY NextFrozen
<1>2. [][Frozen]_vars => FinalFrozen
  BY PTL DEF FinalFrozen, Frozen
<1> QED
  BY <1>1, <1>2, Invariance, PTL DEF Spec

--------------------------------------------------------------------------------
(* Applying.  Reads grow old: between a page or a handler's reads and a commit  *)
(* the requests and rows move on.  What saves the commit is that nothing moves  *)
(* without its revision or version moving too.  ReadsInv says so of every read  *)
(* in flight and of every page: what was read is what is there still, unless    *)
(* the number beside it has grown.                                              *)

\* The row of k was this once.  The ledger remembers it.
WasRow(k, row) ==
  \/ row.version = 0
  \/ \E g \in history : /\ g.key = k /\ g.version = row.version
                        /\ g.content = row.content /\ g.lifecycle = row.lifecycle

\* A DELETE carries no value.
DeletesEmpty(items) ==
  \A k \in Keys : items[k] # None /\ items[k].action = "DELETE" => items[k].content = None

\* What a create prepared: some item, none against a version yet to come.
DraftedOK(items) ==
  /\ DeletesEmpty(items)
  /\ \E k \in Keys : items[k] # None
  /\ \A k \in Keys : items[k] # None => items[k].base <= current[k].version

\* What a direct change read and prepared from it.
DirectOK(h) ==
  /\ WasRow(h.key, h.row)
  /\ IF h.operation = "DELETE"
     THEN h.row.lifecycle = "ACTIVE" /\ h.content = h.row.content
     ELSE h.operation = IF h.row.lifecycle = "ACTIVE" THEN "UPDATE" ELSE "ADD"

\* The requests of a selection have rows, with revisions no older than expected.
SelectedOK(ids, revs) == \A r \in ids : status[r] # "ABSENT" /\ revs[r] <= revision[r]

\* Items that were read later than the digest: a request still at the revision of
\* the digest still has them.
ItemsCurrent(ids, items, revs) ==
  /\ \A r \in Requests \ ids : items[r] = NoItems
  /\ \A r \in ids : revision[r] = revs[r] => items[r] = item[r]

\* An apply started from the digest of a page for the same selection.
FromPage(h) == \E page \in shown : page.ids = h.ids /\ page.fingerprint = h.expected

ReadsOK(h) ==
  /\ h.at = "create" => DraftedOK(h.items)
  /\ h.at = "direct" => DirectOK(h)
  /\ h.at \in {"requests", "items", "rows"} =>
       h.ids # {} /\ SelectedOK(h.ids, h.revs) /\ (h.op = "apply" => FromPage(h))
  /\ h.at \in {"items", "rows"} /\ h.op = "apply" =>
       ItemsCurrent(h.ids, h.items, h.expected.revs)
  /\ h.at = "rows" => \A k \in Keys : WasRow(k, h.rows[k])

\* A page shows the dotenv of its selection over rows there were, and its digest
\* tells which rows.
PageOK(page) ==
  /\ SelectedOK(page.ids, page.fingerprint.revs)
  /\ \E rows \in [Keys -> Row] :
       /\ \A k \in Keys : WasRow(k, rows[k])
       /\ page.fingerprint = Fingerprint(page.ids, page.fingerprint.revs,
                                         page.fingerprint.items, rows)
       /\ page.result = ResolveDotenv(page.ids, page.fingerprint.items, rows)

ReadsInv == /\ \A w \in Workers : ReadsOK(handler[w])
            /\ \A page \in shown : PageOK(page)
            /\ \A r \in Requests : DeletesEmpty(item[r])

--------------------------------------------------------------------------------
(* What grows, and what it keeps.                                               *)

\* Ledger, pages and versions grow; a request with a row keeps it, and its items
\* only change with its revision.
Grows ==
  /\ history \subseteq history' /\ shown \subseteq shown'
  /\ \A k \in Keys : current[k].version <= current'[k].version
  /\ \A r \in Requests : status[r] # "ABSENT" =>
       /\ status'[r] # "ABSENT"
       /\ revision[r] <= revision'[r]
       /\ item'[r] = item[r] \/ revision[r] < revision'[r]

\* The last row of the ledger is what the variable holds.
LEMMA CurrentWasRow ==
  ASSUME IInv, NEW k \in Keys
  PROVE  current[k] \in Row /\ current[k].version \in Nat /\ WasRow(k, current[k])
<1>1. current[k] \in Row /\ current[k].version \in Nat
  BY DEF IInv, TypeOK, Row
<1>2. CASE current[k].version # 0
  <2>1. current[k].version \in 1..current[k].version
    BY <1>1, <1>2
  <2>2. PICK g \in history : g.key = k /\ g.version = current[k].version
    BY <2>1 DEF IInv, LedgerComplete
  <2> QED
    BY <1>1, <2>2 DEF IInv, LedgerComplete, WasRow
<1> QED
  BY <1>1, <1>2 DEF WasRow

\* A row that was read is the row that is there, unless the version has grown.
LEMMA RowIsCurrent ==
  ASSUME IInv, NEW k \in Keys, NEW row \in Row, WasRow(k, row)
  PROVE  /\ row.version <= current[k].version
         /\ row.version = current[k].version => row = current[k]
<1>1. current[k] \in Row /\ current[k].version \in Nat
  BY CurrentWasRow
<1>2. CASE row.version = 0
  BY <1>1, <1>2 DEF Row
<1>3. CASE row.version # 0
  <2>1. PICK g \in history : /\ g.key = k /\ g.version = row.version
                             /\ g.content = row.content /\ g.lifecycle = row.lifecycle
    BY <1>3 DEF WasRow
  <2>2. g.version <= current[k].version
    BY <2>1 DEF IInv, LedgerComplete
  <2>3. g.version = current[k].version => row.content = current[k].content
                                          /\ row.lifecycle = current[k].lifecycle
    BY <2>1 DEF IInv, LedgerComplete
  <2> QED
    BY <1>1, <1>3, <2>1, <2>2, <2>3 DEF Row
<1> QED
  BY <1>2, <1>3

\* Rows that were read and have the tags of the rows that are there are those rows.
LEMMA RowsAreCurrent ==
  ASSUME IInv, NEW rows \in [Keys -> Row], \A k \in Keys : WasRow(k, rows[k]),
         \A k \in Keys : rows[k].version = current[k].version
  PROVE  rows = current
<1>1. \A k \in Keys : rows[k] = current[k]
  BY RowIsCurrent
<1> QED
  BY <1>1 DEF IInv, TypeOK

\* A selection in flight says no more than before of requests that moved on.
LEMMA SelectedKept ==
  ASSUME IInv, Grows, TypeOK', NEW ids \in SUBSET Requests, NEW revs \in [Requests -> Nat],
         SelectedOK(ids, revs)
  PROVE  \A r \in ids : status'[r] # "ABSENT" /\ revs[r] <= revision'[r]
<1> SUFFICES ASSUME NEW r \in ids PROVE status'[r] # "ABSENT" /\ revs[r] <= revision'[r]
  OBVIOUS
<1>1. /\ revs[r] \in Nat /\ revision[r] \in Nat /\ revision'[r] \in Nat
      /\ revs[r] <= revision[r] /\ status[r] # "ABSENT"
  BY DEF IInv, TypeOK, SelectedOK
<1>2. status'[r] # "ABSENT" /\ revision[r] <= revision'[r]
  BY <1>1 DEF Grows
<1> QED
  BY <1>1, <1>2

\* A page stays what it was.
LEMMA PageKept ==
  ASSUME IInv, Grows, TypeOK', NEW page \in Page, PageOK(page)
  PROVE  PageOK(page)'
<1>1. page.ids \in SUBSET Requests /\ page.fingerprint.revs \in [Requests -> Nat]
  BY DEF Page, FingerprintSet
<1>2. SelectedOK(page.ids, page.fingerprint.revs)'
  BY <1>1, SelectedKept DEF PageOK, SelectedOK
<1>3. PICK rows \in [Keys -> Row] :
        /\ \A k \in Keys : WasRow(k, rows[k])
        /\ page.fingerprint = Fingerprint(page.ids, page.fingerprint.revs,
                                          page.fingerprint.items, rows)
        /\ page.result = ResolveDotenv(page.ids, page.fingerprint.items, rows)
  BY DEF PageOK
<1>4. \A k \in Keys : WasRow(k, rows[k])'
  BY <1>3 DEF WasRow, Grows
<1> QED
  BY <1>2, <1>3, <1>4 DEF PageOK

\* What a handler read stays as good as it was while others commit.
LEMMA ReadsKept ==
  ASSUME IInv, ReadsInv, Grows, TypeOK', NEW v \in Workers, handler'[v] = handler[v]
  PROVE  ReadsOK(handler[v])'
<1> DEFINE h == handler[v]
<1>1. ReadsOK(h) /\ h \in Handler
  BY DEF ReadsInv, IInv, TypeOK
<1>2. h.at = "create" => DraftedOK(h.items)'
  <2> SUFFICES ASSUME h.at = "create" PROVE DraftedOK(h.items)'
    OBVIOUS
  <2>1. h.items \in ItemSet /\ DraftedOK(h.items)
    BY <1>1, HandlerKinds DEF CreateHandler, ReadsOK
  <2>2. ASSUME NEW k \in Keys, h.items[k] # None PROVE h.items[k].base <= current'[k].version
    <3>1. h.items[k].base \in Nat /\ h.items[k].base <= current[k].version
      BY <2>1, <2>2 DEF DraftedOK, ItemSet, Item
    <3>2. current[k].version \in Nat /\ current'[k].version \in Nat
      BY DEF IInv, TypeOK, Row
    <3> QED
      BY <3>1, <3>2 DEF Grows
  <2> QED
    BY <2>1, <2>2, handler'[v] = h DEF DraftedOK, DeletesEmpty
<1>3. h.at = "direct" => DirectOK(h)'
  BY <1>1, handler'[v] = h DEF ReadsOK, DirectOK, WasRow, Grows
<1>4. h.at \in {"requests", "items", "rows"} =>
        /\ h.ids \in SUBSET Requests /\ h.revs \in [Requests -> Nat]
        /\ \A r \in h.ids : status'[r] # "ABSENT" /\ h.revs[r] <= revision'[r]
  <2>1. h.at \in {"requests", "items", "rows"} =>
          h.ids \in SUBSET Requests /\ h.revs \in [Requests -> Nat]
    BY <1>1, HandlerKinds DEF RequestsLoaded, ItemsLoaded, RowsLoaded
  <2> QED
    BY <1>1, <2>1, SelectedKept DEF ReadsOK
<1>5. h.at \in {"requests", "items", "rows"} /\ h.op = "apply" =>
        \E page \in shown' : page.ids = h.ids /\ page.fingerprint = h.expected
  BY <1>1 DEF ReadsOK, FromPage, Grows
<1>6. ASSUME h.at \in {"items", "rows"}, h.op = "apply"
      PROVE  /\ \A r \in Requests \ h.ids : h.items[r] = NoItems
             /\ \A r \in h.ids : revision'[r] = h.expected.revs[r] => h.items[r] = item'[r]
  <2>1. PICK page \in shown : page.ids = h.ids /\ page.fingerprint = h.expected
    BY <1>1, <1>6 DEF ReadsOK, FromPage
  <2>2. SelectedOK(h.ids, h.expected.revs) /\ h.expected \in FingerprintSet
    BY <2>1 DEF ReadsInv, PageOK, IInv, TypeOK, Page
  <2>3. ItemsCurrent(h.ids, h.items, h.expected.revs)
    BY <1>1, <1>6 DEF ReadsOK
  <2>4. ASSUME NEW r \in h.ids, revision'[r] = h.expected.revs[r]
        PROVE  h.items[r] = item'[r]
    <3>1. r \in Requests
      BY <1>4, <1>6
    <3>2. /\ h.expected.revs[r] \in Nat /\ revision[r] \in Nat /\ revision'[r] \in Nat
          /\ h.expected.revs[r] <= revision[r] /\ status[r] # "ABSENT"
      BY <2>2, <3>1 DEF SelectedOK, FingerprintSet, IInv, TypeOK
    <3>3. revision[r] <= revision'[r] /\ (item'[r] = item[r] \/ revision[r] < revision'[r])
      BY <3>1, <3>2 DEF Grows
    <3>4. revision[r] = h.expected.revs[r] /\ item'[r] = item[r]
      BY <2>4, <3>2, <3>3
    <3> QED
      BY <2>3, <3>4 DEF ItemsCurrent
  <2> QED
    BY <2>3, <2>4 DEF ItemsCurrent
<1>7. h.at = "rows" => \A k \in Keys : WasRow(k, h.rows[k])'
  BY <1>1, handler'[v] = h DEF ReadsOK, WasRow, Grows
<1>8. handler'[v] = h
  OBVIOUS
<1> QED
  <2>1. (h.at = "create" => DraftedOK(h.items))'
    BY ONLY <1>2, <1>8 DEF DraftedOK, DeletesEmpty
  <2>2. (h.at = "direct" => DirectOK(h))'
    BY ONLY <1>3, <1>8 DEF DirectOK, WasRow
  <2>3. (h.at \in {"requests", "items", "rows"} =>
           h.ids # {} /\ SelectedOK(h.ids, h.revs) /\ (h.op = "apply" => FromPage(h)))'
    <3>1. h.at \in {"requests", "items", "rows"} => h.ids # {}
      BY ONLY <1>1 DEF ReadsOK
    <3> QED
      BY ONLY <1>4, <1>5, <1>8, <3>1 DEF SelectedOK, FromPage
  <2>4. (h.at \in {"items", "rows"} /\ h.op = "apply" =>
           ItemsCurrent(h.ids, h.items, h.expected.revs))'
    BY ONLY <1>6, <1>8 DEF ItemsCurrent
  <2>5. (h.at = "rows" => \A k \in Keys : WasRow(k, h.rows[k]))'
    BY ONLY <1>7, <1>8 DEF WasRow
  <2> QED
    BY ONLY <2>1, <2>2, <2>3, <2>4, <2>5 DEF ReadsOK

--------------------------------------------------------------------------------
(* The reads stay true.                                                         *)

\* While the tables stay, what is true of what the handlers have read stays true.
LEMMA SameReads ==
  ASSUME ReadsInv, UNCHANGED <<requestVars, variableVars, shown>>,
         \A v \in Workers : ReadsOK(handler'[v])
  PROVE  ReadsInv'
<1>1. /\ status' = status /\ revision' = revision /\ item' = item
      /\ current' = current /\ history' = history /\ shown' = shown
  BY DEF requestVars, variableVars
<1>2. ASSUME NEW v \in Workers PROVE ReadsOK(handler[v])'
  <2>1. PICK h : h = handler'[v]
    OBVIOUS
  <2>2. ReadsOK(h)
    BY <2>1
  <2>3. (handler[v].at = "create" => DraftedOK(handler[v].items))'
    BY ONLY <1>1, <2>1, <2>2 DEF ReadsOK, DraftedOK, DeletesEmpty
  <2>4. (handler[v].at = "direct" => DirectOK(handler[v]))'
    BY ONLY <1>1, <2>1, <2>2 DEF ReadsOK, DirectOK, WasRow
  <2>5. (handler[v].at \in {"requests", "items", "rows"} =>
           /\ handler[v].ids # {} /\ SelectedOK(handler[v].ids, handler[v].revs)
           /\ handler[v].op = "apply" => FromPage(handler[v]))'
    BY ONLY <1>1, <2>1, <2>2 DEF ReadsOK, SelectedOK, FromPage
  <2>6. (handler[v].at \in {"items", "rows"} /\ handler[v].op = "apply" =>
           ItemsCurrent(handler[v].ids, handler[v].items, handler[v].expected.revs))'
    BY ONLY <1>1, <2>1, <2>2 DEF ReadsOK, ItemsCurrent
  <2>7. (handler[v].at = "rows" => \A k \in Keys : WasRow(k, handler[v].rows[k]))'
    BY ONLY <1>1, <2>1, <2>2 DEF ReadsOK, WasRow
  <2> QED
    BY ONLY <2>3, <2>4, <2>5, <2>6, <2>7 DEF ReadsOK
<1>3. ASSUME NEW page \in shown' PROVE PageOK(page)'
  <2>1. PageOK(page)
    BY <1>1 DEF ReadsInv
  <2> QED
    BY ONLY <1>1, <2>1 DEF PageOK, SelectedOK, WasRow
<1>4. \A r \in Requests : DeletesEmpty(item[r])'
  BY <1>1 DEF ReadsInv, DeletesEmpty
<1> QED
  BY ONLY <1>2, <1>3, <1>4 DEF ReadsInv

\* A step that only fills a handler with what is there.
LEMMA ReadStep ==
  ASSUME IInv, ReadsInv, NEW w \in Workers, NEW g, ReadsOK(g),
         handler' = [handler EXCEPT ![w] = g],
         UNCHANGED <<requestVars, variableVars, shown>>
  PROVE  ReadsInv'
<1>1. \A v \in Workers : handler'[v] = IF v = w THEN g ELSE handler[v]
  BY DEF IInv, TypeOK
<1>2. \A v \in Workers : ReadsOK(handler'[v])
  BY <1>1 DEF ReadsInv
<1> QED
  BY <1>2, SameReads

\* A transaction ends its handler and leaves the reads of the others true.
LEMMA CommitReads ==
  ASSUME IInv, ReadsInv, Grows, TypeOK',
         UNCHANGED handler \/ \E w \in Workers : handler' = [handler EXCEPT ![w] = Idle],
         \A page \in shown' : page \in shown \/ PageOK(page)',
         \A r \in Requests : DeletesEmpty(item[r])'
  PROVE  ReadsInv'
<1>1. \A v \in Workers : handler'[v] = handler[v] \/ handler'[v] = Idle
  BY DEF IInv, TypeOK
<1>2. ASSUME NEW v \in Workers PROVE ReadsOK(handler[v])'
  <2>1. CASE handler'[v] = handler[v]
    BY <2>1, ReadsKept
  <2>2. CASE handler'[v] = Idle
    BY <2>2 DEF ReadsOK, Idle
  <2> QED
    BY <1>1, <2>1, <2>2
<1>3. ASSUME NEW page \in shown' PROVE PageOK(page)'
  <2>1. CASE page \in shown
    BY <2>1, PageKept DEF ReadsInv, IInv, TypeOK
  <2> QED
    BY <2>1
<1> QED
  BY <1>2, <1>3 DEF ReadsInv

\* A draft has at least one item and is made against rows that are there.
LEMMA CreatePrepareReads ==
  ASSUME IInv, ReadsInv, NEW w \in Workers, NEW r \in Requests, NEW d \in Drafts,
         CreatePrepare(w, r, d)
  PROVE  ReadsInv'
<1> DEFINE its == [k \in Keys |-> IF d[k] = None THEN None
                                  ELSE PrepareItem(d[k], current[k])]
           g == [at |-> "create", request |-> r, items |-> its]
<1>1. ASSUME NEW k \in Keys, d[k] # None
      PROVE  /\ its[k] \in Item /\ its[k] # None
             /\ its[k].base <= current[k].version
             /\ its[k].action = "DELETE" => its[k].content = None
  <2>1. d[k] \in Draft
    BY <1>1 DEF Drafts
  <2>2. /\ d[k].action \in Action /\ d[k].content \in Contents \cup {None}
        /\ d[k].action = "DELETE" => d[k].content = None
    BY <2>1 DEF Draft, Action
  <2>3. current[k].version \in Nat
    BY CurrentWasRow
  <2>4. PrepareItem(d[k], current[k]) \in Item
    BY <2>2, <2>3 DEF PrepareItem, Item
  <2> QED
    BY <1>1, <2>2, <2>3, <2>4, NoneAssumption DEF PrepareItem
<1>2. \E k \in Keys : d[k] # None
  <2>1. Cardinality({k \in Keys : d[k] # None}) # 0
    BY WorkflowAssumption DEF Drafts
  <2>2. {k \in Keys : d[k] # None} # {}
    BY <2>1, FS_EmptySet
  <2> QED
    BY <2>2
<1>3. \A k \in Keys : its[k] # None => d[k] # None
  OBVIOUS
<1>4. DraftedOK(its)
  <2> HIDE DEF its
  <2> QED
    BY <1>1, <1>2, <1>3 DEF DraftedOK, DeletesEmpty
<1>5. ReadsOK(g)
  BY <1>4 DEF ReadsOK
<1> QED
  BY <1>5, ReadStep DEF CreatePrepare

\* The digests of a page name revisions the requests have reached.
LEMMA LoadRequestsReads ==
  ASSUME IInv, ReadsInv, NEW w \in Workers, NEW op, NEW ids \in SUBSET Requests,
         NEW expected, LoadRequests(w, op, ids, expected),
         op = "apply" => \E page \in shown : page.ids = ids /\ page.fingerprint = expected
  PROVE  ReadsInv'
<1> DEFINE g == [at |-> "requests", op |-> op, expected |-> expected, ids |-> ids,
                 revs |-> SelectedRevisions(ids)]
<1>1. SelectedOK(ids, SelectedRevisions(ids))
  <2> SUFFICES ASSUME NEW r \in ids
               PROVE  status[r] # "ABSENT" /\ SelectedRevisions(ids)[r] <= revision[r]
    BY DEF SelectedOK
  <2>1. revision[r] \in Nat /\ SelectedRevisions(ids)[r] = revision[r]
    BY DEF IInv, TypeOK, SelectedRevisions
  <2> QED
    BY <2>1 DEF LoadRequests, Selectable
<1>2. ReadsOK(g)
  BY <1>1 DEF ReadsOK, FromPage, LoadRequests
<1> QED
  BY <1>2, ReadStep DEF LoadRequests

\* The items loaded are the items that are there.
LEMMA LoadItemsReads ==
  ASSUME IInv, ReadsInv, NEW w \in Workers, LoadItems(w)
  PROVE  ReadsInv'
<1> DEFINE h == handler[w]
           g == [at |-> "items", op |-> h.op, expected |-> h.expected, ids |-> h.ids,
                 revs |-> h.revs, items |-> SelectedItems(h.ids)]
<1>1. ReadsOK(h) /\ h.at = "requests"
  BY DEF ReadsInv, LoadItems
<1>2. h.ids \in SUBSET Requests
  BY <1>1, HandlerKinds DEF IInv, TypeOK, RequestsLoaded
<1>3. ItemsCurrent(h.ids, SelectedItems(h.ids), h.expected.revs)
  BY <1>2 DEF ItemsCurrent, SelectedItems
<1>4. ReadsOK(g)
  BY <1>1, <1>3 DEF ReadsOK, FromPage
<1> QED
  BY <1>4, ReadStep DEF LoadItems

\* The rows loaded are the rows that are there.
LEMMA LoadCurrentRowsReads ==
  ASSUME IInv, ReadsInv, NEW w \in Workers, LoadCurrentRows(w)
  PROVE  ReadsInv'
<1> DEFINE h == handler[w]
           g == [at |-> "rows", op |-> h.op, expected |-> h.expected, ids |-> h.ids,
                 revs |-> h.revs, items |-> h.items, rows |-> current]
<1>1. ReadsOK(h) /\ h.at = "items"
  BY DEF ReadsInv, LoadCurrentRows
<1>2. \A k \in Keys : WasRow(k, current[k])
  BY CurrentWasRow
<1>3. ReadsOK(g)
  BY <1>1, <1>2 DEF ReadsOK, FromPage
<1> QED
  BY <1>3, ReadStep DEF LoadCurrentRows

\* A direct change reads the row it will write over.
LEMMA DirectPrepareReads ==
  ASSUME IInv, ReadsInv, NEW w \in Workers, NEW k \in Keys,
         DeletePrepare(w, k) \/ \E c \in Contents : RecordPrepare(w, k, c)
  PROVE  ReadsInv'
<1>1. CASE DeletePrepare(w, k)
  <2> DEFINE g == [at |-> "direct", key |-> k, row |-> current[k],
                   content |-> current[k].content, operation |-> "DELETE"]
  <2>1. ReadsOK(g)
    BY <1>1, CurrentWasRow DEF ReadsOK, DirectOK, DeletePrepare
  <2> QED
    BY <1>1, <2>1, ReadStep DEF DeletePrepare
<1>2. ASSUME NEW c \in Contents, RecordPrepare(w, k, c) PROVE ReadsInv'
  <2> DEFINE g == [at |-> "direct", key |-> k, row |-> current[k], content |-> c,
                   operation |-> IF current[k].lifecycle = "ACTIVE" THEN "UPDATE" ELSE "ADD"]
  <2>1. ReadsOK(g)
    BY CurrentWasRow DEF ReadsOK, DirectOK
  <2> QED
    BY <1>2, <2>1, ReadStep DEF RecordPrepare
<1> QED
  BY <1>1, <1>2

\* A step on one request that has a row grows.
LEMMA RequestGrows ==
  ASSUME IInv, NEW r \in Requests, status[r] \in OpenStatus,
         NEW s, s # "ABSENT", status' = [status EXCEPT ![r] = s],
         revision' = [revision EXCEPT ![r] = revision[r] + 1],
         NEW its, item' = [item EXCEPT ![r] = its],
         UNCHANGED <<current, history, shown>>
  PROVE  Grows
<1>1. \A q \in Requests : /\ revision[q] \in Nat
                          /\ status'[q] = IF q = r THEN s ELSE status[q]
                          /\ revision'[q] = IF q = r THEN revision[q] + 1 ELSE revision[q]
                          /\ item'[q] = IF q = r THEN its ELSE item[q]
  BY DEF IInv, TypeOK
<1>2. \A k \in Keys : current[k].version \in Nat /\ current'[k].version = current[k].version
  BY CurrentWasRow
<1> QED
  BY <1>1, <1>2 DEF Grows

\* A create in flight becomes the request it drafted.
LEMMA CreateCommitReads ==
  ASSUME IInv, ReadsInv, TypeOK', NEW w \in Workers, CreateCommit(w)
  PROVE  Grows /\ ReadsInv'
<1> DEFINE h == handler[w]
<1>1. /\ h.request \in Requests /\ status[h.request] = "ABSENT"
      /\ DeletesEmpty(h.items)
  <2>1. h \in CreateHandler
    BY HandlerKinds DEF IInv, TypeOK, CreateCommit
  <2>2. ReadsOK(h) /\ HandlerOK(h)
    BY DEF ReadsInv, IInv, HandlersOK
  <2> QED
    BY <2>1, <2>2 DEF CreateHandler, ReadsOK, HandlerOK, DraftedOK, CreateCommit
<1>2. \A q \in Requests : q # h.request => /\ status'[q] = status[q]
                                           /\ revision'[q] = revision[q]
                                           /\ item'[q] = item[q]
  BY DEF CreateCommit, IInv, TypeOK
<1>3. /\ UNCHANGED <<current, history, shown>>
      /\ item'[h.request] = h.items
      /\ handler' = [handler EXCEPT ![w] = Idle]
  BY <1>1 DEF CreateCommit, IInv, TypeOK, variableVars
<1>4. \A q \in Requests : revision[q] \in Nat
  BY DEF IInv, TypeOK
<1>5. \A k \in Keys : current[k].version \in Nat
  BY CurrentWasRow
<1> HIDE DEF h
<1>6. Grows
  BY <1>1, <1>2, <1>3, <1>4, <1>5 DEF Grows
<1>7. \A q \in Requests : DeletesEmpty(item[q])'
  <2> SUFFICES ASSUME NEW q \in Requests PROVE DeletesEmpty(item[q])'
    OBVIOUS
  <2>1. CASE q = h.request
    BY <1>1, <1>3, <2>1 DEF DeletesEmpty
  <2>2. CASE q # h.request
    BY <1>2, <2>2 DEF DeletesEmpty, ReadsInv
  <2> QED
    BY <2>1, <2>2
<1> QED
  BY <1>3, <1>6, <1>7, CommitReads

\* A value supplied to an item that is no DELETE moves the revision.
LEMMA FulfillCommitReads ==
  ASSUME IInv, ReadsInv, TypeOK', NEW w \in Workers, FulfillCommit(w)
  PROVE  Grows /\ ReadsInv'
<1> DEFINE h == handler[w]
           r == h.request
           old == item[r][h.key]
           its == [item[r] EXCEPT ![h.key] = WithValue(old, h.content, h.rev)]
           new == StatusFor(r \in approved, Missing(its))
<1>1. /\ r \in Requests /\ h.key \in Keys /\ item[r] \in ItemSet
      /\ old.action # "DELETE" /\ status[r] \in OpenStatus
  <2>1. h \in FulfillHandler
    BY HandlerKinds DEF IInv, TypeOK, FulfillCommit
  <2>2. HandlerOK(h)
    BY DEF IInv, HandlersOK
  <2> QED
    BY <2>1, <2>2 DEF FulfillHandler, FulfillCommit, IInv, TypeOK, HandlerOK,
                      SchemaAcceptsOpen
<1>2. new # "ABSENT"
  BY DEF StatusFor
<1>3. /\ status' = [status EXCEPT ![r] = new]
      /\ revision' = [revision EXCEPT ![r] = revision[r] + 1]
      /\ item' = [item EXCEPT ![r] = its]
      /\ UNCHANGED <<current, history, shown>>
      /\ handler' = [handler EXCEPT ![w] = Idle]
  BY DEF FulfillCommit, variableVars
<1>4. DeletesEmpty(its)
  BY <1>1 DEF ReadsInv, DeletesEmpty, WithValue, ItemSet
<1>5. \A q \in Requests : item'[q] = IF q = r THEN its ELSE item[q]
  BY <1>3 DEF IInv, TypeOK
<1> HIDE DEF new, its, old, r, h
<1>6. Grows
  BY <1>1, <1>2, <1>3, RequestGrows
<1>7. \A q \in Requests : DeletesEmpty(item[q])'
  BY <1>4, <1>5 DEF DeletesEmpty, ReadsInv
<1> QED
  BY <1>3, <1>6, <1>7, CommitReads

\* Approving and rejecting leave the items alone.
LEMMA ReviewReads ==
  ASSUME IInv, ReadsInv, TypeOK', NEW r \in Requests, Approve(r) \/ Reject(r)
  PROVE  Grows /\ ReadsInv'
<1> DEFINE s == IF Reject(r) THEN "REJECTED" ELSE StatusFor(TRUE, Missing(item[r]))
<1>1. status[r] \in OpenStatus
  BY DEF Approve, Reject, OpenStatus
<1>2. s # "ABSENT"
  BY DEF StatusFor
<1>3. /\ status' = [status EXCEPT ![r] = s]
      /\ revision' = [revision EXCEPT ![r] = revision[r] + 1]
      /\ item' = [item EXCEPT ![r] = item[r]]
      /\ UNCHANGED <<current, history, shown, handler, item>>
  <2>1. item' = item /\ item = [item EXCEPT ![r] = item[r]]
    BY DEF Approve, Reject, IInv, TypeOK
  <2>2. CASE Reject(r)
    BY <2>1, <2>2 DEF Reject, variableVars
  <2>3. CASE ~Reject(r)
    BY <2>1, <2>3 DEF Approve, variableVars
  <2> QED
    BY <2>2, <2>3
<1> HIDE DEF s
<1>4. Grows
  BY <1>1, <1>2, <1>3, RequestGrows
<1>5. \A q \in Requests : DeletesEmpty(item[q])'
  BY <1>3 DEF DeletesEmpty, ReadsInv
<1> QED
  BY <1>3, <1>4, <1>5, CommitReads

\* The digest makes the item an edit replaces the item that is there.
LEMMA EditsCurrentItem ==
  ASSUME IInv, NEW w \in Workers, NEW r \in Requests, NEW k \in Keys,
         NEW c \in Contents, EditCommit(w, r, k, c)
  PROVE  /\ handler[w].items[r][k] = item[r][k] /\ item[r][k] \in Item
         /\ item[r][k] # None /\ item[r][k].action # "DELETE"
         /\ status[r] = "READY_TO_APPLY"
<1> DEFINE h == handler[w]
<1>1. /\ r \in h.ids /\ Selectable(h.ids) /\ h.items[r][k] # None
      /\ h.items[r][k].action # "DELETE"
      /\ Fingerprint(h.ids, h.revs, h.items, h.rows) = FingerprintNow(h.ids)
  BY DEF EditCommit, StillAsPreviewed, IInv, HandlersOK, HandlerOK
<1>2. h.items = SelectedItems(h.ids)
  BY <1>1 DEF Fingerprint, FingerprintNow
<1> QED
  BY <1>1, <1>2 DEF SelectedItems, Selectable, IInv, TypeOK, ItemSet

\* A correction moves the revision.
LEMMA EditCommitReads ==
  ASSUME IInv, ReadsInv, TypeOK', NEW w \in Workers, NEW r \in Requests, NEW k \in Keys,
         NEW c \in Contents, EditCommit(w, r, k, c)
  PROVE  Grows /\ ReadsInv'
<1> DEFINE it == handler[w].items[r][k]
           its == [item[r] EXCEPT ![k] = WithValue(it, c, it.rev)]
<1>1. /\ it = item[r][k] /\ it.action # "DELETE"
      /\ status[r] = "READY_TO_APPLY" /\ status[r] \in OpenStatus
  BY EditsCurrentItem DEF OpenStatus
<1>2. /\ status' = [status EXCEPT ![r] = "READY_TO_APPLY"]
      /\ revision' = [revision EXCEPT ![r] = revision[r] + 1]
      /\ item' = [item EXCEPT ![r] = its]
      /\ UNCHANGED <<current, history, shown>>
      /\ handler' = [handler EXCEPT ![w] = Idle]
  BY <1>1 DEF EditCommit, variableVars, IInv, TypeOK
<1>3. DeletesEmpty(its)
  <2>1. item[r] \in ItemSet
    BY DEF IInv, TypeOK
  <2> QED
    BY <1>1, <2>1 DEF ReadsInv, DeletesEmpty, WithValue, ItemSet
<1>4. \A q \in Requests : item'[q] = IF q = r THEN its ELSE item[q]
  BY <1>2 DEF IInv, TypeOK
<1> HIDE DEF its, it
<1>5. Grows
  BY <1>1, <1>2, RequestGrows
<1>6. \A q \in Requests : DeletesEmpty(item[q])'
  BY <1>3, <1>4 DEF DeletesEmpty, ReadsInv
<1> QED
  BY <1>2, <1>5, <1>6, CommitReads

\* The page that is shown tells what was loaded.
LEMMA PreviewCommitReads ==
  ASSUME IInv, ReadsInv, TypeOK', NEW w \in Workers, PreviewCommit(w)
  PROVE  Grows /\ ReadsInv'
<1> DEFINE h == handler[w]
           fp == Fingerprint(h.ids, h.revs, h.items, h.rows)
<1> PICK page : page = [ids |-> h.ids, fingerprint |-> fp,
                        result |-> ResolveDotenv(h.ids, h.items, h.rows)]
  OBVIOUS
<1>1. h \in RowsLoaded /\ ReadsOK(h)
  BY HandlerKinds DEF IInv, TypeOK, PreviewCommit, ReadsInv
<1>2. /\ UNCHANGED <<status, revision, approved, item, current, history>>
      /\ shown' = shown \cup {page}
      /\ handler' = [handler EXCEPT ![w] = Idle]
  BY DEF PreviewCommit, variableVars
<1>3. Grows
  <2>1. \A r \in Requests : revision[r] \in Nat
    BY DEF IInv, TypeOK
  <2>2. \A k \in Keys : current[k].version \in Nat
    BY CurrentWasRow
  <2> QED
    BY <1>2, <2>1, <2>2 DEF Grows
<1>4. PageOK(page)'
  <2>1. SelectedOK(h.ids, h.revs) /\ \A k \in Keys : WasRow(k, h.rows[k])
    BY <1>1 DEF ReadsOK, PreviewCommit
  <2>2. h.rows \in [Keys -> Row]
    BY <1>1 DEF RowsLoaded
  <2>3. /\ page.ids = h.ids /\ page.fingerprint = fp
        /\ page.result = ResolveDotenv(h.ids, h.items, h.rows)
        /\ fp.revs = h.revs /\ fp.items = h.items
    BY DEF Fingerprint
  <2>4. PageOK(page)
    <3> HIDE DEF fp
    <3>1. fp = Fingerprint(h.ids, fp.revs, fp.items, h.rows)
      BY <2>3 DEF fp
    <3> QED
      BY <2>1, <2>2, <2>3, <3>1 DEF PageOK
  <2> QED
    BY <1>2, <2>4 DEF PageOK, SelectedOK, WasRow
<1>5. \A q \in Requests : DeletesEmpty(item[q])'
  BY <1>2 DEF DeletesEmpty, ReadsInv
<1>6. \A p \in shown' : p \in shown \/ PageOK(p)'
  BY <1>2, <1>4
<1> QED
  BY <1>2, <1>3, <1>5, <1>6, CommitReads

\* A direct change writes over the row it read and adds its version.
LEMMA DirectInstalls ==
  ASSUME IInv, ReadsInv, NEW w \in Workers, DirectCommit(w)
  PROVE  /\ handler[w] \in DirectHandler
         /\ DirectOK(handler[w])
         /\ handler[w].row = current[handler[w].key]
<1> DEFINE h == handler[w]
<1>1. h \in DirectHandler /\ DirectOK(h)
  BY HandlerKinds DEF IInv, TypeOK, DirectCommit, ReadsInv, ReadsOK
<1>2. h.key \in Keys /\ h.row \in Row /\ WasRow(h.key, h.row)
  BY <1>1 DEF DirectHandler, DirectOK
<1>3. h.row.version = current[h.key].version
  BY DEF DirectCommit, RowUnchanged
<1> QED
  BY <1>1, <1>2, <1>3, RowIsCurrent

\* A direct change moves the version.
LEMMA DirectCommitReads ==
  ASSUME IInv, ReadsInv, TypeOK', NEW w \in Workers, DirectCommit(w)
  PROVE  Grows /\ ReadsInv'
<1> DEFINE h == handler[w]
<1>1. /\ UNCHANGED <<status, revision, approved, preview, item, shown>>
      /\ history \subseteq history'
      /\ handler' = [handler EXCEPT ![w] = Idle]
  BY DEF DirectCommit, requestVars
<1>2. \A k \in Keys : /\ current[k].version \in Nat
                      /\ current'[k].version = current[k].version
                         \/ current'[k].version = current[k].version + 1
  <2>1. h.row = current[h.key] /\ h.key \in Keys
    BY DirectInstalls DEF DirectHandler
  <2> QED
    BY <2>1, CurrentWasRow DEF DirectCommit, IInv, TypeOK
<1>3. Grows
  <2>1. \A r \in Requests : revision[r] \in Nat
    BY DEF IInv, TypeOK
  <2> QED
    BY <1>1, <1>2, <2>1 DEF Grows
<1>4. \A q \in Requests : DeletesEmpty(item[q])'
  BY <1>1 DEF DeletesEmpty, ReadsInv
<1> QED
  BY <1>1, <1>3, <1>4, CommitReads

\* What an apply installs: the items the requests have now, complete and fitting, on
\* the rows of now, for a digest some page was shown with.
LEMMA ApplyInstalls ==
  ASSUME IInv, ReadsInv, NEW w \in Workers, ApplyCommit(w)
  PROVE  /\ handler[w].ids \in SUBSET Requests /\ handler[w].ids # {}
         /\ Selectable(handler[w].ids)
         /\ handler[w].items = SelectedItems(handler[w].ids)
         /\ ValidItems(handler[w].ids, handler[w].items)
         /\ \A k \in TouchedKeys(handler[w].ids, handler[w].items) :
              k \in Keys /\ handler[w].rows[k] = current[k]
         /\ Resolvable(handler[w].ids, handler[w].items, current)
         /\ \E page \in shown : /\ page.ids = handler[w].ids
                                /\ page.fingerprint = FingerprintNow(handler[w].ids)
<1> DEFINE h == handler[w]
<1>1. h \in RowsLoaded /\ ReadsOK(h) /\ HandlerOK(h)
  BY HandlerKinds DEF IInv, TypeOK, ApplyCommit, ReadsInv, HandlersOK
<1>2. /\ h.ids \in SUBSET Requests /\ h.items \in [Requests -> ItemSet]
      /\ h.rows \in [Keys -> Row]
      /\ h.ids # {} /\ FromPage(h)
      /\ ItemsCurrent(h.ids, h.items, h.expected.revs)
      /\ \A k \in Keys : WasRow(k, h.rows[k])
      /\ ValidItems(h.ids, h.items) /\ Resolvable(h.ids, h.items, h.rows)
  BY <1>1 DEF RowsLoaded, ReadsOK, HandlerOK, ApplyCommit
<1>3. Selectable(h.ids) /\ FingerprintNow(h.ids) = h.expected
  BY DEF ApplyCommit, StillAsPreviewed
<1>4. h.items = SelectedItems(h.ids)
  <2>1. h.expected.revs = SelectedRevisions(h.ids)
    BY <1>3 DEF FingerprintNow, Fingerprint
  <2>2. \A r \in h.ids : revision[r] = h.expected.revs[r]
    BY <1>2, <2>1 DEF SelectedRevisions
  <2>3. \A r \in Requests : h.items[r] = SelectedItems(h.ids)[r]
    BY <1>2, <2>2 DEF ItemsCurrent, SelectedItems
  <2> QED
    BY <1>2, <2>3 DEF SelectedItems
<1>5. \A k \in TouchedKeys(h.ids, h.items) : k \in Keys /\ h.rows[k] = current[k]
  <2>1. \A k \in TouchedKeys(h.ids, h.items) :
          k \in Keys /\ h.rows[k].version = current[k].version
    BY DEF ApplyCommit, RowUnchanged, TouchedKeys
  <2> QED
    BY <1>2, <2>1, RowIsCurrent
<1>6. Resolvable(h.ids, h.items, current)
  BY <1>2, <1>5 DEF Resolvable, TouchedKeys
<1>7. \E page \in shown : page.ids = h.ids /\ page.fingerprint = FingerprintNow(h.ids)
  BY <1>2, <1>3 DEF FromPage
<1> QED
  BY <1>2, <1>3, <1>4, <1>5, <1>6, <1>7

\* An apply moves the version of every key it writes and decides its requests.
LEMMA ApplyCommitReads ==
  ASSUME IInv, ReadsInv, TypeOK', NEW w \in Workers, ApplyCommit(w)
  PROVE  Grows /\ ReadsInv'
<1> DEFINE h == handler[w]
           K == TouchedKeys(h.ids, h.items)
<1>1. /\ UNCHANGED <<approved, preview, item, shown>>
      /\ history \subseteq history'
      /\ handler' = [handler EXCEPT ![w] = Idle]
  BY DEF ApplyCommit
<1>2. \A k \in Keys : /\ current[k].version \in Nat
                      /\ current'[k].version = current[k].version
                         \/ current'[k].version = current[k].version + 1
  <2>1. \A k \in K : h.rows[k] = current[k]
    BY ApplyInstalls
  <2>2. \A k \in Keys : current'[k] =
          IF k \in K THEN AppliedRow(h.items[WriterOf(h.ids, h.items, k)][k], h.rows[k])
                     ELSE current[k]
    BY DEF ApplyCommit
  <2>3. \A k \in Keys : current[k].version \in Nat
    BY CurrentWasRow
  <2>4. \A k \in K : AppliedRow(h.items[WriterOf(h.ids, h.items, k)][k], h.rows[k]).version
                      = h.rows[k].version + 1
    BY DEF AppliedRow
  <2> HIDE DEF h, K
  <2> QED
    BY <2>1, <2>2, <2>3, <2>4
<1>3. \A r \in Requests : /\ revision[r] \in Nat
                          /\ status[r] # "ABSENT" => status'[r] # "ABSENT"
                          /\ revision'[r] = revision[r] \/ revision'[r] = revision[r] + 1
  BY DEF ApplyCommit, IInv, TypeOK
<1> HIDE DEF h, K
<1>4. Grows
  BY <1>1, <1>2, <1>3 DEF Grows
<1>5. \A q \in Requests : DeletesEmpty(item[q])'
  BY <1>1 DEF DeletesEmpty, ReadsInv
<1> QED
  BY <1>1, <1>4, <1>5, CommitReads

\* Initially nothing has been read.
LEMMA InitReads == Init => ReadsInv
BY DEF Init, ReadsInv, ReadsOK, Idle, DeletesEmpty, NoItems

\* Every step keeps the reads true.
LEMMA NextReads == IInv /\ TypeOK' /\ ReadsInv /\ [Next]_vars => ReadsInv'
<1> SUFFICES ASSUME IInv, TypeOK', ReadsInv, [Next]_vars PROVE ReadsInv'
  OBVIOUS
<1>1. ASSUME NEW w \in Workers, Step(w) PROVE ReadsInv'
  <2>1. ASSUME NEW r \in Requests, NEW d \in Drafts, CreatePrepare(w, r, d) PROVE ReadsInv'
    BY <2>1, CreatePrepareReads
  <2>2. CASE CreateCommit(w)
    BY <2>2, CreateCommitReads
  <2>3. ASSUME NEW r \in Requests, NEW k \in Keys, NEW c \in Contents,
               FulfillPrepare(w, r, k, c)
        PROVE  ReadsInv'
    BY <2>3, ReadStep DEF FulfillPrepare, ReadsOK
  <2>4. CASE FulfillCommit(w)
    BY <2>4, FulfillCommitReads
  <2>5. CASE SelectionStart(w)
    <3>1. ASSUME NEW ids \in SUBSET Requests, LoadRequests(w, "preview", ids, None)
          PROVE  ReadsInv'
      BY <3>1, LoadRequestsReads
    <3>2. ASSUME NEW page \in shown, NEW op \in {"edit", "apply"},
                 LoadRequests(w, op, page.ids, page.fingerprint)
          PROVE  ReadsInv'
      <4>1. page.ids \in SUBSET Requests
        BY DEF IInv, TypeOK, Page
      <4> QED
        BY <3>2, <4>1, LoadRequestsReads
    <3> QED
      BY <2>5, <3>1, <3>2 DEF SelectionStart
  <2>6. CASE LoadItems(w)
    BY <2>6, LoadItemsReads
  <2>7. CASE LoadCurrentRows(w)
    BY <2>7, LoadCurrentRowsReads
  <2>8. CASE PreviewCommit(w)
    BY <2>8, PreviewCommitReads
  <2>9. ASSUME NEW r \in Requests, NEW k \in Keys, NEW c \in Contents,
               EditCommit(w, r, k, c)
        PROVE  ReadsInv'
    BY <2>9, EditCommitReads
  <2>10. CASE ApplyCommit(w)
    BY <2>10, ApplyCommitReads
  <2>11. ASSUME NEW k \in Keys,
                DeletePrepare(w, k) \/ \E c \in Contents : RecordPrepare(w, k, c)
         PROVE  ReadsInv'
    BY <2>11, DirectPrepareReads
  <2>12. CASE DirectCommit(w)
    BY <2>12, DirectCommitReads
  <2>13. CASE Abandon(w)
    BY <2>13, ReadStep DEF Abandon, ReadsOK, Idle
  <2> QED
    BY <1>1, <2>1, <2>2, <2>3, <2>4, <2>5, <2>6, <2>7, <2>8, <2>9, <2>10, <2>11,
       <2>12, <2>13 DEF Step
<1>2. ASSUME NEW r \in Requests, Approve(r) \/ Reject(r) PROVE ReadsInv'
  BY <1>2, ReviewReads
<1>3. CASE UNCHANGED vars
  <2>1. handler' = handler /\ UNCHANGED <<requestVars, variableVars, shown>>
    BY <1>3 DEF vars
  <2>2. \A v \in Workers : ReadsOK(handler'[v])
    BY <2>1 DEF ReadsInv
  <2> QED
    BY <2>1, <2>2, SameReads
<1> QED
  BY <1>1, <1>2, <1>3 DEF Next

\* What was read stays what is there, unless the number beside it has grown.
LEMMA ReadsInvariant == Spec => [](IInv /\ ReadsInv)
<1>1. Init => IInv /\ ReadsInv
  BY InitIInv, InitReads
<1>2. IInv /\ ReadsInv /\ [Next]_vars => (IInv /\ ReadsInv)'
  BY NextIInv, NextReads DEF IInv
<1> QED
  BY <1>1, <1>2, PTL DEF Spec

--------------------------------------------------------------------------------
(* Each item is written once.                                                   *)

\* What AppliedExactlyOnce says of one request, given the versions it wrote.
OnceBy(r, written) ==
  IF status[r] # "APPLIED" THEN written = {}
  ELSE /\ {h.key : h \in written} = {k \in Keys : item[r][k] # None}
       /\ \A h \in written :
            LET it == item[r][h.key] IN
            /\ h.operation = it.action
            /\ it.action = "DELETE" \/ h.content = it.content
            /\ it.action = "ADD" \/ h.version = it.base + 1
       /\ \A g, h \in written : g.key = h.key => g = h
WrittenBy(r) == {h \in history : h.by = r}

\* AppliedExactlyOnce, request by request.
LEMMA OnceByEach == AppliedExactlyOnce <=> \A r \in Requests : OnceBy(r, WrittenBy(r))
BY DEF AppliedExactlyOnce, OnceBy, WrittenBy

\* A request whose decision and ledger rows stay keeps its account; an applied one is
\* frozen.
LEMMA OnceKept ==
  ASSUME IInv, [Next]_vars, NEW r \in Requests, OnceBy(r, WrittenBy(r)),
         status'[r] = "APPLIED" => status[r] = "APPLIED",
         WrittenBy(r)' = WrittenBy(r)
  PROVE  OnceBy(r, WrittenBy(r))'
<1>1. status[r] = "APPLIED" => status'[r] = "APPLIED" /\ item'[r] = item[r]
  BY NextFrozen DEF Frozen, FinalStatus, vars, requestVars
<1> DEFINE W == WrittenBy(r)
<1>2. CASE status[r] = "APPLIED"
  <2>1. status'[r] = "APPLIED" /\ item'[r] = item[r] /\ W' = W
    BY <1>1, <1>2
  <2> HIDE DEF W
  <2>2. OnceBy(r, W)
    BY DEF W
  <2>3. OnceBy(r, W)'
    BY <1>2, <2>1, <2>2 DEF OnceBy
  <2> QED
    BY <2>3 DEF W
<1>3. CASE status[r] # "APPLIED"
  BY <1>1, <1>3 DEF OnceBy
<1> QED
  BY <1>2, <1>3

\* The versions an apply adds, and who they are by.
LEMMA ApplyWrites ==
  ASSUME IInv, ReadsInv, NEW w \in Workers, ApplyCommit(w),
         NEW r \in handler[w].ids, OnceBy(r, WrittenBy(r))
  PROVE  OnceBy(r, WrittenBy(r))'
<1> DEFINE h == handler[w]
           K == TouchedKeys(h.ids, h.items)
           writer(k) == WriterOf(h.ids, h.items, k)
           it(k) == h.items[writer(k)][k]
           vr(k) == VersionRow(k, it(k).action, AppliedRow(it(k), h.rows[k]), writer(k))
           mine == {k \in Keys : item[r][k] # None}
<1>1. /\ h.ids \in SUBSET Requests /\ Selectable(h.ids)
      /\ h.items = SelectedItems(h.ids) /\ ValidItems(h.ids, h.items)
      /\ \A k \in K : k \in Keys /\ h.rows[k] = current[k]
      /\ Resolvable(h.ids, h.items, current)
  BY ApplyInstalls
<1>2. r \in Requests /\ status[r] # "APPLIED" /\ status'[r] = "APPLIED"
      /\ item'[r] = item[r]
  BY <1>1 DEF Selectable, ApplyCommit
<1>3. history' = history \cup {vr(k) : k \in K}
  BY DEF ApplyCommit
<1>4. WrittenBy(r) = {}
  BY <1>2 DEF OnceBy
<1>5. \A q \in h.ids : h.items[q] = item[q]
  BY <1>1 DEF SelectedItems
<1>6. ASSUME NEW k \in K
      PROVE  /\ k \in Keys /\ writer(k) \in h.ids /\ it(k) # None
             /\ it(k) = item[writer(k)][k]
             /\ Fits(it(k), h.rows[k]) /\ h.rows[k].version \in Nat
  <2>1. writer(k) \in h.ids /\ it(k) # None
    BY DEF TouchedKeys, WriterOf
  <2>2. k \in Keys /\ Fits(it(k), h.rows[k])
    BY <1>1, <2>1 DEF Resolvable
  <2>3. h.rows[k].version \in Nat
    BY <1>1, <2>2, CurrentWasRow
  <2> QED
    BY <1>5, <2>1, <2>2, <2>3
<1>7. \A k \in mine : k \in K /\ writer(k) = r
  <2> SUFFICES ASSUME NEW k \in mine PROVE k \in K /\ writer(k) = r
    OBVIOUS
  <2>1. k \in Keys /\ h.items[r][k] # None
    BY <1>5
  <2>2. k \in K
    BY <2>1 DEF TouchedKeys
  <2> QED
    BY <1>1, <1>6, <2>1, <2>2 DEF ValidItems
<1>8. \A k \in K : writer(k) = r => k \in mine /\ it(k) = item[r][k]
  BY <1>6
<1>9. \A k \in K : /\ vr(k).key = k /\ vr(k).by = writer(k)
                   /\ vr(k).operation = it(k).action
                   /\ it(k).action = "DELETE" \/ vr(k).content = it(k).content
                   /\ it(k).action = "ADD" \/ vr(k).version = it(k).base + 1
  <2> SUFFICES ASSUME NEW k \in K
               PROVE  /\ vr(k).key = k /\ vr(k).by = writer(k)
                      /\ vr(k).operation = it(k).action
                      /\ it(k).action = "DELETE" \/ vr(k).content = it(k).content
                      /\ it(k).action = "ADD" \/ vr(k).version = it(k).base + 1
    OBVIOUS
  <2>1. PICK row : row = h.rows[k]
    OBVIOUS
  <2>2. PICK i : i = it(k)
    OBVIOUS
  <2>3. PICK q : q = writer(k)
    OBVIOUS
  <2>4. vr(k) = VersionRow(k, i.action, AppliedRow(i, row), q)
    BY <2>1, <2>2, <2>3
  <2>5. Fits(i, row)
    BY <1>6, <2>1, <2>2
  <2>6. VersionRow(k, i.action, AppliedRow(i, row), q) =
          [key |-> k, version |-> row.version + 1, operation |-> i.action,
           lifecycle |-> IF i.action = "DELETE" THEN "DELETED" ELSE "ACTIVE",
           content |-> AppliedContent(i, row), by |-> q]
    BY ONLY DEF VersionRow, AppliedRow
  <2>7. /\ i.action = "DELETE" \/ AppliedContent(i, row) = i.content
        /\ i.action = "ADD" \/ row.version = i.base
    BY ONLY <2>5 DEF AppliedContent, Fits
  <2> HIDE DEF vr, it, writer
  <2> QED
    BY ONLY <2>2, <2>3, <2>4, <2>6, <2>7
<1> HIDE DEF vr, it, writer, K, h
<1>10. WrittenBy(r)' = {vr(k) : k \in mine}
  <2>1. \A v : v \in WrittenBy(r)' <=> v \in history' /\ v.by = r
    BY DEF WrittenBy
  <2>2. \A v \in history : v.by # r
    BY <1>4 DEF WrittenBy
  <2>3. \A v \in WrittenBy(r)' : v \in {vr(k) : k \in mine}
    BY <1>3, <1>8, <1>9, <2>1, <2>2
  <2>4. \A k \in mine : vr(k) \in WrittenBy(r)'
    BY <1>3, <1>7, <1>9, <2>1
  <2> QED
    BY <2>3, <2>4
<1> DEFINE W == {vr(k) : k \in mine}
<1>11. \A v \in W : \E k \in mine : v = vr(k) /\ v.key = k
  BY <1>7, <1>9
<1>12. \A k \in mine : vr(k) \in W /\ vr(k).key = k
  BY <1>7, <1>9
<1>13. {v.key : v \in W} = mine
  <2> HIDE DEF W
  <2> QED
    BY <1>11, <1>12
<1>14. \A v \in W : /\ v.operation = item[r][v.key].action
                    /\ item[r][v.key].action = "DELETE" \/ v.content = item[r][v.key].content
                    /\ item[r][v.key].action = "ADD" \/ v.version = item[r][v.key].base + 1
  BY <1>7, <1>8, <1>9, <1>11
<1>15. \A g, v \in W : g.key = v.key => g = v
  BY <1>11
<1> HIDE DEF W
<1>16. WrittenBy(r)' = W
  BY <1>10 DEF W
<1> QED
  BY <1>2, <1>13, <1>14, <1>15, <1>16 DEF OnceBy

\* No step writes for a request except the apply that decides it.
LEMMA NextOnce ==
  ASSUME IInv, ReadsInv, AppliedExactlyOnce, [Next]_vars
  PROVE  AppliedExactlyOnce'
<1> SUFFICES ASSUME NEW r \in Requests PROVE OnceBy(r, WrittenBy(r))'
  BY DEF AppliedExactlyOnce, OnceBy, WrittenBy
<1>1. OnceBy(r, WrittenBy(r))
  BY OnceByEach
<1>2. ASSUME status'[r] = "APPLIED" => status[r] = "APPLIED", history' = history
      PROVE  OnceBy(r, WrittenBy(r))'
  BY <1>1, <1>2, OnceKept DEF WrittenBy
<1>3. ASSUME NEW w \in Workers, ApplyCommit(w) PROVE OnceBy(r, WrittenBy(r))'
  <2>1. CASE r \in handler[w].ids
    BY <1>1, <1>3, <2>1, ApplyWrites
  <2>2. CASE r \notin handler[w].ids
    <3>1. status'[r] = status[r]
      BY <1>3, <2>2 DEF ApplyCommit
    <3>2. WrittenBy(r)' = WrittenBy(r)
      <4> DEFINE h == handler[w]
      <4>1. h.ids \in SUBSET Requests /\ h.items = SelectedItems(h.ids)
        BY <1>3, ApplyInstalls
      <4>2. \A k \in TouchedKeys(h.ids, h.items) : WriterOf(h.ids, h.items, k) # r
        BY <2>2 DEF TouchedKeys, WriterOf
      <4>3. \A v \in history' : v \in history \/ v.by # r
        <5> DEFINE writer(k) == WriterOf(h.ids, h.items, k)
                   op(k) == h.items[writer(k)][k].action
                   new(k) == AppliedRow(h.items[writer(k)][k], h.rows[k])
                   K == TouchedKeys(h.ids, h.items)
        <5>1. history' = history \cup {VersionRow(k, op(k), new(k), writer(k)) : k \in K}
          BY <1>3 DEF ApplyCommit
        <5>2. \A k \in K : VersionRow(k, op(k), new(k), writer(k)).by # r
          BY <4>2 DEF VersionRow
        <5> HIDE DEF writer, op, new, K
        <5> QED
          BY <5>1, <5>2
      <4>4. history \subseteq history'
        BY <1>3 DEF ApplyCommit
      <4> QED
        BY <4>3, <4>4 DEF WrittenBy
    <3> QED
      BY <1>1, <3>1, <3>2, OnceKept
  <2> QED
    BY <2>1, <2>2
<1>4. ASSUME NEW w \in Workers, DirectCommit(w) PROVE OnceBy(r, WrittenBy(r))'
  <2>1. status' = status
    BY <1>4 DEF DirectCommit, requestVars
  <2>2. \A v \in history' : v \in history \/ v.by = None
    BY <1>4 DEF DirectCommit, VersionRow
  <2>3. history \subseteq history' /\ r # None
    BY <1>4, WorkflowAssumption DEF DirectCommit
  <2>4. WrittenBy(r)' = WrittenBy(r)
    BY <2>2, <2>3 DEF WrittenBy
  <2> QED
    BY <1>1, <2>1, <2>4, OnceKept
<1>5. ASSUME NEW q \in Requests, Approve(q) \/ Reject(q)
      PROVE  (status'[r] = "APPLIED" => status[r] = "APPLIED") /\ history' = history
  BY <1>5 DEF Approve, Reject, StatusFor, variableVars, IInv, TypeOK
<1>6. ASSUME NEW w \in Workers, CreateCommit(w) \/ FulfillCommit(w)
      PROVE  (status'[r] = "APPLIED" => status[r] = "APPLIED") /\ history' = history
  BY <1>6 DEF CreateCommit, FulfillCommit, StatusFor, variableVars, IInv, TypeOK
<1>7. ASSUME UNCHANGED <<status, history>> PROVE OnceBy(r, WrittenBy(r))'
  BY <1>2, <1>7
<1>8. ASSUME NEW w \in Workers, Step(w) PROVE OnceBy(r, WrittenBy(r))'
  <2>1. \/ UNCHANGED <<status, history>> \/ ApplyCommit(w) \/ DirectCommit(w)
        \/ CreateCommit(w) \/ FulfillCommit(w)
    BY <1>8 DEF Step, SelectionStart, CreatePrepare, FulfillPrepare, LoadRequests,
                LoadItems, LoadCurrentRows, RecordPrepare, DeletePrepare, PreviewCommit,
                EditCommit, Abandon, requestVars, variableVars
  <2> QED
    BY <1>2, <1>3, <1>4, <1>6, <1>7, <2>1
<1>9. CASE UNCHANGED vars
  BY <1>7, <1>9 DEF vars, requestVars, variableVars
<1> QED
  BY <1>2, <1>5, <1>8, <1>9 DEF Next

\* However handlers interleave, an applied request wrote each of its items exactly
\* once, on the version it was proposed against, and any other request wrote nothing.
THEOREM AppliedOnce == Spec => []AppliedExactlyOnce
<1>1. Init => AppliedExactlyOnce
  BY DEF Init, AppliedExactlyOnce
<1>2. IInv /\ ReadsInv /\ AppliedExactlyOnce /\ [Next]_vars => AppliedExactlyOnce'
  BY NextOnce
<1> QED
  BY <1>1, <1>2, ReadsInvariant, PTL DEF Spec

--------------------------------------------------------------------------------
(* An apply installs what was shown.                                            *)

\* What AppliesWhatWasShown says of a step.
InstallsShown ==
  \A r \in Requests : status[r] # "APPLIED" /\ status'[r] = "APPLIED" =>
    \E page \in shown :
      /\ r \in page.ids
      /\ \A q \in page.ids : status[q] # "APPLIED" /\ status'[q] = "APPLIED"
      /\ page.result = [k \in Keys |-> ActiveContent(current'[k])]

\* A page whose digest is the digest of now shows the dotenv of now: its rows had the
\* versions of now, so they are the rows of now.
LEMMA PageIsCurrent ==
  ASSUME IInv, ReadsInv, NEW page \in shown,
         page.fingerprint = FingerprintNow(page.ids)
  PROVE  page.result = ResolveDotenv(page.ids, SelectedItems(page.ids), current)
<1>1. PICK rows \in [Keys -> Row] :
        /\ \A k \in Keys : WasRow(k, rows[k])
        /\ page.fingerprint = Fingerprint(page.ids, page.fingerprint.revs,
                                          page.fingerprint.items, rows)
        /\ page.result = ResolveDotenv(page.ids, page.fingerprint.items, rows)
  BY DEF ReadsInv, PageOK
<1>2. page.fingerprint.items = SelectedItems(page.ids)
  BY DEF FingerprintNow, Fingerprint
<1>3. ASSUME NEW k \in Keys PROVE rows[k].version = current[k].version
  <2>1. page.fingerprint.rows[k].version = rows[k].version
    BY <1>1 DEF Fingerprint
  <2>2. page.fingerprint.rows[k].version = current[k].version
    BY DEF FingerprintNow, Fingerprint
  <2> QED
    BY <2>1, <2>2
<1>4. rows = current
  BY <1>1, <1>3, RowsAreCurrent
<1> QED
  BY <1>1, <1>2, <1>4

\* An apply leaves exactly the dotenv its digest resolves to: it writes each touched
\* key as its item says, a DELETE hiding it.
LEMMA ApplyResult ==
  ASSUME IInv, ReadsInv, NEW w \in Workers, ApplyCommit(w)
  PROVE  ResolveDotenv(handler[w].ids, SelectedItems(handler[w].ids), current)
           = [k \in Keys |-> ActiveContent(current'[k])]
<1> DEFINE h == handler[w]
           K == TouchedKeys(h.ids, h.items)
           it(k) == h.items[WriterOf(h.ids, h.items, k)][k]
<1>1. /\ h.ids \in SUBSET Requests /\ h.items = SelectedItems(h.ids)
      /\ \A k \in K : k \in Keys /\ h.rows[k] = current[k]
  BY ApplyInstalls
<1>2. \A k \in Keys : current'[k] = IF k \in K THEN AppliedRow(it(k), h.rows[k])
                                              ELSE current[k]
  BY DEF ApplyCommit
<1>3. ASSUME NEW k \in K PROVE it(k).action = "DELETE" => it(k).content = None
  <2>1. WriterOf(h.ids, h.items, k) \in h.ids /\ k \in Keys /\ it(k) # None
    BY DEF TouchedKeys, WriterOf
  <2>2. it(k) = item[WriterOf(h.ids, h.items, k)][k]
    BY <1>1, <2>1 DEF SelectedItems
  <2> QED
    BY <1>1, <2>1, <2>2 DEF ReadsInv, DeletesEmpty
<1>4. \A k \in K : ActiveContent(AppliedRow(it(k), h.rows[k])) = it(k).content
  BY <1>3 DEF ActiveContent, AppliedRow, AppliedContent
<1>5. ResolveDotenv(h.ids, h.items, current) =
        [k \in Keys |-> IF k \in K THEN it(k).content ELSE ActiveContent(current[k])]
  BY DEF ResolveDotenv
<1> HIDE DEF it, K
<1>6. \A k \in Keys : ActiveContent(current'[k]) =
                        IF k \in K THEN it(k).content ELSE ActiveContent(current[k])
  BY <1>2, <1>4
<1> QED
  BY <1>1, <1>5, <1>6

\* Only an apply marks requests applied.
LEMMA NextInstallsShown ==
  ASSUME IInv, ReadsInv, Next
  PROVE  InstallsShown
<1> SUFFICES ASSUME NEW r \in Requests, status[r] # "APPLIED", status'[r] = "APPLIED"
             PROVE  \E page \in shown :
                      /\ r \in page.ids
                      /\ \A q \in page.ids : status[q] # "APPLIED" /\ status'[q] = "APPLIED"
                      /\ page.result = [k \in Keys |-> ActiveContent(current'[k])]
  BY DEF InstallsShown
<1>1. ~(UNCHANGED status)
  OBVIOUS
<1>2. ASSUME NEW q \in Requests PROVE ~Approve(q) /\ ~Reject(q)
  BY DEF Approve, Reject, StatusFor, IInv, TypeOK
<1>3. PICK w \in Workers : ApplyCommit(w)
  <2>1. ASSUME NEW w \in Workers PROVE ~CreateCommit(w) /\ ~FulfillCommit(w)
    BY DEF CreateCommit, FulfillCommit, StatusFor, IInv, TypeOK
  <2>2. PICK w \in Workers : Step(w)
    BY <1>2 DEF Next
  <2>3. ~CreateCommit(w) /\ ~FulfillCommit(w)
    BY <2>1
  <2>4. ASSUME ~ApplyCommit(w) PROVE UNCHANGED status
    BY ONLY <2>2, <2>3, <2>4
       DEF Step, SelectionStart, CreatePrepare, FulfillPrepare, LoadRequests, LoadItems,
           LoadCurrentRows, RecordPrepare, DeletePrepare, PreviewCommit, EditCommit,
           DirectCommit, Abandon, requestVars
  <2> QED
    BY <1>1, <2>4
<1> DEFINE ids == handler[w].ids
<1>4. PICK page \in shown : page.ids = ids /\ page.fingerprint = FingerprintNow(ids)
  BY <1>3, ApplyInstalls
<1>5. ids \in SUBSET Requests /\ Selectable(ids)
  BY <1>3, ApplyInstalls
<1>6. status' = [q \in Requests |-> IF q \in ids THEN "APPLIED" ELSE status[q]]
  BY <1>3 DEF ApplyCommit
<1>7. r \in ids /\ \A q \in ids : status[q] # "APPLIED" /\ status'[q] = "APPLIED"
  BY <1>5, <1>6 DEF Selectable
<1>8. page.result = [k \in Keys |-> ActiveContent(current'[k])]
  BY <1>3, <1>4, ApplyResult, PageIsCurrent
<1> QED
  BY <1>4, <1>7, <1>8

\* Whatever was edited, approved, written or applied between a page and its apply: the
\* apply takes effect only if the page still tells the truth, and installs the page.
THEOREM AppliesShown == Spec => AppliesWhatWasShown
<1>1. IInv /\ ReadsInv /\ [Next]_vars => [InstallsShown]_vars
  BY NextInstallsShown
<1>2. [][InstallsShown]_vars => AppliesWhatWasShown
  BY PTL DEF AppliesWhatWasShown, InstallsShown
<1> QED
  BY <1>1, <1>2, ReadsInvariant, PTL DEF Spec

--------------------------------------------------------------------------------
(* The workflow implements the registry.                                        *)

\* What the registry sees of an item, of the requests and of their items.
Proposed(it) == IF it = None THEN None
                ELSE [action |-> it.action, base |-> it.base, content |-> it.content]
States == [r \in Requests |-> IF status[r] \in OpenStatus THEN "OPEN" ELSE status[r]]
Proposals == [r \in Requests |-> [k \in Keys |-> Proposed(item[r][k])]]

\* An item is a proposal, and its absence is the absence of one.
LEMMA ProposedType ==
  ASSUME NEW it \in Item \cup {None}
  PROVE  /\ Proposed(it) \in Registry!Proposal \cup {None}
         /\ Proposed(it) = None <=> it = None
<1>1. ASSUME it # None PROVE Proposed(it) \in Registry!Proposal
  BY <1>1 DEF Proposed, Registry!Proposal, Item, Action
<1> QED
  BY <1>1, ProposalAssumption DEF Proposed

\* Writes, at most one for each key, what they make of the rows, and their versions.
WritesOf(K, op, content, by) ==
  {[key |-> k, action |-> op[k], content |-> content[k], by |-> by[k]] : k \in K}
RowOf(k, op, content) ==
  [lifecycle |-> IF op[k] = "DELETE" THEN "DELETED" ELSE "ACTIVE",
   version |-> current[k].version + 1,
   content |-> IF op[k] = "DELETE" THEN current[k].content ELSE content[k]]
RowsAfter(K, op, content) ==
  [k \in Keys |-> IF k \in K THEN RowOf(k, op, content) ELSE current[k]]
VersionsOf(K, op, content, by) ==
  {VersionRow(k, op[k], RowOf(k, op, content), by[k]) : k \in K}

\* Registry!Install of such writes.
LEMMA InstallWrites ==
  ASSUME NEW K \in SUBSET Keys, NEW op, NEW content, NEW by,
         current' = RowsAfter(K, op, content),
         history' = history \cup VersionsOf(K, op, content, by)
  PROVE  Registry!Install(WritesOf(K, op, content, by))
<1> DEFINE writes == WritesOf(K, op, content, by)
           wr(k) == [key |-> k, action |-> op[k], content |-> content[k], by |-> by[k]]
           keys == {w.key : w \in writes}
           of(k) == CHOOSE w \in writes : w.key = k
           n(k) == [lifecycle |-> IF of(k).action = "DELETE" THEN "DELETED" ELSE "ACTIVE",
                    version |-> current[k].version + 1,
                    content |-> IF of(k).action = "DELETE" THEN current[k].content
                                ELSE of(k).content]
           vr(k) == [key |-> k, version |-> n(k).version, operation |-> of(k).action,
                     lifecycle |-> n(k).lifecycle, content |-> n(k).content, by |-> of(k).by]
           row(k) == VersionRow(k, op[k], RowOf(k, op, content), by[k])
<1>1. \A k \in K : wr(k) \in writes /\ wr(k).key = k
  BY DEF WritesOf
<1>2. \A w \in writes : \E k \in K : w = wr(k) /\ w.key = k
  BY DEF WritesOf
<1>3. keys = K
  <2> HIDE DEF wr, writes
  <2> QED
    BY ONLY <1>1, <1>2
<1>4. ASSUME NEW k \in K PROVE of(k) = wr(k)
  <2> HIDE DEF writes
  <2>1. of(k) \in writes /\ of(k).key = k
    BY <1>1
  <2> QED
    BY <1>2, <2>1
<1>5. \A k \in K : /\ of(k).action = op[k] /\ of(k).content = content[k]
                   /\ of(k).by = by[k]
  <2> HIDE DEF of
  <2> QED
    BY <1>4
<1>6. \A k \in K : n(k) = RowOf(k, op, content) /\ vr(k) = row(k)
  <2> HIDE DEF of
  <2> QED
    BY <1>5 DEF VersionRow, RowOf
<1>7. current' = [k \in Keys |-> IF k \in keys THEN n(k) ELSE current[k]]
  <2> HIDE DEF n, keys
  <2> QED
    BY <1>3, <1>6 DEF RowsAfter
<1>8. history' = history \cup {vr(k) : k \in keys}
  <2>1. history' = history \cup {row(k) : k \in K}
    BY DEF VersionsOf
  <2> HIDE DEF vr, row, keys
  <2> QED
    BY <1>3, <1>6, <2>1
<1> QED
  <2>1. /\ current' = [k \in Keys |-> IF k \in keys THEN n(k) ELSE current[k]]
        /\ history' = history \cup {vr(k) : k \in keys}
    BY <1>7, <1>8
  <2> HIDE DEF writes
  <2>2. Registry!Install(writes)
    BY ONLY <2>1, Zenon DEF Registry!Install
  <2> QED
    BY <2>2 DEF writes

\* A step the registry does not see.
LEMMA Unseen ==
  ASSUME UNCHANGED <<variableVars, item>>,
         \A r \in Requests : \/ status'[r] = status[r]
                             \/ status[r] \in OpenStatus /\ status'[r] \in OpenStatus
  PROVE  UNCHANGED Registry!vars
<1>1. States' = States
  BY DEF States, OpenStatus
<1>2. Proposals' = Proposals
  BY DEF Proposals
<1> QED
  BY <1>1, <1>2 DEF Registry!vars, variableVars, States, Proposals, Proposed

\* Creating a request submits it.
LEMMA CreateSubmits ==
  ASSUME IInv, ReadsInv, NEW w \in Workers, CreateCommit(w)
  PROVE  \E r \in Requests : Registry!Submit(r)
<1> DEFINE h == handler[w]
           r == h.request
<1>1. /\ r \in Requests /\ status[r] = "ABSENT" /\ h.items \in ItemSet
      /\ DraftedOK(h.items)
  <2>1. h \in CreateHandler
    BY HandlerKinds DEF IInv, TypeOK, CreateCommit
  <2>2. ReadsOK(h) /\ HandlerOK(h)
    BY DEF ReadsInv, IInv, HandlersOK
  <2> QED
    BY <2>1, <2>2 DEF CreateHandler, ReadsOK, HandlerOK, CreateCommit
<1>2. /\ UNCHANGED <<current, history>>
      /\ \A q \in Requests : status'[q] = IF q = r THEN StatusFor(FALSE, Missing(h.items))
                                          ELSE status[q]
      /\ \A q \in Requests : item'[q] = IF q = r THEN h.items ELSE item[q]
  BY DEF CreateCommit, IInv, TypeOK, variableVars
<1>3. StatusFor(FALSE, Missing(h.items)) \in OpenStatus
  BY DEF StatusFor, OpenStatus
<1> HIDE DEF h, r
<1>4. States[r] = "ABSENT" /\ States' = [States EXCEPT ![r] = "OPEN"]
  BY <1>1, <1>2, <1>3 DEF States, OpenStatus
<1>5. \A q \in Requests \ {r} : Proposals'[q] = Proposals[q]
  BY <1>2 DEF Proposals
<1>6. Proposals'[r] = [k \in Keys |-> Proposed(h.items[k])]
  BY <1>1, <1>2 DEF Proposals
<1>7. Proposals'[r] \in [Keys -> Registry!Proposal \cup {None}]
  BY <1>1, <1>6, ProposedType DEF ItemSet
<1>8. \E k \in Keys : Proposals'[r][k] # None
  BY <1>1, <1>6, ProposedType DEF ItemSet, DraftedOK
<1>9. \A k \in Keys : Proposals'[r][k] # None => Proposals'[r][k].base <= current[k].version
  BY <1>1, <1>6 DEF DraftedOK, Proposed
<1> QED
  BY <1>1, <1>2, <1>4, <1>5, <1>7, <1>8, <1>9
     DEF Registry!Submit, States, Proposals, Proposed

\* Replacing one value of an open request revises it.
LEMMA ValueRevises ==
  ASSUME IInv, NEW r \in Requests, NEW k \in Keys, NEW c \in Contents, NEW n \in Nat,
         status[r] \in OpenStatus, item[r][k] # None, item[r][k].action # "DELETE",
         NEW s \in OpenStatus, status' = [status EXCEPT ![r] = s],
         item' = [item EXCEPT ![r] =
                    [item[r] EXCEPT ![k] = WithValue(item[r][k], c, n)]],
         UNCHANGED variableVars
  PROVE  Registry!Revise(r)
<1> DEFINE its == [item[r] EXCEPT ![k] = WithValue(item[r][k], c, n)]
<1>1. item[r] \in ItemSet /\ item[r][k] \in Item
  BY DEF IInv, TypeOK, ItemSet
<1>2. /\ \A q \in Requests : status'[q] = IF q = r THEN s ELSE status[q]
      /\ \A q \in Requests : item'[q] = IF q = r THEN its ELSE item[q]
  BY DEF IInv, TypeOK
<1>3. States[r] = "OPEN" /\ States' = States
  BY <1>2 DEF States
<1>4. Proposals[r][k] # None /\ Proposals[r][k].action # "DELETE"
  BY <1>1, ProposedType DEF Proposals, Proposed
<1>5. \A j \in Keys : its[j] = IF j = k THEN WithValue(item[r][k], c, n) ELSE item[r][j]
  BY <1>1 DEF ItemSet
<1>6. Proposed(WithValue(item[r][k], c, n)) = [Proposals[r][k] EXCEPT !.content = c]
  <2>1. WithValue(item[r][k], c, n) # None
    BY <1>1, ItemWithValue
  <2> QED
    BY <2>1 DEF Proposed, Proposals, WithValue
<1> HIDE DEF its
<1>7. Proposals' = [Proposals EXCEPT ![r][k].content = c]
  <2> DEFINE p == [Proposals[r][k] EXCEPT !.content = c]
  <2>1. Proposals'[r] = [Proposals[r] EXCEPT ![k] = p]
    <3>1. Proposals'[r] = [j \in Keys |-> Proposed(its[j])]
      <4>1. Proposals'[r] = [j \in Keys |-> Proposed(item'[r][j])]
        BY DEF Proposals
      <4>2. \A j \in Keys : item'[r][j] = its[j]
        BY <1>2
      <4> QED
        BY ONLY <4>1, <4>2
    <3>2. Proposals[r] = [j \in Keys |-> Proposed(item[r][j])]
      BY DEF Proposals
    <3>3. \A j \in Keys : Proposed(its[j]) = IF j = k THEN p ELSE Proposed(item[r][j])
      BY <1>5, <1>6
    <3> HIDE DEF p
    <3> QED
      BY <3>1, <3>2, <3>3
  <2>2. \A q \in Requests : q # r => Proposals'[q] = Proposals[q]
    BY <1>2 DEF Proposals
  <2> QED
    BY <2>1, <2>2 DEF Proposals
<1>8. /\ \E j \in Keys, d \in Contents :
           /\ Proposals[r][j] # None
           /\ Proposals[r][j].action # "DELETE"
           /\ Proposals' = [Proposals EXCEPT ![r][j].content = d]
      /\ UNCHANGED <<States, current, history>>
  BY <1>3, <1>4, <1>7 DEF variableVars
<1> QED
  BY <1>3, <1>8 DEF Registry!Revise, States, Proposals, Proposed

\* Supplying a value revises the request.
LEMMA FulfillRevises ==
  ASSUME IInv, NEW w \in Workers, FulfillCommit(w)
  PROVE  \E r \in Requests : Registry!Revise(r)
<1> DEFINE h == handler[w]
           r == h.request
           its == [item[r] EXCEPT ![h.key] = WithValue(item[r][h.key], h.content, h.rev)]
           s == StatusFor(r \in approved, Missing(its))
<1>1. /\ r \in Requests /\ h.key \in Keys /\ h.content \in Contents /\ h.rev \in Nat
      /\ item[r][h.key] # None /\ item[r][h.key].action # "DELETE"
      /\ status[r] \in OpenStatus
  <2>1. h \in FulfillHandler
    BY HandlerKinds DEF IInv, TypeOK, FulfillCommit
  <2>2. HandlerOK(h)
    BY DEF IInv, HandlersOK
  <2> QED
    BY <2>1, <2>2 DEF FulfillHandler, FulfillCommit, HandlerOK, SchemaAcceptsOpen
<1>2. s \in OpenStatus
  BY DEF StatusFor, OpenStatus
<1>3. /\ status' = [status EXCEPT ![r] = s]
      /\ item' = [item EXCEPT ![r] = its]
      /\ UNCHANGED variableVars
  BY DEF FulfillCommit
<1> HIDE DEF s, r, h
<1> QED
  BY <1>1, <1>2, <1>3, ValueRevises

\* Correcting a value revises the request.
LEMMA EditRevises ==
  ASSUME IInv, NEW w \in Workers, NEW r \in Requests, NEW k \in Keys,
         NEW c \in Contents, EditCommit(w, r, k, c)
  PROVE  Registry!Revise(r)
<1>1. /\ handler[w].items[r][k] = item[r][k] /\ item[r][k] \in Item
      /\ item[r][k] # None /\ item[r][k].action # "DELETE"
      /\ status[r] = "READY_TO_APPLY"
  BY EditsCurrentItem
<1>2. item[r][k].rev \in Nat
  BY <1>1 DEF Item
<1>3. /\ item' = [item EXCEPT ![r] =
                    [item[r] EXCEPT ![k] = WithValue(item[r][k], c, item[r][k].rev)]]
      /\ UNCHANGED <<variableVars, status>>
  BY <1>1 DEF EditCommit
<1>4. "READY_TO_APPLY" \in OpenStatus
      /\ status' = [status EXCEPT ![r] = "READY_TO_APPLY"]
  BY <1>1, <1>3 DEF OpenStatus, IInv, TypeOK
<1> QED
  BY <1>1, <1>2, <1>3, <1>4, ValueRevises

\* Rejecting a request rejects it.
LEMMA RejectRejects ==
  ASSUME IInv, NEW r \in Requests, Reject(r)
  PROVE  Registry!Reject(r)
<1>1. States[r] = "OPEN" /\ States' = [States EXCEPT ![r] = "REJECTED"]
  BY DEF Reject, States, IInv, TypeOK, OpenStatus
<1>2. Proposals' = Proposals
  BY DEF Reject, Proposals
<1> QED
  BY <1>1, <1>2 DEF Registry!Reject, Reject, States, Proposals, Proposed, variableVars

\* Approving is not seen, and neither is any step that only reads or shows.
LEMMA ApproveUnseen ==
  ASSUME IInv, NEW r \in Requests, Approve(r)
  PROVE  UNCHANGED Registry!vars
<1>1. \A q \in Requests : \/ status'[q] = status[q]
                          \/ status[q] \in OpenStatus /\ status'[q] \in OpenStatus
  BY DEF Approve, StatusFor, IInv, TypeOK, OpenStatus
<1> QED
  BY <1>1, Unseen DEF Approve

\* A direct change writes one key at once, on the row of that moment.
LEMMA DirectWrites ==
  ASSUME IInv, ReadsInv, NEW w \in Workers, DirectCommit(w)
  PROVE  \E k \in Keys : Registry!Write(k)
<1> DEFINE h == handler[w]
           k == h.key
           new == [lifecycle |-> IF h.operation = "DELETE" THEN "DELETED" ELSE "ACTIVE",
                   version |-> current[k].version + 1, content |-> h.content]
<1>1. /\ k \in Keys /\ h.content \in Contents /\ h.row = current[k] /\ DirectOK(h)
  BY DirectInstalls DEF DirectHandler
<1>2. /\ current' = [j \in Keys |-> IF j \in {k} THEN new ELSE current[j]]
      /\ history' = history \cup {VersionRow(k, h.operation, new, None)}
      /\ UNCHANGED requestVars
  BY <1>1 DEF DirectCommit, IInv, TypeOK
<1>3. h.operation = "DELETE" => current[k].lifecycle = "ACTIVE" /\ h.content = current[k].content
  BY <1>1 DEF DirectOK
<1>4. ASSUME NEW c, h.operation # "DELETE" => c = h.content
      PROVE  Registry!Install({[key |-> k, action |-> h.operation, content |-> c, by |-> None]})
  <2> DEFINE op == [j \in {k} |-> h.operation]
             content == [j \in {k} |-> c]
             by == [j \in {k} |-> None]
  <2>1. RowOf(k, op, content) = new
    BY <1>3, <1>4 DEF RowOf
  <2>2. current' = RowsAfter({k}, op, content)
    BY <1>2, <2>1 DEF RowsAfter
  <2>3. VersionsOf({k}, op, content, by) = {VersionRow(k, h.operation, new, None)}
    BY <2>1 DEF VersionsOf
  <2>4. WritesOf({k}, op, content, by) =
          {[key |-> k, action |-> h.operation, content |-> c, by |-> None]}
    BY DEF WritesOf
  <2> HIDE DEF op, content, by
  <2>5. Registry!Install(WritesOf({k}, op, content, by))
    BY <1>1, <1>2, <2>2, <2>3, InstallWrites
  <2> QED
    BY <2>4, <2>5
<1>5. UNCHANGED <<States, Proposals>>
  BY <1>2 DEF requestVars, States, Proposals
<1>6. \/ \E c \in Contents :
            Registry!Install({[key |-> k,
                               action |-> IF Registry!Active(k) THEN "UPDATE" ELSE "ADD",
                               content |-> c, by |-> None]})
      \/ /\ Registry!Active(k)
         /\ Registry!Install({[key |-> k, action |-> "DELETE", content |-> None, by |-> None]})
  <2>1. CASE h.operation = "DELETE"
    BY <1>3, <1>4, <2>1 DEF Registry!Active
  <2>2. CASE h.operation # "DELETE"
    <3>1. h.operation = IF Registry!Active(k) THEN "UPDATE" ELSE "ADD"
      BY <1>1, <2>2 DEF DirectOK, Registry!Active
    <3>2. Registry!Install({[key |-> k, action |-> h.operation, content |-> h.content,
                             by |-> None]})
      BY <1>4, <2>2
    <3> QED
      BY <1>1, <3>1, <3>2
  <2> QED
    BY <2>1, <2>2
<1>7. Registry!Write(k)
  BY <1>5, <1>6 DEF Registry!Write, States, Proposals, Proposed
<1> QED
  BY <1>1, <1>7

\* An apply writes what its requests propose, one write for each key.
LEMMA ApplyInstallsProposals ==
  ASSUME IInv, ReadsInv, NEW w \in Workers, ApplyCommit(w)
  PROVE  LET ids == handler[w].ids
             touches(r) == {k \in Keys : Proposals[r][k] # None} IN
         Registry!Install(UNION {{[key |-> k, action |-> Proposals[r][k].action,
                                   content |-> Proposals[r][k].content, by |-> r] :
                                    k \in touches(r)} : r \in ids})
<1> DEFINE ids == handler[w].ids
           items == handler[w].items
           K == TouchedKeys(ids, items)
           writer(k) == WriterOf(ids, items, k)
           it(k) == items[writer(k)][k]
           op == [k \in K |-> it(k).action]
           content == [k \in K |-> it(k).content]
           by == [k \in K |-> writer(k)]
           touches(r) == {k \in Keys : Proposals[r][k] # None}
           shared(r, k) == [key |-> k, action |-> Proposals[r][k].action,
                            content |-> Proposals[r][k].content, by |-> r]
           all == UNION {{shared(r, k) : k \in touches(r)} : r \in ids}
<1>1. /\ ids \in SUBSET Requests /\ items = SelectedItems(ids) /\ ValidItems(ids, items)
      /\ \A k \in K : k \in Keys /\ handler[w].rows[k] = current[k]
  BY ApplyInstalls
<1>2. \A r \in ids, k \in Keys : /\ items[r][k] = item[r][k]
                                 /\ Proposals[r][k] = Proposed(items[r][k])
                                 /\ Proposals[r][k] = None <=> items[r][k] = None
  <2>1. ASSUME NEW r \in ids, NEW k \in Keys
        PROVE  items[r][k] = item[r][k] /\ item[r][k] \in Item \cup {None}
               /\ Proposals[r][k] = Proposed(item[r][k])
    BY <1>1 DEF SelectedItems, Proposals, IInv, TypeOK, ItemSet
  <2> QED
    BY <2>1, ProposedType
<1>3. ASSUME NEW k \in K PROVE /\ writer(k) \in ids /\ k \in touches(writer(k))
                               /\ it(k) # None
  BY <1>1, <1>2 DEF TouchedKeys, WriterOf
<1>4. ASSUME NEW r \in ids, NEW k \in touches(r) PROVE k \in K /\ writer(k) = r
  <2>1. items[r][k] # None
    BY <1>2
  <2>2. k \in K
    BY <2>1 DEF TouchedKeys
  <2> QED
    BY <1>1, <1>2, <1>3, <2>1, <2>2 DEF ValidItems
<1>5. ASSUME NEW k \in K PROVE shared(writer(k), k) = [key |-> k, action |-> op[k],
                                                       content |-> content[k], by |-> by[k]]
  <2>1. Proposals[writer(k)][k] = Proposed(it(k))
    BY <1>1, <1>2, <1>3
  <2>2. it(k) # None /\ op[k] = it(k).action /\ content[k] = it(k).content
        /\ by[k] = writer(k)
    BY <1>3
  <2>3. PICK p : p = Proposals[writer(k)][k]
    OBVIOUS
  <2>4. p.action = it(k).action /\ p.content = it(k).content
    <3>1. PICK i : i = it(k)
      OBVIOUS
    <3>2. i # None /\ p = Proposed(i)
      BY <1>3, <2>1, <2>3, <3>1
    <3>3. p.action = i.action /\ p.content = i.content
      BY ONLY <3>2 DEF Proposed
    <3> QED
      BY ONLY <3>1, <3>3
  <2>5. PICK a : a = op[k]
    OBVIOUS
  <2>6. PICK c : c = content[k]
    OBVIOUS
  <2>7. PICK b : b = by[k]
    OBVIOUS
  <2>8. p.action = a /\ p.content = c /\ writer(k) = b
    BY ONLY <2>2, <2>4, <2>5, <2>6, <2>7
  <2> HIDE DEF writer, op, content, by
  <2> QED
    BY ONLY <2>3, <2>5, <2>6, <2>7, <2>8
<1>6. ASSUME NEW k \in K PROVE AppliedRow(it(k), handler[w].rows[k]) = RowOf(k, op, content)
  BY <1>1 DEF AppliedRow, AppliedContent, RowOf
<1>7. current' = RowsAfter(K, op, content)
  <2>1. current' = [k \in Keys |-> IF k \in K THEN AppliedRow(it(k), handler[w].rows[k])
                                              ELSE current[k]]
    BY DEF ApplyCommit
  <2> HIDE DEF K, op, content, it
  <2> QED
    BY <1>6, <2>1 DEF RowsAfter
<1>8. history' = history \cup VersionsOf(K, op, content, by)
  <2> DEFINE row(k) == VersionRow(k, it(k).action, AppliedRow(it(k), handler[w].rows[k]),
                                  writer(k))
             version(k) == VersionRow(k, op[k], RowOf(k, op, content), by[k])
  <2>1. history' = history \cup {row(k) : k \in K}
    BY DEF ApplyCommit
  <2>2. \A k \in K : row(k) = version(k)
    BY <1>6
  <2>3. VersionsOf(K, op, content, by) = {version(k) : k \in K}
    BY DEF VersionsOf
  <2> HIDE DEF row, version, K
  <2> QED
    BY <2>1, <2>2, <2>3
<1>9. all = WritesOf(K, op, content, by)
  <2> DEFINE wr(k) == [key |-> k, action |-> op[k], content |-> content[k], by |-> by[k]]
  <2>1. WritesOf(K, op, content, by) = {wr(k) : k \in K}
    BY DEF WritesOf
  <2>2. \A x : x \in all <=> \E r \in ids : \E k \in touches(r) : x = shared(r, k)
    <3> HIDE DEF shared, touches
    <3> QED
      OBVIOUS
  <2>3. \A k \in K : wr(k) = shared(writer(k), k)
    BY <1>5
  <2> HIDE DEF shared, touches, wr, K, writer, all, ids
  <2>4. \A x \in all : \E k \in K : x = wr(k)
    BY <1>4, <2>2, <2>3
  <2>5. \A k \in K : wr(k) \in all
    BY <1>3, <2>2, <2>3
  <2> QED
    BY <2>1, <2>4, <2>5
<1>10. K \in SUBSET Keys
  BY DEF TouchedKeys
<1> HIDE DEF K, op, content, by
<1>11. Registry!Install(WritesOf(K, op, content, by))
  BY <1>7, <1>8, <1>10, InstallWrites
<1>12. Registry!Install(all)
  <2> HIDE DEF all
  <2> QED
    BY <1>9, <1>11
<1> QED
  BY <1>12

\* An apply applies its selection at once.
LEMMA ApplyApplies ==
  ASSUME IInv, ReadsInv, NEW w \in Workers, ApplyCommit(w)
  PROVE  \E ids \in SUBSET Requests : Registry!Apply(ids)
<1> PICK ids : ids = handler[w].ids
  OBVIOUS
<1> DEFINE items == handler[w].items
           touches(r) == {k \in Keys : Proposals[r][k] # None}
<1>1. /\ ids \in SUBSET Requests /\ ids # {} /\ Selectable(ids)
      /\ items = SelectedItems(ids) /\ ValidItems(ids, items)
      /\ Resolvable(ids, items, current)
  BY ApplyInstalls
<1>2. ASSUME NEW r \in ids, NEW k \in Keys
      PROVE  /\ item[r][k] \in Item \cup {None} /\ items[r][k] = item[r][k]
             /\ Proposals[r][k] = Proposed(item[r][k])
             /\ k \in touches(r) <=> item[r][k] # None
  <2>1. item[r][k] \in Item \cup {None} /\ items[r][k] = item[r][k]
    BY <1>1 DEF SelectedItems, IInv, TypeOK, ItemSet
  <2>2. Proposals[r][k] = Proposed(item[r][k])
    BY <1>1 DEF Proposals
  <2> QED
    BY <2>1, <2>2, ProposedType
<1>3. \A r \in ids : States[r] = "OPEN"
  BY <1>1 DEF Selectable, States, OpenStatus
<1>4. \A r, q \in ids : r # q => touches(r) \cap touches(q) = {}
  BY <1>1, <1>2 DEF ValidItems
<1>5. ASSUME NEW r \in ids, NEW k \in touches(r)
      PROVE  /\ IF Proposals[r][k].action = "ADD" THEN current[k].lifecycle # "ACTIVE"
                ELSE /\ current[k].lifecycle = "ACTIVE"
                     /\ current[k].version = Proposals[r][k].base
             /\ Proposals[r][k].action # "DELETE" => Proposals[r][k].content # None
  <2>1. Proposals[r][k] = [action |-> item[r][k].action, base |-> item[r][k].base,
                           content |-> item[r][k].content]
        /\ items[r][k] = item[r][k] /\ item[r][k] # None
    BY <1>2 DEF Proposed
  <2>2. Fits(items[r][k], current[k]) /\ ~Missing(items[r])
    BY <1>1, <2>1 DEF Resolvable, ValidItems
  <2> QED
    BY <2>1, <2>2 DEF Fits, Missing
<1>6. Registry!Install(UNION {{[key |-> k, action |-> Proposals[r][k].action,
                                content |-> Proposals[r][k].content, by |-> r] :
                                 k \in touches(r)} : r \in ids})
  BY ApplyInstallsProposals
<1>7. /\ States' = [r \in Requests |-> IF r \in ids THEN "APPLIED" ELSE States[r]]
      /\ Proposals' = Proposals
  <2>1. item' = item
        /\ status' = [r \in Requests |-> IF r \in ids THEN "APPLIED" ELSE status[r]]
    BY DEF ApplyCommit
  <2> QED
    BY <2>1 DEF States, Proposals, OpenStatus
<1>8. Registry!Apply(ids)
  BY ONLY <1>1, <1>3, <1>4, <1>5, <1>6, <1>7, ZenonT(60)
     DEF Registry!Apply, Registry!Active, States, Proposals, Proposed
<1> QED
  BY <1>1, <1>8

\* Initially the registry is empty.
LEMMA InitRegistry == Init => Registry!Init
<1> SUFFICES ASSUME Init PROVE Registry!Init
  OBVIOUS
<1>1. \A r \in Requests : States[r] = "ABSENT" /\ Proposals[r] = [k \in Keys |-> None]
  BY DEF Init, States, Proposals, Proposed, NoItems, OpenStatus
<1>2. /\ States = [r \in Requests |-> "ABSENT"]
      /\ Proposals = [r \in Requests |-> [k \in Keys |-> None]]
  BY <1>1 DEF States, Proposals
<1> QED
  BY <1>2 DEF Init, Registry!Init, States, Proposals, Proposed, NoRow

\* Every step is one of the registry, or not seen by it.
LEMMA NextRegistry ==
  ASSUME IInv, ReadsInv, [Next]_vars
  PROVE  [Registry!Next]_Registry!vars
<1>1. ASSUME UNCHANGED <<variableVars, status, item>> PROVE UNCHANGED Registry!vars
  BY <1>1, Unseen
<1>2. ASSUME NEW w \in Workers, Step(w) PROVE [Registry!Next]_Registry!vars
  <2>1. \/ UNCHANGED <<variableVars, status, item>>
        \/ CreateCommit(w) \/ FulfillCommit(w) \/ ApplyCommit(w) \/ DirectCommit(w)
        \/ \E r \in Requests, k \in Keys, c \in Contents : EditCommit(w, r, k, c)
    BY <1>2 DEF Step, SelectionStart, CreatePrepare, FulfillPrepare, LoadRequests,
                LoadItems, LoadCurrentRows, RecordPrepare, DeletePrepare, PreviewCommit,
                Abandon, requestVars, variableVars
  <2>2. CASE CreateCommit(w)
    BY <2>2, CreateSubmits DEF Registry!Next
  <2>3. CASE FulfillCommit(w)
    BY <2>3, FulfillRevises DEF Registry!Next
  <2>4. CASE ApplyCommit(w)
    BY <2>4, ApplyApplies DEF Registry!Next
  <2>5. CASE DirectCommit(w)
    BY <2>5, DirectWrites DEF Registry!Next
  <2>6. ASSUME NEW r \in Requests, NEW k \in Keys, NEW c \in Contents, EditCommit(w, r, k, c)
        PROVE  Registry!Next
    BY <2>6, EditRevises DEF Registry!Next
  <2> QED
    BY <1>1, <2>1, <2>2, <2>3, <2>4, <2>5, <2>6
<1>3. ASSUME NEW r \in Requests, Approve(r) PROVE [Registry!Next]_Registry!vars
  BY <1>3, ApproveUnseen
<1>4. ASSUME NEW r \in Requests, Reject(r) PROVE [Registry!Next]_Registry!vars
  BY <1>4, RejectRejects DEF Registry!Next
<1>5. CASE UNCHANGED vars
  BY <1>1, <1>5 DEF vars, requestVars
<1> QED
  BY <1>2, <1>3, <1>4, <1>5 DEF Next

\* With everything they read before they write, the handlers change the registry as if
\* each change were made at once, on the rows and proposals of that moment.
THEOREM WorkflowImplementsRegistry == Spec => ImplementsRegistry
<1>1. IInv /\ ReadsInv /\ [Next]_vars => [Registry!Next]_Registry!vars
  BY NextRegistry
<1> QED
  BY <1>1, InitRegistry, ReadsInvariant, PTL DEF Spec, ImplementsRegistry, Registry!Spec

================================================================================
