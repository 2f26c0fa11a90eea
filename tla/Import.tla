-------------------------------- MODULE Import ---------------------------------
(***************************************************************************)
(* Recording deployed configuration: an operator uploads a .env file, is   *)
(* shown a review of its keys across the App's environments, and commits   *)
(* the sealed preview up to 30 minutes later.  Beside it run direct        *)
(* writes, change requests and the coordinated edit of one key in every    *)
(* environment.  The file goes through Dotenv!Parse; an export, through    *)
(* Dotenv!Render.                                                          *)
(*                                                                         *)
(* The preview token is sealed to user, session and environment, so it is  *)
(* a value the server can trust; a browser may submit it again.  Writes    *)
(* whose compare-and-swap makes them atomic (RequestWorkflow has their     *)
(* steps) are one action here.  Left out: types, descriptions, positions   *)
(* and the DEK check of the import (DekRotation has the keys).             *)
(***************************************************************************)
EXTENDS Dotenv, FiniteSets

CONSTANTS
  Environments,     \* the environments of one App
  Texts,            \* files operators may upload, besides exports
  Values,           \* values of direct writes
  Groups,           \* group names of direct writes
  EditedKeys,       \* bound: keys that others than imports write or request
  Tokens,           \* previews that may ever be shown
  Workers,          \* handlers in flight
  Editors,          \* bound: the handlers that serve coordinated edits
  MaxWrites,        \* bound: versions written by others than imports
  MaxVersion,       \* bound: no import starts beyond this version
  MaxRequests,      \* bound: submissions of change requests
  None

ASSUME ImportAssumption ==
  /\ MaxWrites \in Nat /\ MaxVersion \in Nat /\ MaxRequests \in Nat
  /\ EditedKeys \subseteq Keys /\ Editors \subseteq Workers
  /\ IsFiniteSet(Keys) /\ Environments # {}
  /\ \A s \in Texts \cup Values \cup Groups : s \in Seq(ToSet(s))

VARIABLES
  row,        \* variables, by environment and key
  open,       \* items of open change requests
  archived,   \* environments with archived_at
  token,      \* previews in browsers
  request,    \* what each handler has read
  writes,     \* counts direct writes
  opened,     \* counts submissions; the requests of one have its number
  recorded    \* history: imports each preview has committed, no-ops aside

vars == <<row, open, archived, token, request, writes, opened, recorded>>

Visibility == {"public", "restricted"}
Idle == [at |-> "idle"]
NoPreview == [at |-> "none"]
NoRow == [ver |-> 0, live |-> FALSE]

\* Texts of the tokens of all files and writes, and of the format.
UsedTokens == UNION {ToSet(s) : s \in Texts \cup Values \cup Groups}
Alphabet == UsedTokens \cup Keys \cup Marks
Strings == Seq(Alphabet)

\* The value of an OPERATOR_PROVIDED item.
Operator == <<"operator">>

\* The columns that reviews and snapshots compare; live is lifecycle_status = ACTIVE.
IsRow(r) ==
  r \in [ver : Nat \ {0}, vis : Visibility, live : BOOLEAN, value : Strings, group : Strings]

TypeOK ==
  /\ \A e \in Environments, k \in Keys : row[e][k] = NoRow \/ IsRow(row[e][k])
  /\ \A i \in open : /\ i.id \in 1..opened /\ i.env \in Environments /\ i.key \in Keys
                     /\ i.vis \in Visibility /\ i.value \in Strings \cup {Operator}
                     /\ i.base = 0 \/ i.base \in 1..row[i.env][i.key].ver
  /\ archived \subseteq Environments /\ archived # Environments
  /\ writes \in 0..MaxWrites /\ opened \in Nat
  /\ recorded \in [Tokens -> Nat]

Init ==
  /\ row = [e \in Environments |-> [k \in Keys |-> NoRow]]
  /\ open = {} /\ archived = {}
  /\ token = [t \in Tokens |-> NoPreview]
  /\ request = [w \in Workers |-> Idle]
  /\ writes = 0 /\ opened = 0
  /\ recorded = [t \in Tokens |-> 0]

Live(e, k) == row[e][k].live
Version(e, k) == row[e][k].ver
Current(e, k) == IF Live(e, k) THEN row[e][k] ELSE NoRow
Forward(w, r) == request' = [request EXCEPT ![w] = r]
Done(w) == Forward(w, Idle)

\* persist_applied_in_transaction: insert, update or revive, always the next version.
UnversionedRow(e, k, vis, value, group) ==
  [ver |-> Version(e, k), vis |-> vis, value |-> value, group |-> group, live |-> TRUE]
NewRow(e, k, vis, value, group) ==
  [ver |-> Version(e, k) + 1, vis |-> vis, value |-> value, group |-> group, live |-> TRUE]

--------------------------------------------------------------------------------
(* Export.                                                                      *)

\* export_environment: the active rows, in some order.
Entries(e) ==
  LET live == SetToSeq({k \in Keys : Live(e, k)})
  IN [i \in DOMAIN live |-> [key |-> live[i], value |-> row[e][live[i]].value,
                             group |-> row[e][live[i]].group]]
Export(e) == Render(Entries(e))

--------------------------------------------------------------------------------
(* Review.                                                                      *)

\* import_review::load, for one key: the rows of every environment of the App, and
\* the open items that name it.  An item without a visibility takes the row's.
References(k) ==
  [rows |-> [e \in Environments |->
               IF row[e][k].ver = 0 THEN [ver |-> 0, active |-> FALSE]
               ELSE [ver |-> row[e][k].ver, vis |-> row[e][k].vis,
                     active |-> e \notin archived /\ row[e][k].live]],
   items |-> {[id |-> i.id, env |-> i.env, vis |-> i.vis, active |-> i.env \notin archived] :
                i \in {j \in open : j.key = k}}]

\* review: current rows decide the visibility; they conflict when they disagree, and
\* with an open item here, or one elsewhere that proposes another visibility.
CurrentVisibilities(refs) ==
  {refs.rows[e].vis : e \in {f \in Environments : refs.rows[f].active}}
Known(refs) == IF CurrentVisibilities(refs) = {} THEN "restricted"
               ELSE CHOOSE v \in CurrentVisibilities(refs) : TRUE
ConflictIgnoringRequests(refs, e) == Cardinality(CurrentVisibilities(refs)) > 1
Conflict(refs, e) ==
  \/ Cardinality(CurrentVisibilities(refs)) > 1
  \/ \E i \in refs.items : i.active /\ (i.env = e \/ i.vis # Known(refs))
LockedKey(refs) ==
  CurrentVisibilities(refs) # {} \/ \E i \in refs.items : i.active

\* import_preview.  A file with an issue, or an archived environment, is refused.
Preview(t, e, text) ==
  LET file == Parse(text)
      keys == {file.entries[i].key : i \in DOMAIN file.entries}
  IN
  /\ token[t] = NoPreview
  /\ e \notin archived
  /\ file.ok
  /\ token' = [token EXCEPT ![t] = [at |-> "shown", env |-> e, entries |-> file.entries,
                                    review |-> [k \in keys |-> References(k)]]]
  /\ UNCHANGED <<row, open, archived, request, writes, opened, recorded>>

--------------------------------------------------------------------------------
(* Commit: import_commit and import_applied_reviewed.                           *)

\* The group field of the form starts with the file's group, else the current one.
ShownGroup(e, entry) ==
  IF entry.group = << >> /\ Live(e, entry.key) THEN row[e][entry.key].group ELSE entry.group

\* import_is_unchanged
Unchanged(e, k, write) ==
  /\ Live(e, k)
  /\ row[e][k].vis = write.vis /\ row[e][k].value = write.value /\ row[e][k].group = write.group

\* import_applied_reviewed: at least one entry and not too many; valid keys, none twice.
Admitted(entries) ==
  /\ Cardinality(DOMAIN entries) \in 1..MaxEntries
  /\ \A i \in DOMAIN entries : entries[i].key \in Keys
  /\ \A i, j \in DOMAIN entries : entries[i].key = entries[j].key => i = j

Prepare(w, t, vis, clear) ==
  LET p == token[t]
      e == p.env
      write(i) == [key |-> p.entries[i].key, value |-> p.entries[i].value,
                   vis |-> vis[p.entries[i].key],
                   group |-> IF clear THEN << >> ELSE ShownGroup(e, p.entries[i])]
  IN
  /\ request[w] = Idle
  /\ e \notin archived
  /\ Admitted(p.entries)
  /\ \A i \in DOMAIN p.entries : Version(e, p.entries[i].key) < MaxVersion
  /\ Forward(w, [at |-> "import", token |-> t, env |-> e,
                 writes |-> [i \in DOMAIN p.entries |->
                               [write |-> write(i),
                                snapshot |-> Current(e, p.entries[i].key),
                                unchanged |-> Unchanged(e, p.entries[i].key, write(i))]]])
  /\ UNCHANGED <<row, open, archived, token, writes, opened, recorded>>

\* Inside the transaction: the review is the one shown, nothing conflicts and known
\* visibilities are kept, and every row is the one that was prepared from.
ReviewIgnored(p) == TRUE
ReviewHolds(p) == \A k \in DOMAIN p.review : References(k) = p.review[k]

Acceptable(e, write) ==
  LET refs == References(write.key)
  IN ~Conflict(refs, e) /\ (LockedKey(refs) => write.vis = Known(refs))

\* The writes that change something, and the row that they make of a key.
Changing(r) == {i \in DOMAIN r.writes : ~r.writes[i].unchanged}
WritesOf(r, k) == {i \in Changing(r) : r.writes[i].write.key = k}
Imported(r, k) == LET d == r.writes[CHOOSE i \in WritesOf(r, k) : TRUE].write
                  IN NewRow(r.env, k, d.vis, d.value, d.group)

CommitImport(w) ==
  LET r == request[w]
      e == r.env
  IN
  /\ r.at = "import"
  /\ e \notin archived
  /\ ReviewHolds(token[r.token])
  /\ \A i \in DOMAIN r.writes : /\ Acceptable(e, r.writes[i].write)
                                /\ Current(e, r.writes[i].write.key) = r.writes[i].snapshot
  /\ row' = [row EXCEPT ![e] =
               [k \in Keys |-> IF WritesOf(r, k) # {} THEN Imported(r, k) ELSE row[e][k]]]
  /\ recorded' = [recorded EXCEPT ![r.token] = @ + IF Changing(r) = {} THEN 0 ELSE 1]
  /\ Done(w)
  /\ UNCHANGED <<open, archived, token, writes, opened>>

Abandon(w) ==
  /\ request[w] # Idle
  /\ Done(w)
  /\ UNCHANGED <<row, open, archived, token, writes, opened, recorded>>

--------------------------------------------------------------------------------
(* The rest of the App, as far as reviews see it.                               *)

\* record_applied and delete_applied
DirectWrite(e, k, vis, value, group) ==
  /\ e \notin archived /\ writes < MaxWrites
  /\ row' = [row EXCEPT ![e][k] = NewRow(e, k, vis, value, group)]
  /\ writes' = writes + 1
  /\ UNCHANGED <<open, archived, token, request, opened, recorded>>

DirectDelete(e, k) ==
  /\ e \notin archived /\ writes < MaxWrites
  /\ Live(e, k)
  /\ row' = [row EXCEPT ![e][k].ver = @ + 1, ![e][k].live = FALSE]
  /\ writes' = writes + 1
  /\ UNCHANGED <<open, archived, token, request, opened, recorded>>

\* requests::create of one item: UPDATE of an active key, or ADD.
Item(id, e, k, vis, value) ==
  [id |-> id, env |-> e, key |-> k, vis |-> vis, value |-> value,
   base |-> IF Live(e, k) THEN Version(e, k) ELSE 0]

OpenRequest(e, k, vis, value) ==
  /\ e \notin archived /\ opened < MaxRequests
  /\ open' = open \cup {Item(opened + 1, e, k, vis, value)}
  /\ opened' = opened + 1
  /\ UNCHANGED <<row, archived, token, request, writes, recorded>>

\* reject or cancel
CloseRequest(i) ==
  /\ open' = open \ {i}
  /\ UNCHANGED <<row, archived, token, request, writes, opened, recorded>>

\* mark_applied: the base version must still be the current one.  fulfilled is the value
\* fulfill_value has stored for an item that asked for one.
ApplyRequest(i, fulfilled) ==
  /\ i.env \notin archived /\ writes < MaxWrites
  /\ IF i.base = 0 THEN ~Live(i.env, i.key)
     ELSE Live(i.env, i.key) /\ Version(i.env, i.key) = i.base
  /\ row' = [row EXCEPT ![i.env][i.key] =
               NewRow(i.env, i.key, i.vis,
                      IF i.value = Operator THEN fulfilled ELSE i.value,
                      IF Live(i.env, i.key) THEN row[i.env][i.key].group ELSE << >>)]
  /\ open' = open \ {i}
  /\ writes' = writes + 1
  /\ UNCHANGED <<archived, token, request, opened, recorded>>

\* environments::set_archived
Archive(e) ==
  /\ e \notin archived /\ archived \cup {e} # Environments
  /\ \A i \in open : i.env # e
  /\ archived' = archived \cup {e}
  /\ UNCHANGED <<row, open, token, request, writes, opened, recorded>>

Restore(e) ==
  /\ e \in archived
  /\ archived' = archived \ {e}
  /\ UNCHANGED <<row, open, token, request, writes, opened, recorded>>

--------------------------------------------------------------------------------
(* create_shared_inline_edit: one key, in every environment that has it.        *)

Targets(k) == {e \in Environments \ archived : Live(e, k)}

\* Snapshot::load
SnapshotOf(k) == [targets |-> [e \in Targets(k) |-> row[e][k]],
                  items |-> {[id |-> i.id, vis |-> i.vis] :
                               i \in {j \in open : j.key = k /\ j.env \notin archived}}]

\* create_changed: an environment is skipped when its value is kept, or submitted as it
\* is while every row is public, and the visibility does not change.  None submits
\* KEEP_CURRENT; Operator, OPERATOR_PROVIDED.
AllPublic(rows) == \A e \in DOMAIN rows : rows[e].vis = "public"
Same(rows, e, value) == value[e] = None \/ (AllPublic(rows) /\ value[e] = rows[e].value)
ChangedIn(rows, vis, value) ==
  {e \in DOMAIN rows : rows[e].vis # vis \/ ~Same(rows, e, value)}

\* A masked value that is kept is left for the reviewer to supply.
Proposed(rows, e, value) == IF value[e] # None THEN value[e]
                            ELSE IF AllPublic(rows) THEN rows[e].value ELSE Operator

\* comparison_for_service: the page the edit starts from shows the values of a key
\* that is public in every environment.
ShownByRow(rows, e) == IF rows[e].vis = "public" THEN rows[e].value ELSE None
Shown(rows, e) == IF AllPublic(rows) THEN rows[e].value ELSE None

OpenPage(w, k) ==
  LET rows == SnapshotOf(k).targets IN
  /\ request[w] = Idle
  /\ Targets(k) # {}
  /\ Forward(w, [at |-> "page", key |-> k,
                 cells |-> [e \in Targets(k) |-> [ver |-> rows[e].ver, value |-> Shown(rows, e)]]])
  /\ UNCHANGED <<row, open, archived, token, writes, opened, recorded>>

\* The form carries the environments and versions of the page; they must be the
\* current ones.
PrepareShared(w, vis, value) ==
  LET r == request[w] IN
  /\ DOMAIN r.cells = Targets(r.key)
  /\ \A e \in Targets(r.key) : r.cells[e].ver = Version(e, r.key)
  /\ Forward(w, [at |-> "shared", key |-> r.key, vis |-> vis, value |-> value,
                 cells |-> r.cells, snapshot |-> SnapshotOf(r.key)])
  /\ UNCHANGED <<row, open, archived, token, writes, opened, recorded>>

\* persist_shared_requests: the snapshot is validated, then all requests are inserted.
SnapshotIgnored(r) == TRUE
SnapshotHolds(r) == r.snapshot = SnapshotOf(r.key)

PersistShared(w) ==
  LET r == request[w]
      rows == r.snapshot.targets
      changed == ChangedIn(rows, r.vis, r.value)
  IN
  /\ r.at = "shared"
  /\ opened < MaxRequests
  /\ SnapshotHolds(r)
  /\ open' = open \cup {[id |-> opened + 1, env |-> e, key |-> r.key, vis |-> r.vis,
                         value |-> Proposed(rows, e, r.value), base |-> rows[e].ver] : e \in changed}
  /\ opened' = opened + 1
  /\ Done(w)
  /\ UNCHANGED <<row, archived, token, writes, recorded>>

--------------------------------------------------------------------------------

Deployed(w) ==
  \/ \E t \in Tokens, vis \in [Keys -> Visibility], clear \in BOOLEAN :
       token[t] # NoPreview /\ Prepare(w, t, vis, clear)
  \/ CommitImport(w)
  \/ Abandon(w)

SharedEdit(w) ==
  \/ \E k \in EditedKeys : OpenPage(w, k)
  \/ /\ request[w].at = "page"
     /\ \E vis \in Visibility :
          \E value \in [DOMAIN request[w].cells -> Values \cup {None, Operator}] :
            PrepareShared(w, vis, value)
  \/ PersistShared(w)

Others ==
  \/ \E e \in Environments, k \in EditedKeys, vis \in Visibility, value \in Values :
       \/ \E group \in Groups : DirectWrite(e, k, vis, value, group)
       \/ OpenRequest(e, k, vis, value)
  \/ \E e \in Environments, k \in EditedKeys : DirectDelete(e, k)
  \/ \E i \in open : CloseRequest(i) \/ \E v \in Values : ApplyRequest(i, v)
  \/ \E e \in Environments : Archive(e) \/ Restore(e)

Next ==
  \/ \E t \in {u \in Tokens : token[u] = NoPreview}, e \in Environments :
       \E text \in Texts \cup {Export(f) : f \in Environments} : Preview(t, e, text)
  \/ \E w \in Workers : Deployed(w)
  \/ \E w \in Editors : SharedEdit(w)
  \/ Others

Spec == Init /\ [][Next]_vars

--------------------------------------------------------------------------------
(* Properties.                                                                  *)

\* A preview that is submitted again, or late, never records a second change: the
\* sealed review goes stale with the first one (docs/security-model.md, "stale
\* encrypted preview snapshots reject the batch").
RecordedOnce == \A t \in Tokens : recorded[t] <= 1

\* When an import has written a key, every active environment of the App agrees on its
\* visibility, and no open request in that environment is about it.
ImportsAgree ==
  [][\A w \in Workers :
       request[w].at = "import" /\ row' # row /\ request'[w] = Idle =>
         \A k \in Keys : row'[request[w].env][k] # row[request[w].env][k] =>
           /\ \A e, f \in Environments \ archived :
                row'[e][k].live /\ row'[f][k].live => row'[e][k].vis = row'[f][k].vis
           /\ \A i \in open : i.env = request[w].env => i.key # k]_vars

\* What a file can hold: no more entries than MAX_ENTRIES, and groups that a heading
\* preserves.  validate_display_order refuses positions from MAX_ENTRIES on, but requests
\* that are open together may propose the same one, so the code does not ensure the first.
Exportable ==
  /\ Cardinality(Keys) <= MaxEntries
  /\ Groups \subseteq Kept(Alphabet)
  /\ \A text \in Texts :
       LET file == Parse(text) IN
       file.ok => \A i \in DOMAIN file.entries : file.entries[i].group \in Kept(Alphabet)

\* Whatever has been recorded, what an environment exports can be recorded again and is
\* the same: quotes, backslashes, line breaks and blanks survive (docs/architecture.md,
\* "a fully identical import adds no change event").  Stated while no handler runs and no
\* request is open: every handler may be abandoned and every request closed, so no rows
\* are missed.
ExportReimports ==
  (open = {} /\ \A w \in Workers : request[w] = Idle) =>
    \A e \in Environments :
      Entries(e) # << >> =>
        LET back == Parse(Export(e)) IN back.ok /\ ToSet(back.entries) = ToSet(Entries(e))

\* The requests of a coordinated edit appear together, one for each environment whose
\* current row the edit changes, and are based on the rows of that very moment.
SharedEditCurrent ==
  [][\A w \in Workers :
       LET r == request[w] IN
       r.at = "shared" /\ open' # open /\ request'[w] = Idle =>
         /\ {i.env : i \in open' \ open} = ChangedIn(SnapshotOf(r.key).targets, r.vis, r.value)
         /\ \A i \in open' \ open : i.base = Version(i.env, i.key)]_vars

\* An edit is compared with the current values exactly when its page showed them:
\* whoever could not see a value cannot learn from a skipped environment that it is
\* equal to a guess (shared::create_changed, "Match the current-value projection used
\* by the comparison page").
EditComparesWhatPageShowed ==
  [][\A w \in Workers :
       LET r == request[w] IN
       r.at = "shared" /\ opened' # opened /\ request'[w] = Idle =>
         LET rows == SnapshotOf(r.key).targets IN
         \A e \in DOMAIN r.cells :
           r.cells[e].value = IF AllPublic(rows) THEN row[e][r.key].value ELSE None]_vars

================================================================================
