------------------------------ MODULE ImportProofs ------------------------------
(***************************************************************************)
(* Proofs about Import, for any environments, keys, files and handlers.    *)
(*                                                                         *)
(* A row is replaced only by one of a higher version (Grows).  So what a   *)
(* browser or a handler has seen is either current or recognisably not: a  *)
(* preview that recorded a change is stale for good (OnceOK), and a        *)
(* comparison page whose versions are current shows current values         *)
(* (RequestOK).  So far nothing depends on what the parser makes of a file.*)
(*                                                                         *)
(* A second invariant (ContentInv) says that what is stored or in flight   *)
(* is text, with group names of a set G: all strings for the types, those  *)
(* that a heading preserves for exports.  It needs files that bring in no  *)
(* others (FilesHold), and files, exports among them, come from the rows:  *)
(* DotenvProofs says what can be read from a file, and from an export.     *)
(***************************************************************************)
EXTENDS Import, DotenvProofs

\* The columns the proofs look at; live rows have been written.
RowOK(r) == r = NoRow \/ /\ r.ver \in Nat \ {0}
                         /\ r.vis \in Visibility
                         /\ r.live \in BOOLEAN

RowsOK ==
  /\ DOMAIN row = Environments
  /\ \A e \in Environments : DOMAIN row[e] = Keys
  /\ \A e \in Environments, k \in Keys : RowOK(row[e][k])

\* Every open item was numbered when it was submitted.
ItemsOK ==
  /\ opened \in Nat
  /\ \A i \in open : /\ i.id \in 1..opened /\ i.env \in Environments /\ i.key \in Keys
                     /\ i.vis \in Visibility

\* A preview reviews every key of its file.
PreviewOK(p) ==
  p = NoPreview \/ /\ p.at = "shown" /\ p.env \in Environments
                   /\ \A i \in DOMAIN p.entries : p.entries[i].key \in DOMAIN p.review

TokensOK == DOMAIN token = Tokens /\ \A t \in Tokens : PreviewOK(token[t])

\* An import in flight writes keys that its preview has reviewed.
FromPreview(r, previews) ==
  /\ r.token \in Tokens /\ previews[r.token] # NoPreview
  /\ r.env = previews[r.token].env
  /\ \A i \in DOMAIN r.writes :
       /\ r.writes[i].write.key \in Keys \cap DOMAIN previews[r.token].review
       /\ r.writes[i].write.vis \in Visibility

\* A comparison page shows no version of the future, and while its versions are the
\* current ones it shows the current values, if all of them are public.
AsShown(cells, rows, k) ==
  \A e \in DOMAIN cells :
    cells[e].value = IF \A f \in DOMAIN cells : rows[f][k].vis = "public"
                     THEN rows[e][k].value ELSE None

FromPage(r, rows) ==
  /\ r.key \in Keys /\ DOMAIN r.cells \subseteq Environments
  /\ \A e \in DOMAIN r.cells : r.cells[e].ver \in Nat /\ r.cells[e].ver <= rows[e][r.key].ver
  /\ (\A e \in DOMAIN r.cells : r.cells[e].ver = rows[e][r.key].ver) => AsShown(r.cells, rows, r.key)

\* A coordinated edit in flight has the versions of its page.
FromEdit(r) ==
  /\ r.vis \in Visibility
  /\ DOMAIN r.snapshot.targets = DOMAIN r.cells
  /\ \A e \in DOMAIN r.cells : r.snapshot.targets[e].ver = r.cells[e].ver

RequestOK(r, previews, rows) ==
  /\ r.at \in {"idle", "import", "page", "shared"}
  /\ r.at = "import" => FromPreview(r, previews)
  /\ r.at \in {"page", "shared"} => FromPage(r, rows)
  /\ r.at = "shared" => FromEdit(r)

RequestsOK ==
  DOMAIN request = Workers /\ \A w \in Workers : RequestOK(request[w], token, row)

\* A preview that has recorded a change has reviewed a row that is no longer current.
Spent(p, rows) ==
  /\ p # NoPreview
  /\ \E k \in Keys \cap DOMAIN p.review :
       /\ p.review[k].rows[p.env].ver \in Nat
       /\ p.review[k].rows[p.env].ver < rows[p.env][k].ver

OnceOK ==
  /\ DOMAIN recorded = Tokens
  /\ \A t \in Tokens : recorded[t] = 0 \/ (recorded[t] = 1 /\ Spent(token[t], row))

\* The inductive invariant.
IInv == RowsOK /\ ItemsOK /\ TokensOK /\ RequestsOK /\ OnceOK

--------------------------------------------------------------------------------
(* Rows.                                                                        *)

\* A row is kept or replaced by one of a higher version.
Grows(rows, next) ==
  \A e \in Environments, k \in Keys :
    next[e][k] = rows[e][k] \/ rows[e][k].ver < next[e][k].ver

\* What RowsOK says of one row.
LEMMA RowFacts ==
  ASSUME RowsOK, NEW e \in Environments, NEW k \in Keys
  PROVE  /\ row[e][k].ver \in Nat /\ row[e][k].live \in BOOLEAN
         /\ row[e][k].live => row[e][k].ver # 0 /\ row[e][k].vis \in Visibility
         /\ row[e][k].ver # 0 => row[e][k].vis \in Visibility
<1>1. RowOK(row[e][k])
  BY DEF RowsOK
<1>2. CASE row[e][k] = NoRow
  <2>1. row[e][k].ver = 0 /\ 0 \in Nat
    BY <1>2 DEF NoRow
  <2>2. ~row[e][k].live /\ row[e][k].live \in BOOLEAN
    BY <1>2 DEF NoRow
  <2> QED
    BY <2>1, <2>2
<1>3. CASE row[e][k] # NoRow
  BY <1>1, <1>3 DEF RowOK
<1> QED
  BY <1>2, <1>3

\* The next version of a row is a row.
LEMMA NextVersion ==
  ASSUME NEW n \in Nat, NEW r, r.ver = n + 1, r.vis \in Visibility, r.live \in BOOLEAN
  PROVE  RowOK(r)
<1>1. r.ver \in Nat \ {0}
  OBVIOUS
<1> QED
  BY <1>1 DEF RowOK

\* Recording, updating or reviving a key: one row is replaced by its next version.
SetRow(e, k, r) == row' = [row EXCEPT ![e][k] = r]

\* Such a replacement keeps the rows well formed, and rows grow.
LEMMA RowSet ==
  ASSUME RowsOK, NEW e \in Environments, NEW k \in Keys, NEW r,
         SetRow(e, k, r), RowOK(r), row[e][k].ver < r.ver
  PROVE  RowsOK' /\ Grows(row, row')
<1>1. DOMAIN row' = Environments
  BY DEF SetRow, RowsOK
<1>2. \A f \in Environments, j \in Keys :
        row'[f][j] = IF f = e /\ j = k THEN r ELSE row[f][j]
  BY DEF SetRow, RowsOK
<1>3. \A f \in Environments : DOMAIN row'[f] = Keys
  BY DEF SetRow, RowsOK
<1> QED
  BY <1>1, <1>2, <1>3 DEF RowsOK, Grows

\* What a review shows of a row: its version and, when it is in use, its visibility.
LEMMA ReviewedRow ==
  ASSUME RowsOK, NEW e \in Environments, NEW k \in Keys
  PROVE  /\ References(k).rows[e].ver = row[e][k].ver
         /\ References(k).rows[e].active <=> e \notin archived /\ Live(e, k)
         /\ Live(e, k) => References(k).rows[e].vis = row[e][k].vis
<1>1. References(k).rows[e] = IF row[e][k].ver = 0 THEN [ver |-> 0, active |-> FALSE]
                              ELSE [ver |-> row[e][k].ver, vis |-> row[e][k].vis,
                                    active |-> e \notin archived /\ row[e][k].live]
  BY DEF References
<1>2. CASE row[e][k].ver = 0
  <2>1. ~Live(e, k)
    BY <1>2, RowFacts DEF Live
  <2>2. References(k).rows[e].ver = 0 /\ ~References(k).rows[e].active
    BY <1>1, <1>2
  <2> QED
    BY <1>2, <2>1, <2>2
<1>3. CASE row[e][k].ver # 0
  <2>1. References(k).rows[e] =
          [ver |-> row[e][k].ver, vis |-> row[e][k].vis,
           active |-> e \notin archived /\ row[e][k].live]
    BY <1>1, <1>3
  <2>2. /\ References(k).rows[e].ver = row[e][k].ver
        /\ References(k).rows[e].vis = row[e][k].vis
    BY <2>1
  <2>3. References(k).rows[e].active = (e \notin archived /\ row[e][k].live)
    BY <2>1
  <2>4. References(k).rows[e].active <=> e \notin archived /\ row[e][k].live
    BY <2>3, Zenon
  <2> QED
    BY <2>2, <2>4 DEF Live
<1> QED
  BY <1>2, <1>3

\* What a page has shown stays marked when rows grow: values are current while all
\* versions are.
LEMMA PageAges ==
  ASSUME RowsOK, NEW next, Grows(row, next),
         \A e \in Environments, k \in Keys : next[e][k].ver \in Nat,
         NEW r, FromPage(r, row)
  PROVE  FromPage(r, next)
<1>1. \A e \in DOMAIN r.cells : r.cells[e].ver \in Nat /\ r.cells[e].ver <= next[e][r.key].ver
  BY RowFacts DEF FromPage, Grows
<1>2. ASSUME \A e \in DOMAIN r.cells : r.cells[e].ver = next[e][r.key].ver
      PROVE  AsShown(r.cells, next, r.key)
  <2>1. \A e \in DOMAIN r.cells : next[e][r.key] = row[e][r.key]
    BY <1>2, RowFacts DEF FromPage, Grows
  <2> QED
    BY <1>2, <2>1 DEF FromPage, AsShown
<1> QED
  BY <1>1, <1>2 DEF FromPage

\* Requests and spent previews survive rows that grow.
LEMMA RowsAge ==
  ASSUME RowsOK, RowsOK', Grows(row, row')
  PROVE  /\ \A r, previews : RequestOK(r, previews, row) => RequestOK(r, previews, row')
         /\ \A t \in Tokens : PreviewOK(token[t]) /\ Spent(token[t], row) => Spent(token[t], row')
<1> PICK next : next = row'
  OBVIOUS
<1>1. \A e \in Environments, k \in Keys : next[e][k].ver \in Nat
  BY DEF RowsOK, RowOK, NoRow
<1>2. ASSUME NEW r, FromPage(r, row)
      PROVE  FromPage(r, row')
  BY <1>1, <1>2, PageAges
<1>3. ASSUME NEW t \in Tokens, PreviewOK(token[t]), Spent(token[t], row)
      PROVE  Spent(token[t], row')
  <2>1. PICK k \in Keys \cap DOMAIN token[t].review :
          /\ token[t].review[k].rows[token[t].env].ver \in Nat
          /\ token[t].review[k].rows[token[t].env].ver < row[token[t].env][k].ver
    BY <1>3 DEF Spent
  <2>2. token[t].env \in Environments
    BY <1>3 DEF PreviewOK, Spent
  <2>3. token[t].review[k].rows[token[t].env].ver < row'[token[t].env][k].ver
    <3>1. PICK e \in Environments : e = token[t].env
      BY <2>2
    <3>2. PICK n : n = token[t].review[k].rows[e].ver
      OBVIOUS
    <3>3. n \in Nat /\ n < row[e][k].ver
      BY <2>1, <3>1, <3>2
    <3>4. row[e][k].ver \in Nat /\ row'[e][k].ver \in Nat
          /\ (row'[e][k] = row[e][k] \/ row[e][k].ver < row'[e][k].ver)
      BY <1>1, RowFacts DEF Grows
    <3>5. n < row'[e][k].ver
      BY ONLY <3>3, <3>4
    <3> QED
      BY ONLY <3>1, <3>2, <3>5
  <2> QED
    BY <1>3, <2>1, <2>3 DEF Spent
<1> QED
  BY <1>2, <1>3 DEF RequestOK

--------------------------------------------------------------------------------
(* Handlers.                                                                    *)

\* At first nothing is recorded, shown or in flight.
LEMMA InitIInv == Init => IInv
<1> SUFFICES ASSUME Init PROVE IInv
  OBVIOUS
<1>1. RowsOK
  BY DEF Init, RowsOK, RowOK
<1>2. ItemsOK
  BY DEF Init, ItemsOK
<1>3. TokensOK
  BY DEF Init, TokensOK, PreviewOK
<1>4. RequestsOK
  BY DEF Init, RequestsOK, RequestOK, Idle
<1>5. OnceOK
  BY DEF Init, OnceOK
<1> QED
  BY <1>1, <1>2, <1>3, <1>4, <1>5 DEF IInv

\* A step that only moves a handler keeps the invariant when the handler's new state is
\* right.
LEMMA HandlerStep ==
  ASSUME IInv, NEW w \in Workers, NEW r, Forward(w, r), RequestOK(r, token, row),
         UNCHANGED <<row, open, token, opened, recorded>>
  PROVE  IInv'
<1>1. RequestsOK'
  BY DEF Forward, IInv, RequestsOK
<1> QED
  BY <1>1 DEF IInv, RowsOK, ItemsOK, TokensOK, OnceOK

\* An idle handler asks nothing of the rest of the state.
LEMMA IdleOK == ASSUME NEW p, NEW rows PROVE RequestOK(Idle, p, rows)
BY DEF RequestOK, Idle

\* import_preview: the review covers the keys of the file, and no preview that a
\* handler reads is replaced.
LEMMA PreviewStep ==
  ASSUME IInv, NEW t \in Tokens, NEW e \in Environments, NEW text, Preview(t, e, text)
  PROVE  IInv'
<1>1. PICK file : file = Parse(text)
  OBVIOUS
<1>2. PICK keys : keys = {file.entries[i].key : i \in DOMAIN file.entries}
  OBVIOUS
<1>3. PICK p : p = [at |-> "shown", env |-> e, entries |-> file.entries,
                    review |-> [k \in keys |-> References(k)]]
  OBVIOUS
<1>4. /\ token[t] = NoPreview
      /\ token' = [token EXCEPT ![t] = p]
      /\ UNCHANGED <<row, open, archived, request, writes, opened, recorded>>
  BY <1>1, <1>2, <1>3 DEF Preview
<1>5. PreviewOK(p)
  BY <1>2, <1>3 DEF PreviewOK
<1>6. TokensOK'
  BY <1>4, <1>5 DEF IInv, TokensOK
<1>7. ASSUME NEW u \in Tokens, token[u] # NoPreview
      PROVE  token'[u] = token[u]
  BY <1>4, <1>7 DEF IInv, TokensOK
<1>8. RequestsOK'
  <2>1. ASSUME NEW r, FromPreview(r, token)
        PROVE  FromPreview(r, token')
    BY <2>1, <1>7 DEF FromPreview
  <2> QED
    BY <1>4, <2>1 DEF IInv, RequestsOK, RequestOK
<1>9. OnceOK'
  BY <1>4, <1>7 DEF IInv, OnceOK, Spent
<1> QED
  BY <1>4, <1>6, <1>8, <1>9 DEF IInv, RowsOK, ItemsOK

\* import_commit before its transaction: the handler writes keys of its preview.
LEMMA PrepareStep ==
  ASSUME IInv, NEW w \in Workers, NEW t \in Tokens, NEW vis \in [Keys -> Visibility],
         NEW clear \in BOOLEAN, token[t] # NoPreview, Prepare(w, t, vis, clear)
  PROVE  IInv'
<1>1. PICK p : p = token[t]
  OBVIOUS
<1>2. PreviewOK(p) /\ p # NoPreview
  BY <1>1 DEF IInv, TokensOK
<1> DEFINE write(i) == [key |-> p.entries[i].key, value |-> p.entries[i].value,
                        vis |-> vis[p.entries[i].key],
                        group |-> IF clear THEN << >> ELSE ShownGroup(p.env, p.entries[i])]
           ws == [i \in DOMAIN p.entries |->
                    [write |-> write(i), snapshot |-> Current(p.env, p.entries[i].key),
                     unchanged |-> Unchanged(p.env, p.entries[i].key, write(i))]]
<1>3. PICK r : r = [at |-> "import", token |-> t, env |-> p.env, writes |-> ws]
  OBVIOUS
<1>4. /\ Forward(w, r) /\ Admitted(p.entries)
      /\ UNCHANGED <<row, open, archived, token, writes, opened, recorded>>
  BY <1>1, <1>3 DEF Prepare
<1>5. /\ r.at = "import" /\ r.token = t /\ r.env = p.env /\ DOMAIN r.writes = DOMAIN p.entries
      /\ \A i \in DOMAIN r.writes : /\ r.writes[i].write.key = p.entries[i].key
                                    /\ r.writes[i].write.vis = vis[p.entries[i].key]
  BY <1>3
<1>6. FromPreview(r, token)
  <2>1. token[t] = p /\ t \in Tokens
    BY <1>1
  <2>2. \A i \in DOMAIN p.entries : p.entries[i].key \in Keys \cap DOMAIN p.review
    BY ONLY <1>2, <1>4 DEF PreviewOK, Admitted
  <2>3. \A i \in DOMAIN p.entries : vis[p.entries[i].key] \in Visibility
    BY <2>2
  <2> HIDE DEF write, ws
  <2> QED
    BY ONLY <1>2, <1>5, <2>1, <2>2, <2>3 DEF FromPreview
<1> QED
  BY <1>4, <1>5, <1>6, HandlerStep DEF RequestOK

\* The comparison page shows the versions and values of this moment.
LEMMA OpenPageStep ==
  ASSUME IInv, NEW w \in Workers, NEW k \in Keys, OpenPage(w, k)
  PROVE  IInv'
<1>1. PICK rows : rows = SnapshotOf(k).targets
  OBVIOUS
<1>2. rows = [e \in Targets(k) |-> row[e][k]]
  BY <1>1 DEF SnapshotOf
<1>3. PICK r : r = [at |-> "page", key |-> k,
                    cells |-> [e \in Targets(k) |-> [ver |-> rows[e].ver, value |-> Shown(rows, e)]]]
  OBVIOUS
<1>4. Forward(w, r) /\ UNCHANGED <<row, open, archived, token, writes, opened, recorded>>
  BY <1>1, <1>3 DEF OpenPage
<1>5. /\ r.at = "page" /\ r.key = k /\ DOMAIN r.cells = Targets(k)
      /\ \A e \in Targets(k) : r.cells[e].ver = row[e][k].ver /\ r.cells[e].value = Shown(rows, e)
  BY <1>2, <1>3
<1>6. Targets(k) \subseteq Environments
  BY DEF Targets
<1>7. AsShown(r.cells, row, r.key)
  BY <1>2, <1>5 DEF AsShown, Shown, AllPublic
<1>8. FromPage(r, row)
  BY <1>5, <1>6, <1>7, RowFacts DEF FromPage, IInv
<1> QED
  BY <1>4, <1>5, <1>8, HandlerStep DEF RequestOK

\* Submitting the page keeps its versions, which are those of the snapshot.
LEMMA PrepareSharedStep ==
  ASSUME IInv, NEW w \in Workers, NEW vis \in Visibility, NEW value,
         request[w].at = "page", PrepareShared(w, vis, value)
  PROVE  IInv'
<1>1. PICK q : q = request[w]
  OBVIOUS
<1>2. PICK r : r = [at |-> "shared", key |-> q.key, vis |-> vis, value |-> value,
                    cells |-> q.cells, snapshot |-> SnapshotOf(q.key)]
  OBVIOUS
<1>3. /\ DOMAIN q.cells = Targets(q.key)
      /\ \A e \in Targets(q.key) : q.cells[e].ver = Version(e, q.key)
      /\ Forward(w, r)
      /\ UNCHANGED <<row, open, archived, token, writes, opened, recorded>>
  BY <1>1, <1>2 DEF PrepareShared
<1>4. /\ r.at = "shared" /\ r.key = q.key /\ r.vis = vis /\ r.cells = q.cells
      /\ r.snapshot.targets = [e \in Targets(q.key) |-> row[e][q.key]]
  BY <1>2 DEF SnapshotOf
<1>5. FromPage(q, row)
  BY <1>1 DEF IInv, RequestsOK, RequestOK
<1>6. FromPage(r, row)
  BY <1>4, <1>5 DEF FromPage
<1>7. FromEdit(r)
  BY <1>3, <1>4 DEF FromEdit, Version
<1> QED
  BY <1>3, <1>4, <1>6, <1>7, HandlerStep DEF RequestOK
--------------------------------------------------------------------------------
(* Rows and items.                                                              *)

\* A step that lets rows grow and leaves handlers alone keeps the invariant.
LEMMA AgeStep ==
  ASSUME IInv, RowsOK', Grows(row, row'), ItemsOK', UNCHANGED <<token, request, recorded>>
  PROVE  IInv'
<1>1. RequestsOK'
  BY RowsAge DEF IInv, RequestsOK
<1>2. OnceOK'
  BY RowsAge DEF IInv, OnceOK, TokensOK
<1> QED
  BY <1>1, <1>2 DEF IInv, TokensOK

\* A direct write replaces a row by its next version.
LEMMA DirectWriteStep ==
  ASSUME IInv, NEW e \in Environments, NEW k \in Keys, NEW vis \in Visibility,
         NEW value, NEW group, DirectWrite(e, k, vis, value, group)
  PROVE  IInv'
<1>1. PICK r : r = NewRow(e, k, vis, value, group)
  OBVIOUS
<1>2. SetRow(e, k, r) /\ UNCHANGED <<open, archived, token, request, opened, recorded>>
  BY <1>1 DEF DirectWrite, SetRow
<1>3. row[e][k].ver \in Nat
  BY RowFacts DEF IInv
<1>4. r.ver = row[e][k].ver + 1 /\ r.vis = vis /\ r.live \in BOOLEAN
  BY <1>1 DEF NewRow, Version
<1>5. RowOK(r)
  BY <1>3, <1>4, NextVersion
<1>6. RowsOK' /\ Grows(row, row')
  BY <1>2, <1>3, <1>4, <1>5, RowSet DEF IInv
<1> QED
  BY <1>2, <1>6, AgeStep DEF IInv, ItemsOK

\* A direct delete keeps the row, with the next version.
LEMMA DirectDeleteStep ==
  ASSUME IInv, NEW e \in Environments, NEW k \in Keys, DirectDelete(e, k)
  PROVE  IInv'
<1>1. PICK r : r = [row[e][k] EXCEPT !.ver = @ + 1, !.live = FALSE]
  OBVIOUS
<1>2. row[e][k].ver \in Nat /\ row[e][k].vis \in Visibility /\ row[e][k].ver # 0
  BY RowFacts DEF IInv, DirectDelete, Live
<1>3. r.ver = row[e][k].ver + 1 /\ r.vis = row[e][k].vis /\ r.live \in BOOLEAN
  <2>1. RowOK(row[e][k]) /\ row[e][k] # NoRow
    BY <1>2 DEF IInv, RowsOK, NoRow
  <2> QED
    BY <1>1, <2>1 DEF RowOK
<1>4. SetRow(e, k, r) /\ UNCHANGED <<open, archived, token, request, opened, recorded>>
  BY <1>1 DEF DirectDelete, SetRow, IInv, RowsOK
<1>5. RowOK(r)
  BY <1>2, <1>3, NextVersion
<1>6. RowsOK' /\ Grows(row, row')
  BY <1>2, <1>3, <1>4, <1>5, RowSet DEF IInv
<1> QED
  BY <1>4, <1>6, AgeStep DEF IInv, ItemsOK

\* Applying a request replaces a row by its next version and closes the item.
LEMMA ApplyRequestStep ==
  ASSUME IInv, NEW i \in open, NEW v, ApplyRequest(i, v)
  PROVE  IInv'
<1>1. i.env \in Environments /\ i.key \in Keys /\ i.vis \in Visibility
  BY DEF IInv, ItemsOK
<1>2. PICK e, k, value, group :
        /\ e = i.env /\ k = i.key
        /\ value = (IF i.value = Operator THEN v ELSE i.value)
        /\ group = (IF Live(i.env, i.key) THEN row[i.env][i.key].group ELSE << >>)
  OBVIOUS
<1>3. PICK r : r = NewRow(e, k, i.vis, value, group)
  OBVIOUS
<1>4. SetRow(e, k, r) /\ open' = open \ {i} /\ UNCHANGED <<archived, token, request, opened, recorded>>
  BY <1>2, <1>3 DEF ApplyRequest, SetRow
<1>5. row[e][k].ver \in Nat /\ e \in Environments /\ k \in Keys
  BY <1>1, <1>2, RowFacts DEF IInv
<1>6. r.ver = row[e][k].ver + 1 /\ r.vis = i.vis /\ r.live \in BOOLEAN
  BY <1>3 DEF NewRow, Version
<1>7. RowOK(r)
  BY <1>1, <1>5, <1>6, NextVersion
<1>8. RowsOK' /\ Grows(row, row')
  BY <1>4, <1>5, <1>6, <1>7, RowSet DEF IInv
<1>9. ItemsOK'
  BY <1>4 DEF IInv, ItemsOK
<1> QED
  BY <1>4, <1>8, <1>9, AgeStep

\* Opening, closing and archiving leave rows, previews and handlers as they are.
LEMMA ItemStep ==
  ASSUME IInv, ItemsOK', UNCHANGED <<row, token, request, recorded>>
  PROVE  IInv'
BY DEF IInv, RowsOK, TokensOK, RequestsOK, OnceOK

\* The steps of everyone but imports and coordinated edits.
LEMMA OthersStep ==
  ASSUME IInv, Others
  PROVE  IInv'
<1>1. ASSUME NEW e \in Environments, NEW k \in EditedKeys, NEW vis \in Visibility,
             NEW value \in Values, NEW group \in Groups, DirectWrite(e, k, vis, value, group)
      PROVE  IInv'
  BY <1>1, DirectWriteStep, ImportAssumption
<1>2. ASSUME NEW e \in Environments, NEW k \in EditedKeys, NEW vis \in Visibility,
             NEW value \in Values, OpenRequest(e, k, vis, value)
      PROVE  IInv'
  <2>1. PICK i : i = Item(opened + 1, e, k, vis, value)
    OBVIOUS
  <2>2. i.id = opened + 1 /\ i.env = e /\ i.key = k /\ i.vis = vis
    BY <2>1 DEF Item
  <2>3. open' = open \cup {i} /\ opened' = opened + 1 /\ UNCHANGED <<row, token, request, recorded>>
    BY <1>2, <2>1 DEF OpenRequest
  <2>4. ItemsOK'
    BY <2>2, <2>3, ImportAssumption DEF IInv, ItemsOK
  <2> QED
    BY <2>3, <2>4, ItemStep
<1>3. ASSUME NEW e \in Environments, NEW k \in EditedKeys, DirectDelete(e, k)
      PROVE  IInv'
  BY <1>3, DirectDeleteStep, ImportAssumption
<1>4. ASSUME NEW i \in open, CloseRequest(i)
      PROVE  IInv'
  <2>1. ItemsOK'
    BY <1>4 DEF CloseRequest, IInv, ItemsOK
  <2> QED
    BY <1>4, <2>1, ItemStep DEF CloseRequest
<1>5. ASSUME NEW i \in open, NEW v \in Values, ApplyRequest(i, v)
      PROVE  IInv'
  BY <1>5, ApplyRequestStep
<1>6. ASSUME NEW e \in Environments, Archive(e) \/ Restore(e)
      PROVE  IInv'
  BY <1>6, ItemStep DEF Archive, Restore, IInv, ItemsOK
<1> QED
  BY <1>1, <1>2, <1>3, <1>4, <1>5, <1>6 DEF Others

\* A coordinated edit numbers its items like any other submission.
LEMMA PersistSharedStep ==
  ASSUME IInv, NEW w \in Workers, PersistShared(w)
  PROVE  IInv'
<1>1. PICK r : r = request[w]
  OBVIOUS
<1>2. PICK rows : rows = r.snapshot.targets
  OBVIOUS
<1>3. /\ r.at = "shared"
      /\ open' = open \cup {[id |-> opened + 1, env |-> e, key |-> r.key, vis |-> r.vis,
                             value |-> Proposed(rows, e, r.value), base |-> rows[e].ver] :
                               e \in ChangedIn(rows, r.vis, r.value)}
      /\ opened' = opened + 1 /\ Forward(w, Idle)
      /\ UNCHANGED <<row, archived, token, writes, recorded>>
  BY <1>1, <1>2 DEF PersistShared, Done
<1>4. FromPage(r, row) /\ FromEdit(r)
  BY <1>1, <1>3 DEF IInv, RequestsOK, RequestOK
<1>5. ChangedIn(rows, r.vis, r.value) \subseteq Environments
  BY <1>2, <1>4 DEF ChangedIn, FromPage, FromEdit
<1>6. ItemsOK'
  BY <1>3, <1>4, <1>5 DEF IInv, ItemsOK, FromPage, FromEdit
<1>7. RequestsOK'
  BY <1>3, IdleOK DEF Forward, IInv, RequestsOK
<1> QED
  BY <1>3, <1>6, <1>7 DEF IInv, RowsOK, TokensOK, OnceOK
--------------------------------------------------------------------------------
(* The commit of an import.                                                     *)

\* What an import commits: in its environment, the keys it changes get the next version
\* with the visibility of an acceptable write; everything else is kept.
LEMMA CommitFacts ==
  ASSUME IInv, NEW w \in Workers, CommitImport(w), NEW r, r = request[w]
  PROVE  /\ r.at = "import" /\ FromPreview(r, token) /\ r.env \in Environments
         /\ token[r.token].env = r.env /\ r.env \notin archived
         /\ \A k \in DOMAIN token[r.token].review : token[r.token].review[k] = References(k)
         /\ recorded' = [recorded EXCEPT ![r.token] = @ + IF Changing(r) = {} THEN 0 ELSE 1]
         /\ Forward(w, Idle) /\ UNCHANGED <<open, archived, token, writes, opened>>
         /\ DOMAIN row' = Environments
         /\ \A f \in Environments : DOMAIN row'[f] = Keys
         /\ \A f \in Environments, k \in Keys :
              (f # r.env \/ WritesOf(r, k) = {}) => row'[f][k] = row[f][k]
         /\ \A k \in Keys : WritesOf(r, k) # {} =>
              \E i \in WritesOf(r, k) :
                /\ Acceptable(r.env, r.writes[i].write)
                /\ row'[r.env][k].ver = row[r.env][k].ver + 1
                /\ row'[r.env][k].vis = r.writes[i].write.vis
                /\ row'[r.env][k].live \in BOOLEAN
<1>1. r.at = "import"
  BY DEF CommitImport
<1>2. FromPreview(r, token)
  BY <1>1 DEF IInv, RequestsOK, RequestOK
<1>3. r.env \in Environments /\ token[r.token].env = r.env
  BY <1>2 DEF FromPreview, IInv, TokensOK, PreviewOK
<1>4. /\ r.env \notin archived /\ ReviewHolds(token[r.token])
      /\ \A i \in DOMAIN r.writes : Acceptable(r.env, r.writes[i].write)
      /\ row' = [row EXCEPT ![r.env] =
                   [k \in Keys |-> IF WritesOf(r, k) # {} THEN Imported(r, k) ELSE row[r.env][k]]]
      /\ recorded' = [recorded EXCEPT ![r.token] = @ + IF Changing(r) = {} THEN 0 ELSE 1]
      /\ Forward(w, Idle) /\ UNCHANGED <<open, archived, token, writes, opened>>
  BY DEF CommitImport, Done
<1>5. DOMAIN row = Environments /\ \A f \in Environments : DOMAIN row[f] = Keys
  BY DEF IInv, RowsOK
<1>6. DOMAIN row' = Environments /\ \A f \in Environments : f # r.env => row'[f] = row[f]
  BY <1>4, <1>5
<1>7. row'[r.env] = [k \in Keys |-> IF WritesOf(r, k) # {} THEN Imported(r, k) ELSE row[r.env][k]]
  BY <1>3, <1>4, <1>5
<1>8. ASSUME NEW k \in Keys, WritesOf(r, k) # {}
      PROVE  \E i \in WritesOf(r, k) :
               /\ Acceptable(r.env, r.writes[i].write)
               /\ row'[r.env][k].ver = row[r.env][k].ver + 1
               /\ row'[r.env][k].vis = r.writes[i].write.vis
               /\ row'[r.env][k].live \in BOOLEAN
  <2>1. PICK i \in WritesOf(r, k) : i = CHOOSE j \in WritesOf(r, k) : TRUE
    BY <1>8
  <2>2. row'[r.env][k] = Imported(r, k)
    BY <1>7, <1>8
  <2>3. Imported(r, k) = NewRow(r.env, k, r.writes[i].write.vis, r.writes[i].write.value,
                        r.writes[i].write.group)
    BY <2>1 DEF Imported
  <2>4. /\ Imported(r, k).ver = row[r.env][k].ver + 1 /\ Imported(r, k).vis = r.writes[i].write.vis
        /\ Imported(r, k).live \in BOOLEAN
    BY <2>3 DEF NewRow, Version
  <2>5. i \in DOMAIN r.writes
    BY DEF WritesOf, Changing
  <2> QED
    BY <1>4, <2>2, <2>4, <2>5
<1> QED
  BY <1>1, <1>2, <1>3, <1>4, <1>5, <1>6, <1>7, <1>8 DEF ReviewHolds

\* A commit keeps the invariant.  A preview records once: what it records replaces a row
\* that it has reviewed, which is the current one only the first time.
LEMMA CommitStep ==
  ASSUME IInv, NEW w \in Workers, CommitImport(w)
  PROVE  IInv'
<1>1. PICK r : r = request[w]
  OBVIOUS
<1>2. PICK e : e = r.env
  OBVIOUS
<1>3. PICK p : p = token[r.token]
  OBVIOUS
<1>4. /\ r.token \in Tokens /\ p # NoPreview /\ p.env = e /\ e \in Environments
      /\ \A i \in DOMAIN r.writes : /\ r.writes[i].write.key \in Keys \cap DOMAIN p.review
                                    /\ r.writes[i].write.vis \in Visibility
  BY <1>1, <1>2, <1>3, CommitFacts DEF FromPreview
<1>5. ASSUME NEW k \in Keys, WritesOf(r, k) # {}
      PROVE  /\ RowOK(row'[e][k]) /\ row'[e][k].ver = row[e][k].ver + 1
             /\ k \in DOMAIN p.review
  <2>1. PICK i \in WritesOf(r, k) : /\ row'[e][k].ver = row[e][k].ver + 1
                                    /\ row'[e][k].vis = r.writes[i].write.vis
                                    /\ row'[e][k].live \in BOOLEAN
    BY <1>1, <1>2, <1>5, CommitFacts
  <2>2. i \in DOMAIN r.writes /\ r.writes[i].write.key = k
    BY DEF WritesOf, Changing
  <2>3. row[e][k].ver \in Nat
    BY <1>4, RowFacts DEF IInv
  <2> QED
    BY <1>4, <2>1, <2>2, <2>3, NextVersion
<1>6. RowsOK' /\ Grows(row, row')
  <2>1. ASSUME NEW f \in Environments, NEW k \in Keys
        PROVE  /\ RowOK(row'[f][k])
               /\ row'[f][k] = row[f][k] \/ row[f][k].ver < row'[f][k].ver
    <3>1. CASE f # e \/ WritesOf(r, k) = {}
      BY <1>1, <1>2, <3>1, CommitFacts DEF IInv, RowsOK
    <3>2. CASE f = e /\ WritesOf(r, k) # {}
      BY <1>5, <3>2, RowFacts DEF IInv
    <3> QED
      BY <3>1, <3>2
  <2> QED
    BY <1>1, <2>1, CommitFacts DEF RowsOK, Grows
<1>7. Forward(w, Idle) /\ UNCHANGED <<open, archived, token, writes, opened>>
  BY <1>1, CommitFacts
<1>8. RequestsOK'
  BY <1>6, <1>7, RowsAge, IdleOK DEF Forward, IInv, RequestsOK
<1>9. recorded' = [recorded EXCEPT ![r.token] = @ + IF Changing(r) = {} THEN 0 ELSE 1]
  BY <1>1, CommitFacts
<1>10. \A k \in DOMAIN p.review : p.review[k] = References(k)
  BY <1>1, <1>3, CommitFacts
<1>11. OnceOK'
  <2>1. ASSUME NEW t \in Tokens, Spent(token[t], row)
        PROVE  Spent(token'[t], row')
    BY <1>6, <1>7, <2>1, RowsAge DEF IInv, TokensOK
  <2>2. CASE Changing(r) = {}
    BY <1>9, <2>1, <2>2 DEF IInv, OnceOK
  <2>3. CASE Changing(r) # {}
    <3>1. recorded[r.token] = 0
      <4> SUFFICES ASSUME Spent(p, row) PROVE FALSE
        BY <1>3, <1>4 DEF IInv, OnceOK
      <4>1. PICK k \in Keys \cap DOMAIN p.review : p.review[k].rows[e].ver < row[e][k].ver
        BY <1>4 DEF Spent
      <4>2. p.review[k].rows[e].ver = row[e][k].ver
        BY <1>4, <1>10, ReviewedRow DEF IInv
      <4> QED
        BY <1>4, <4>1, <4>2, RowFacts DEF IInv
    <3>2. Spent(p, row')
      <4>1. PICK i \in Changing(r) : TRUE
        BY <2>3
      <4>2. PICK k \in Keys : k = r.writes[i].write.key /\ i \in WritesOf(r, k)
        BY <1>4 DEF Changing, WritesOf
      <4>3. k \in DOMAIN p.review /\ row'[e][k].ver = row[e][k].ver + 1
        BY <1>5, <4>2
      <4>4. p.review[k].rows[e].ver = row[e][k].ver /\ row[e][k].ver \in Nat
        BY <1>4, <1>10, <4>3, ReviewedRow, RowFacts DEF IInv
      <4> QED
        BY <1>4, <4>3, <4>4 DEF Spent
    <3> QED
      BY <1>3, <1>4, <1>7, <1>9, <2>1, <2>3, <3>1, <3>2 DEF IInv, OnceOK
  <2> QED
    BY <2>2, <2>3
<1> QED
  BY <1>6, <1>7, <1>8, <1>11 DEF IInv, ItemsOK, TokensOK
--------------------------------------------------------------------------------
(* The invariant, and the promises that follow from it.                         *)

\* Every step keeps the invariant.
LEMMA NextIInv == IInv /\ [Next]_vars => IInv'
<1> SUFFICES ASSUME IInv, [Next]_vars PROVE IInv'
  OBVIOUS
<1>1. CASE UNCHANGED vars
  BY <1>1 DEF vars, IInv, RowsOK, ItemsOK, TokensOK, RequestsOK, OnceOK
<1>2. ASSUME NEW t \in {u \in Tokens : token[u] = NoPreview}, NEW e \in Environments,
             NEW text, Preview(t, e, text)
      PROVE  IInv'
  BY <1>2, PreviewStep
<1>3. ASSUME NEW w \in Workers, Deployed(w)
      PROVE  IInv'
  <2>1. CASE Abandon(w)
    BY <2>1, HandlerStep, IdleOK DEF Abandon, Done
  <2> QED
    BY <1>3, <2>1, PrepareStep, CommitStep DEF Deployed
<1>4. ASSUME NEW w \in Editors, SharedEdit(w)
      PROVE  IInv'
  BY <1>4, OpenPageStep, PrepareSharedStep, PersistSharedStep, ImportAssumption DEF SharedEdit
<1> QED
  BY <1>1, <1>2, <1>3, <1>4, OthersStep DEF Next

\* The invariant holds in every reachable state.
LEMMA ImportInvariant == Spec => []IInv
BY InitIInv, NextIInv, PTL DEF Spec

\* A handler that ends with a change of rows or items has committed it itself.
LEMMA WhoCommits ==
  ASSUME IInv, Next, NEW w \in Workers, request[w].at \in {"import", "shared"},
         request'[w] = Idle, row' # row \/ open' # open \/ opened' # opened
  PROVE  CommitImport(w) \/ PersistShared(w)
<1>1. request[w] # Idle
  BY DEF Idle
<1>2. ~Others
  BY <1>1 DEF Others, DirectWrite, OpenRequest, DirectDelete, CloseRequest, ApplyRequest,
              Archive, Restore
<1>3. ASSUME NEW t \in Tokens, NEW e \in Environments, NEW text, Preview(t, e, text)
      PROVE  FALSE
  BY <1>3 DEF Preview
<1>4. PICK v \in Workers : Deployed(v) \/ SharedEdit(v)
  BY <1>2, <1>3, ImportAssumption DEF Next
<1>5. CommitImport(v) \/ PersistShared(v)
  <2>1. ASSUME NEW t \in Tokens, NEW vis \in [Keys -> Visibility], NEW clear \in BOOLEAN,
               Prepare(v, t, vis, clear)
        PROVE  UNCHANGED <<row, open, opened>>
    BY <2>1 DEF Prepare
  <2>2. ASSUME Abandon(v) PROVE UNCHANGED <<row, open, opened>>
    BY <2>2 DEF Abandon
  <2>3. ASSUME NEW k \in EditedKeys, OpenPage(v, k) PROVE UNCHANGED <<row, open, opened>>
    BY <2>3 DEF OpenPage
  <2>4. ASSUME NEW vis, NEW value, PrepareShared(v, vis, value)
        PROVE  UNCHANGED <<row, open, opened>>
    BY <2>4 DEF PrepareShared
  <2> QED
    BY <1>4, <2>1, <2>2, <2>3, <2>4 DEF Deployed, SharedEdit
<1>6. Forward(v, Idle)
  BY <1>5 DEF CommitImport, PersistShared, Done
<1>7. v = w
  BY <1>1, <1>6 DEF Forward, IInv, RequestsOK
<1> QED
  BY <1>5, <1>7

\* A preview records at most one change, however often and from however many handlers
\* it is submitted, and whatever else happens to the rows meanwhile.
THEOREM PreviewRecordsOnce == Spec => []RecordedOnce
<1>1. IInv => RecordedOnce
  BY DEF IInv, OnceOK, RecordedOnce
<1> QED
  BY <1>1, ImportInvariant, PTL

\* A set of two.
LEMMA Doubleton ==
  ASSUME NEW a, NEW b
  PROVE  IsFiniteSet({a, b}) /\ (a # b => Cardinality({a, b}) = 2)
<1>1. IsFiniteSet({a}) /\ Cardinality({a}) = 1
  BY FS_Singleton
<1>2. {a} \cup {b} = {a, b}
  OBVIOUS
<1>3. /\ IsFiniteSet({a} \cup {b})
      /\ Cardinality({a} \cup {b}) = IF b \in {a} THEN Cardinality({a}) ELSE Cardinality({a}) + 1
  BY <1>1, FS_AddElement
<1> QED
  BY <1>1, <1>2, <1>3

\* Two visibilities of a key in use make a conflict.
LEMMA OneVisibility ==
  ASSUME RowsOK, NEW k \in Keys, NEW e, ~Conflict(References(k), e),
         NEW f \in Environments \ archived, NEW g \in Environments \ archived,
         Live(f, k), Live(g, k)
  PROVE  /\ row[f][k].vis \in CurrentVisibilities(References(k))
         /\ row[f][k].vis = row[g][k].vis
<1> DEFINE refs == References(k)
           S == CurrentVisibilities(refs)
<1>1. S \subseteq Visibility
  <2> SUFFICES ASSUME NEW h \in Environments, refs.rows[h].active
               PROVE  refs.rows[h].vis \in Visibility
    BY DEF CurrentVisibilities
  <2> QED
    BY ReviewedRow, RowFacts DEF Live
<1>2. ASSUME NEW h \in Environments \ archived, Live(h, k)
      PROVE  row[h][k].vis \in S
  <2>1. refs.rows[h].active /\ refs.rows[h].vis = row[h][k].vis
    BY <1>2, ReviewedRow
  <2> QED
    BY <2>1 DEF CurrentVisibilities
<1> HIDE DEF S
<1>3. IsFiniteSet(S)
  BY <1>1, Doubleton, FS_Subset DEF Visibility
<1>4. ~(Cardinality(S) > 1)
  BY DEF Conflict, S
<1>5. row[f][k].vis = row[g][k].vis
  <2> SUFFICES ASSUME row[f][k].vis # row[g][k].vis PROVE FALSE
    OBVIOUS
  <2>1. {row[f][k].vis, row[g][k].vis} \subseteq S
    BY <1>2
  <2>2. Cardinality({row[f][k].vis, row[g][k].vis}) = 2
    BY Doubleton
  <2>3. 2 <= Cardinality(S)
    BY <1>3, <2>1, <2>2, FS_Subset
  <2> QED
    BY <1>3, <1>4, <2>3, FS_CardinalityType
<1> QED
  BY <1>2, <1>5 DEF S

\* What ImportsAgree says of a step.
Agree ==
  \A w \in Workers :
    request[w].at = "import" /\ row' # row /\ request'[w] = Idle =>
      \A k \in Keys : row'[request[w].env][k] # row[request[w].env][k] =>
        /\ \A e, f \in Environments \ archived :
             row'[e][k].live /\ row'[f][k].live => row'[e][k].vis = row'[f][k].vis
        /\ \A i \in open : i.env = request[w].env => i.key # k

\* A commit writes a visibility that every other active environment has, and a key that
\* nobody has an open item for.
LEMMA NextAgrees == IInv /\ Next => Agree
<1> SUFFICES ASSUME IInv, Next, NEW w \in Workers, request[w].at = "import", row' # row,
                    request'[w] = Idle, NEW k \in Keys,
                    row'[request[w].env][k] # row[request[w].env][k]
             PROVE  /\ \A e, f \in Environments \ archived :
                         row'[e][k].live /\ row'[f][k].live => row'[e][k].vis = row'[f][k].vis
                    /\ \A i \in open : i.env = request[w].env => i.key # k
  BY DEF Agree
<1>1. CommitImport(w)
  BY WhoCommits DEF PersistShared
<1>2. PICK r : r = request[w]
  OBVIOUS
<1>3. PICK here : here = r.env
  OBVIOUS
<1>4. here \in Environments \ archived
  BY <1>1, <1>2, <1>3, CommitFacts
<1>5. WritesOf(r, k) # {}
  BY <1>1, <1>2, <1>3, <1>4, CommitFacts
<1>6. PICK i \in WritesOf(r, k) : /\ Acceptable(here, r.writes[i].write)
                                  /\ row'[here][k].vis = r.writes[i].write.vis
  <2>1. PICK i \in WritesOf(r, k) : /\ Acceptable(r.env, r.writes[i].write)
                                    /\ row'[r.env][k].ver = row[r.env][k].ver + 1
                                    /\ row'[r.env][k].vis = r.writes[i].write.vis
                                    /\ row'[r.env][k].live \in BOOLEAN
    BY <1>1, <1>2, <1>5, CommitFacts
  <2> QED
    BY <1>3, <2>1
<1>7. r.writes[i].write.key = k
  BY DEF WritesOf
<1> DEFINE refs == References(k)
<1>8. /\ ~Conflict(refs, here)
      /\ LockedKey(refs) => row'[here][k].vis = Known(refs)
  BY <1>6, <1>7 DEF Acceptable
<1>9. \A e \in Environments : e # here => row'[e][k] = row[e][k]
  BY <1>1, <1>2, <1>3, CommitFacts
<1>10. ASSUME NEW e \in Environments \ archived, e # here, row'[e][k].live
       PROVE  row'[e][k].vis = row'[here][k].vis
  <2>1. Live(e, k)
    BY <1>9, <1>10 DEF Live
  <2>2. row[e][k].vis \in CurrentVisibilities(refs)
    BY <1>8, <2>1, OneVisibility DEF IInv
  <2>3. row'[here][k].vis = Known(refs)
    BY <1>8, <2>2 DEF LockedKey
  <2>4. Known(refs) \in CurrentVisibilities(refs)
    BY <2>2 DEF Known
  <2>5. PICK f \in Environments : refs.rows[f].active /\ Known(refs) = refs.rows[f].vis
    BY <2>4 DEF CurrentVisibilities
  <2>6. f \notin archived /\ Live(f, k) /\ Known(refs) = row[f][k].vis
    BY <2>5, ReviewedRow DEF IInv
  <2>7. row[e][k].vis = row[f][k].vis
    BY <1>8, <2>1, <2>6, OneVisibility DEF IInv
  <2> QED
    BY <1>9, <1>10, <2>3, <2>6, <2>7
<1>11. ASSUME NEW e \in Environments \ archived, NEW f \in Environments \ archived,
              row'[e][k].live, row'[f][k].live
       PROVE  row'[e][k].vis = row'[f][k].vis
  BY <1>10, <1>11
<1>12. ASSUME NEW j \in open, j.env = here, j.key = k
       PROVE  FALSE
  <2>1. PICK q : q = [id |-> j.id, env |-> j.env, vis |-> j.vis, active |-> j.env \notin archived]
    OBVIOUS
  <2>2. q \in refs.items /\ q.active /\ q.env = here
    BY <1>4, <1>12, <2>1 DEF References
  <2> QED
    BY <1>8, <2>2 DEF Conflict
<1> QED
  BY <1>2, <1>3, <1>11, <1>12

\* Importing never leaves the active environments of an App disagreeing on whether a key
\* is public, nor overtakes an open request for it.
THEOREM ImportsAgreeAlways == Spec => ImportsAgree
<1>1. IInv /\ [Next]_vars => [Agree]_vars
  BY NextAgrees
<1>2. [][Agree]_vars => ImportsAgree
  BY PTL DEF ImportsAgree, Agree
<1> QED
  BY <1>1, <1>2, ImportInvariant, PTL DEF Spec
\* The requests a coordinated edit opens: numbered afresh, so that none was open before.
LEMMA EditOpens ==
  ASSUME IInv, NEW w \in Workers, PersistShared(w), NEW r, r = request[w],
         NEW rows, rows = SnapshotOf(r.key).targets
  PROVE  /\ r.at = "shared" /\ FromPage(r, row) /\ FromEdit(r)
         /\ r.snapshot.targets = rows /\ rows = [e \in Targets(r.key) |-> row[e][r.key]]
         /\ open' \ open = {[id |-> opened + 1, env |-> e, key |-> r.key, vis |-> r.vis,
                             value |-> Proposed(rows, e, r.value), base |-> rows[e].ver] :
                               e \in ChangedIn(rows, r.vis, r.value)}
<1>1. /\ r.at = "shared" /\ r.snapshot = SnapshotOf(r.key)
      /\ open' = open \cup {[id |-> opened + 1, env |-> e, key |-> r.key, vis |-> r.vis,
                             value |-> Proposed(rows, e, r.value), base |-> rows[e].ver] :
                               e \in ChangedIn(rows, r.vis, r.value)}
  BY DEF PersistShared, SnapshotHolds
<1>2. FromPage(r, row) /\ FromEdit(r)
  BY <1>1 DEF IInv, RequestsOK, RequestOK
<1>3. rows = [e \in Targets(r.key) |-> row[e][r.key]]
  BY DEF SnapshotOf
<1>4. \A i \in open : i.id # opened + 1
  BY DEF IInv, ItemsOK
<1>5. ASSUME NEW e \in ChangedIn(rows, r.vis, r.value)
      PROVE  [id |-> opened + 1, env |-> e, key |-> r.key, vis |-> r.vis,
              value |-> Proposed(rows, e, r.value), base |-> rows[e].ver] \notin open
  <2>1. PICK q : q = [id |-> opened + 1, env |-> e, key |-> r.key, vis |-> r.vis,
                      value |-> Proposed(rows, e, r.value), base |-> rows[e].ver]
    OBVIOUS
  <2>2. q.id = opened + 1
    BY <2>1
  <2> QED
    BY <1>4, <2>1, <2>2
<1> QED
  BY <1>1, <1>2, <1>3, <1>5

\* What SharedEditCurrent says of a step.
EditsCurrent ==
  \A w \in Workers :
    LET r == request[w] IN
    r.at = "shared" /\ open' # open /\ request'[w] = Idle =>
      /\ {i.env : i \in open' \ open} = ChangedIn(SnapshotOf(r.key).targets, r.vis, r.value)
      /\ \A i \in open' \ open : i.base = Version(i.env, i.key)

\* The snapshot that a coordinated edit validates makes its requests current.
LEMMA NextEditsCurrent == IInv /\ Next => EditsCurrent
<1> SUFFICES ASSUME IInv, Next, NEW w \in Workers, NEW r, r = request[w],
                    r.at = "shared", open' # open, request'[w] = Idle
             PROVE  /\ {i.env : i \in open' \ open}
                         = ChangedIn(SnapshotOf(r.key).targets, r.vis, r.value)
                    /\ \A i \in open' \ open : i.base = Version(i.env, i.key)
  BY DEF EditsCurrent
<1>1. PersistShared(w)
  BY WhoCommits DEF CommitImport
<1>2. PICK rows : rows = SnapshotOf(r.key).targets
  OBVIOUS
<1>3. PICK changed : changed = ChangedIn(rows, r.vis, r.value)
  OBVIOUS
<1>4. /\ rows = [e \in Targets(r.key) |-> row[e][r.key]]
      /\ open' \ open = {[id |-> opened + 1, env |-> e, key |-> r.key, vis |-> r.vis,
                          value |-> Proposed(rows, e, r.value), base |-> rows[e].ver] :
                            e \in changed}
  BY <1>1, <1>2, <1>3, EditOpens
<1>5. changed \subseteq Targets(r.key)
  BY <1>3, <1>4 DEF ChangedIn
<1>6. {i.env : i \in open' \ open} = changed
  <2>1. \A i \in open' \ open : i.env \in changed
    BY <1>4
  <2>2. ASSUME NEW e \in changed
        PROVE  \E i \in open' \ open : i.env = e
    <3>1. PICK i : i = [id |-> opened + 1, env |-> e, key |-> r.key, vis |-> r.vis,
                        value |-> Proposed(rows, e, r.value), base |-> rows[e].ver]
      OBVIOUS
    <3>2. i \in open' \ open /\ i.env = e
      BY <1>4, <3>1
    <3> QED
      BY <3>2
  <2> QED
    BY <2>1, <2>2
<1>7. \A i \in open' \ open : i.base = Version(i.env, i.key)
  BY <1>4, <1>5 DEF Version
<1> QED
  BY <1>2, <1>3, <1>6, <1>7

\* A coordinated edit opens its requests for exactly the environments that it changes,
\* on the versions that are current when it commits.
THEOREM EditsAreCurrent == Spec => SharedEditCurrent
<1>1. IInv /\ [Next]_vars => [EditsCurrent]_vars
  BY NextEditsCurrent
<1>2. [][EditsCurrent]_vars => SharedEditCurrent
  BY PTL DEF SharedEditCurrent, EditsCurrent
<1> QED
  BY <1>1, <1>2, ImportInvariant, PTL DEF Spec

\* What EditComparesWhatPageShowed says of a step.
ComparesShown ==
  \A w \in Workers :
    LET r == request[w] IN
    r.at = "shared" /\ opened' # opened /\ request'[w] = Idle =>
      LET rows == SnapshotOf(r.key).targets IN
      \A e \in DOMAIN r.cells :
        r.cells[e].value = IF AllPublic(rows) THEN row[e][r.key].value ELSE None

\* The snapshot validated by an edit has the versions of its page, so what the page showed
\* is what is current.
LEMMA NextComparesShown == IInv /\ Next => ComparesShown
<1> SUFFICES ASSUME IInv, Next, NEW w \in Workers, NEW r, r = request[w],
                    r.at = "shared", opened' # opened, request'[w] = Idle,
                    NEW e \in DOMAIN r.cells
             PROVE  r.cells[e].value = IF AllPublic(SnapshotOf(r.key).targets)
                                       THEN row[e][r.key].value ELSE None
  BY DEF ComparesShown
<1>1. PersistShared(w)
  BY WhoCommits DEF CommitImport
<1>2. PICK rows : rows = SnapshotOf(r.key).targets
  OBVIOUS
<1>3. /\ FromPage(r, row) /\ FromEdit(r) /\ r.snapshot.targets = rows
      /\ rows = [f \in Targets(r.key) |-> row[f][r.key]]
  BY <1>1, <1>2, EditOpens
<1>4. DOMAIN r.cells = Targets(r.key)
  BY <1>3 DEF FromEdit
<1>5. \A f \in DOMAIN r.cells : r.cells[f].ver = row[f][r.key].ver
  BY <1>3, <1>4 DEF FromEdit
<1>6. AsShown(r.cells, row, r.key)
  BY <1>3, <1>5 DEF FromPage
<1>7. AllPublic(rows) <=> \A f \in DOMAIN r.cells : row[f][r.key].vis = "public"
  BY <1>3, <1>4 DEF AllPublic
<1> QED
  BY <1>2, <1>6, <1>7 DEF AsShown

\* A coordinated edit compares a value with the current one exactly when its page had
\* shown it, whatever was written between the page and the commit.
THEOREM EditsCompareShown == Spec => EditComparesWhatPageShowed
<1>1. IInv /\ [Next]_vars => [ComparesShown]_vars
  BY NextComparesShown
<1>2. [][ComparesShown]_vars => EditComparesWhatPageShowed
  BY PTL DEF EditComparesWhatPageShowed, ComparesShown
<1> QED
  BY <1>1, <1>2, ImportInvariant, PTL DEF Spec

--------------------------------------------------------------------------------
(* What rows hold: text, and group names of G.                                  *)

RowHolds(G, r) == r = NoRow \/ (IsRow(r) /\ r.group \in G)
EntryHolds(G, entry) == entry.value \in Strings /\ entry.group \in G
Submitted == Strings \cup {Operator}

\* What a file brings in, when it is accepted.
FilesHold(G) ==
  \A text \in Texts \cup {Export(f) : f \in Environments} :
    Parse(text).ok => \A i \in DOMAIN Parse(text).entries : EntryHolds(G, Parse(text).entries[i])

RowsHold(G) == \A e \in Environments, k \in Keys : RowHolds(G, row[e][k])
ItemsHold == \A i \in open : /\ i.value \in Submitted
                             /\ i.base = 0 \/ i.base \in 1..row[i.env][i.key].ver
TokensHold(G) ==
  \A t \in Tokens : token[t] # NoPreview =>
    \A i \in DOMAIN token[t].entries : EntryHolds(G, token[t].entries[i])
RequestHolds(G, r) ==
  /\ r.at = "import" => \A i \in DOMAIN r.writes : EntryHolds(G, r.writes[i].write)
  /\ r.at = "shared" => \A e \in DOMAIN r.cells : r.value[e] \in Submitted \cup {None}
RequestsHold(G) == \A w \in Workers : RequestHolds(G, request[w])
BoundsOK ==
  /\ archived \subseteq Environments /\ archived # Environments
  /\ writes \in 0..MaxWrites /\ recorded \in [Tokens -> Nat]

\* The second inductive invariant: everything that is stored or in flight holds text.
ContentInv(G) == RowsHold(G) /\ ItemsHold /\ TokensHold(G) /\ RequestsHold(G) /\ BoundsOK

\* Groups of direct writes, and no group.
GroupsIn(G) == << >> \in G /\ Groups \subseteq G /\ G \subseteq Strings

\* A sequence of tokens of the alphabet.
LEMMA TextsAreStrings == Texts \cup Values \cup Groups \subseteq Strings
<1> SUFFICES ASSUME NEW s, s \in Texts \cup Values \cup Groups PROVE s \in Strings
  OBVIOUS
<1>1. PICK T : T = ToSet(s)
  OBVIOUS
<1>2. s \in Seq(T)
  BY <1>1, ImportAssumption
<1>3. T \subseteq Alphabet
  BY <1>1 DEF Alphabet, UsedTokens
<1>4. s \in Seq(Alphabet)
  BY <1>2, <1>3
<1> QED
  BY <1>4 DEF Strings

\* At first there is nothing.
LEMMA InitContent == ASSUME NEW G, Init PROVE ContentInv(G)
<1>1. RowsHold(G)
  BY DEF Init, RowsHold, RowHolds
<1>2. ItemsHold
  BY DEF Init, ItemsHold
<1>3. TokensHold(G)
  BY DEF Init, TokensHold
<1>4. RequestsHold(G)
  BY DEF Init, RequestsHold, RequestHolds, Idle
<1>5. BoundsOK
  BY ImportAssumption DEF Init, BoundsOK
<1> QED
  BY <1>1, <1>2, <1>3, <1>4, <1>5 DEF ContentInv

\* import_preview brings in what the file holds.
LEMMA PreviewContent ==
  ASSUME NEW G, FilesHold(G), IInv, ContentInv(G), NEW t \in Tokens, NEW e \in Environments,
         NEW text, text \in Texts \cup {Export(f) : f \in Environments}, Preview(t, e, text)
  PROVE  ContentInv(G)'
<1>1. PICK file, review : /\ file = Parse(text)
                          /\ review = [k \in {file.entries[i].key : i \in DOMAIN file.entries} |->
                                         References(k)]
  OBVIOUS
<1>2. /\ file.ok
      /\ token' = [token EXCEPT ![t] = [at |-> "shown", env |-> e, entries |-> file.entries,
                                        review |-> review]]
      /\ UNCHANGED <<row, open, archived, request, writes, opened, recorded>>
  BY <1>1 DEF Preview
<1>3. \A i \in DOMAIN file.entries : EntryHolds(G, file.entries[i])
  BY <1>1, <1>2 DEF FilesHold
<1>4. TokensHold(G)'
  BY <1>2, <1>3 DEF TokensHold, ContentInv, IInv, TokensOK, EntryHolds
<1> QED
  BY <1>2, <1>4
     DEF ContentInv, RowsHold, ItemsHold, RequestsHold, BoundsOK

\* A step that only moves a handler keeps the invariant when the handler holds text.
LEMMA HandlerContent ==
  ASSUME NEW G, IInv, ContentInv(G), NEW w \in Workers, NEW r, Forward(w, r),
         RequestHolds(G, r), UNCHANGED <<row, open, archived, token, writes, recorded>>
  PROVE  ContentInv(G)'
<1>1. RequestsHold(G)'
  BY DEF Forward, IInv, RequestsOK, RequestsHold, ContentInv
<1> QED
  BY <1>1 DEF ContentInv, RowsHold, ItemsHold, TokensHold, BoundsOK

\* import_commit writes values of its file, and groups of the file or of the rows.
LEMMA PrepareContent ==
  ASSUME NEW G, GroupsIn(G), IInv, ContentInv(G), NEW w \in Workers, NEW t \in Tokens,
         NEW vis \in [Keys -> Visibility], NEW clear \in BOOLEAN, token[t] # NoPreview,
         Prepare(w, t, vis, clear)
  PROVE  ContentInv(G)'
<1>1. PICK p, e : p = token[t] /\ e = p.env
  OBVIOUS
<1>2. e \in Environments /\ \A i \in DOMAIN p.entries : EntryHolds(G, p.entries[i])
  BY <1>1 DEF ContentInv, TokensHold, IInv, TokensOK, PreviewOK
<1>3. \A i \in DOMAIN p.entries : p.entries[i].key \in Keys
  BY <1>1 DEF Prepare, Admitted
<1>4. PICK f : f = [i \in DOMAIN p.entries |->
                      [key |-> p.entries[i].key, value |-> p.entries[i].value,
                       vis |-> vis[p.entries[i].key],
                       group |-> IF clear THEN << >> ELSE ShownGroup(e, p.entries[i])]]
  OBVIOUS
<1>5. PICK r : r = [at |-> "import", token |-> t, env |-> e,
                    writes |-> [i \in DOMAIN p.entries |->
                                  [write |-> f[i], snapshot |-> Current(e, p.entries[i].key),
                                   unchanged |-> Unchanged(e, p.entries[i].key, f[i])]]]
  OBVIOUS
<1>6. Forward(w, r) /\ UNCHANGED <<row, open, archived, token, writes, opened, recorded>>
  BY <1>1, <1>4, <1>5 DEF Prepare
<1>7. ASSUME NEW i \in DOMAIN p.entries PROVE EntryHolds(G, f[i])
  <2>1. PICK k, x : k = p.entries[i].key /\ x = p.entries[i]
    OBVIOUS
  <2>2. k \in Keys /\ EntryHolds(G, x)
    BY <1>2, <1>3, <2>1
  <2>3. Live(e, k) => row[e][k].group \in G
    BY <1>2, <2>2 DEF ContentInv, RowsHold, RowHolds, Live, NoRow
  <2>4. ShownGroup(e, x) \in G
    BY <2>1, <2>2, <2>3 DEF ShownGroup, EntryHolds
  <2> QED
    BY <1>4, <2>1, <2>2, <2>4 DEF EntryHolds, GroupsIn
<1>8. RequestHolds(G, r)
  BY <1>5, <1>7 DEF RequestHolds
<1> QED
  BY <1>6, <1>8, HandlerContent

\* A row that is replaced holds text when the new one does.
LEMMA RowContent ==
  ASSUME NEW G, IInv, RowsHold(G), NEW e \in Environments, NEW k \in Keys, NEW r,
         SetRow(e, k, r), RowHolds(G, r)
  PROVE  RowsHold(G)'
<1>1. \A f \in Environments, j \in Keys :
        row'[f][j] = IF f = e /\ j = k THEN r ELSE row[f][j]
  BY DEF SetRow, IInv, RowsOK
<1> QED
  BY <1>1 DEF RowsHold

\* The next version of a row holds what is written.
LEMMA NewRowHolds ==
  ASSUME NEW G, IInv, NEW e \in Environments, NEW k \in Keys, NEW vis \in Visibility,
         NEW value \in Strings, NEW group \in G, G \subseteq Strings
  PROVE  RowHolds(G, NewRow(e, k, vis, value, group))
<1>1. row[e][k].ver \in Nat
  BY RowFacts DEF IInv
<1>2. row[e][k].ver + 1 \in Nat \ {0}
  BY <1>1
<1> QED
  BY <1>2 DEF RowHolds, IsRow, NewRow, Version

\* Base versions stay those of the past while rows grow.
LEMMA ItemsAge ==
  ASSUME IInv, ItemsHold, RowsOK', Grows(row, row'), open' \subseteq open
  PROVE  ItemsHold'
<1> SUFFICES ASSUME NEW i \in open', i.base # 0
             PROVE  i.base \in 1..row'[i.env][i.key].ver
  BY DEF ItemsHold
<1>1. i.env \in Environments /\ i.key \in Keys
  BY DEF IInv, ItemsOK
<1>2. PICK e, k, rows : e = i.env /\ k = i.key /\ rows = row'
  OBVIOUS
<1>3. i.base \in 1..row[e][k].ver
  BY <1>2 DEF ItemsHold
<1>4. row[e][k].ver \in Nat
  BY <1>1, <1>2, RowFacts DEF IInv
<1>5. rows[e][k].ver \in Nat
  BY <1>1, <1>2 DEF RowsOK, RowOK, NoRow
<1>6. rows[e][k] = row[e][k] \/ row[e][k].ver < rows[e][k].ver
  BY <1>1, <1>2 DEF Grows
<1>7. i.base \in 1..rows[e][k].ver
  BY <1>3, <1>4, <1>5, <1>6
<1> QED
  BY <1>2, <1>7

\* A direct write, a delete or an applied request keeps the invariant when it writes text.
LEMMA WriteContent ==
  ASSUME NEW G, IInv, ContentInv(G), NEW e \in Environments, NEW k \in Keys, NEW r,
         SetRow(e, k, r), RowHolds(G, r), r.ver = row[e][k].ver + 1, open' \subseteq open,
         writes < MaxWrites, writes' = writes + 1,
         UNCHANGED <<archived, token, request, recorded>>
  PROVE  ContentInv(G)'
<1>1. RowsHold(G)'
  BY RowContent DEF ContentInv
<1>2. row[e][k].ver \in Nat
  BY RowFacts DEF IInv
<1>3. RowOK(r)
  BY DEF RowHolds, RowOK, IsRow
<1>4. row[e][k].ver < r.ver
  BY <1>2
<1>5. RowsOK' /\ Grows(row, row')
  BY <1>3, <1>4, RowSet DEF IInv
<1>6. ItemsHold'
  BY <1>5, ItemsAge DEF ContentInv
<1>7. BoundsOK'
  BY ImportAssumption DEF ContentInv, BoundsOK
<1> QED
  BY <1>1, <1>6, <1>7 DEF ContentInv, TokensHold, RequestsHold

\* record_applied writes values and groups of operators.
LEMMA DirectWriteContent ==
  ASSUME NEW G, GroupsIn(G), IInv, ContentInv(G), NEW e \in Environments, NEW k \in Keys,
         NEW vis \in Visibility, NEW value \in Values, NEW group \in Groups,
         DirectWrite(e, k, vis, value, group)
  PROVE  ContentInv(G)'
<1>1. PICK r : r = NewRow(e, k, vis, value, group)
  OBVIOUS
<1>2. value \in Strings /\ group \in G
  BY TextsAreStrings DEF GroupsIn
<1>3. RowHolds(G, r)
  BY <1>1, <1>2, NewRowHolds DEF GroupsIn
<1>4. r.ver = row[e][k].ver + 1
  BY <1>1 DEF NewRow, Version
<1>5. /\ SetRow(e, k, r) /\ writes < MaxWrites /\ writes' = writes + 1
      /\ UNCHANGED <<open, archived, token, request, opened, recorded>>
  BY <1>1 DEF DirectWrite, SetRow
<1> QED
  BY <1>3, <1>4, <1>5, WriteContent

\* delete_applied keeps what the row holds.
LEMMA DirectDeleteContent ==
  ASSUME NEW G, IInv, ContentInv(G), NEW e \in Environments, NEW k \in Keys, DirectDelete(e, k)
  PROVE  ContentInv(G)'
<1>1. PICK r : r = [row[e][k] EXCEPT !.ver = @ + 1, !.live = FALSE]
  OBVIOUS
<1>2. row[e][k] # NoRow /\ RowOK(row[e][k])
  BY DEF DirectDelete, Live, NoRow, IInv, RowsOK
<1>3. IsRow(row[e][k]) /\ row[e][k].group \in G
  BY <1>2 DEF ContentInv, RowsHold, RowHolds
<1>4. DOMAIN row = Environments /\ DOMAIN row[e] = Keys
  BY DEF IInv, RowsOK
<1>5. /\ SetRow(e, k, r) /\ writes < MaxWrites /\ writes' = writes + 1
      /\ UNCHANGED <<open, archived, token, request, opened, recorded>>
  BY <1>1, <1>4 DEF DirectDelete, SetRow
<1>6. PICK x, n, N, S : x = row[e][k] /\ n = x.ver + 1 /\ N = Nat \ {0} /\ S = Strings
  OBVIOUS
<1>7. x \in [ver : N, vis : Visibility, live : BOOLEAN, value : S, group : S]
  BY <1>3, <1>6 DEF IsRow
<1>8. n \in N
  BY <1>6, <1>7
<1>9. r \in [ver : N, vis : Visibility, live : BOOLEAN, value : S, group : S]
      /\ r.ver = n /\ r.group = x.group
  <2>1. r = [x EXCEPT !.ver = n, !.live = FALSE]
    BY <1>1, <1>6
  <2> QED
    BY ONLY <1>7, <1>8, <2>1
<1>10. RowHolds(G, r)
  BY <1>3, <1>6, <1>9 DEF RowHolds, IsRow
<1> QED
  BY <1>5, <1>6, <1>9, <1>10, WriteContent

\* mark_applied writes what was proposed, or what fulfill_value stored.
LEMMA ApplyContent ==
  ASSUME NEW G, GroupsIn(G), IInv, ContentInv(G), NEW i \in open, NEW v \in Values,
         ApplyRequest(i, v)
  PROVE  ContentInv(G)'
<1>1. i.env \in Environments /\ i.key \in Keys /\ i.vis \in Visibility /\ i.value \in Submitted
  BY DEF IInv, ItemsOK, ContentInv, ItemsHold
<1>2. PICK e, k, value, group :
        /\ e = i.env /\ k = i.key
        /\ value = (IF i.value = Operator THEN v ELSE i.value)
        /\ group = (IF Live(i.env, i.key) THEN row[i.env][i.key].group ELSE << >>)
  OBVIOUS
<1>3. PICK r : r = NewRow(e, k, i.vis, value, group)
  OBVIOUS
<1>4. /\ SetRow(e, k, r) /\ open' = open \ {i} /\ writes < MaxWrites /\ writes' = writes + 1
      /\ UNCHANGED <<archived, token, request, opened, recorded>>
  BY <1>2, <1>3 DEF ApplyRequest, SetRow
<1>5. value \in Strings
  BY <1>1, <1>2, TextsAreStrings DEF Submitted
<1>6. group \in G
  <2>1. RowHolds(G, row[e][k])
    BY <1>1, <1>2 DEF ContentInv, RowsHold
  <2> QED
    BY <1>2, <2>1 DEF RowHolds, Live, NoRow, GroupsIn
<1>7. RowHolds(G, r)
  BY <1>1, <1>2, <1>3, <1>5, <1>6, NewRowHolds DEF GroupsIn
<1>8. r.ver = row[e][k].ver + 1
  BY <1>3 DEF NewRow, Version
<1>9. e \in Environments /\ k \in Keys /\ open' \subseteq open
  BY <1>1, <1>2, <1>4
<1> QED
  BY <1>4, <1>7, <1>8, <1>9, WriteContent

\* The version of a live row is one it has.
LEMMA LiveVersion ==
  ASSUME IInv, NEW e \in Environments, NEW k \in Keys, Live(e, k)
  PROVE  row[e][k].ver \in 1..row[e][k].ver
<1>1. row[e][k].ver \in Nat /\ row[e][k].ver # 0
  BY RowFacts DEF IInv, Live
<1> QED
  BY <1>1

\* A step on items keeps the invariant when the items hold text and past versions.
LEMMA ItemsContent ==
  ASSUME NEW G, ContentInv(G), ItemsHold', RequestsHold(G)',
         UNCHANGED <<row, archived, token, writes, recorded>>
  PROVE  ContentInv(G)'
BY DEF ContentInv, RowsHold, TokensHold, BoundsOK

\* requests::create and the end of a request.
LEMMA OpenCloseContent ==
  ASSUME NEW G, IInv, ContentInv(G),
         \/ \E e \in Environments, k \in Keys, vis \in Visibility, value \in Values :
              OpenRequest(e, k, vis, value)
         \/ \E i \in open : CloseRequest(i)
  PROVE  ContentInv(G)'
<1>1. ASSUME NEW e \in Environments, NEW k \in Keys, NEW vis \in Visibility,
             NEW value \in Values, OpenRequest(e, k, vis, value)
      PROVE  ContentInv(G)'
  <2>1. PICK i : i = Item(opened + 1, e, k, vis, value)
    OBVIOUS
  <2>2. /\ i.env = e /\ i.key = k /\ i.value = value
        /\ i.base = IF Live(e, k) THEN row[e][k].ver ELSE 0
    BY <2>1 DEF Item, Version
  <2>3. open' = open \cup {i} /\ UNCHANGED <<row, archived, token, request, writes, recorded>>
    BY <1>1, <2>1 DEF OpenRequest
  <2>4. i.value \in Submitted /\ (i.base = 0 \/ i.base \in 1..row[i.env][i.key].ver)
    BY <2>2, LiveVersion, TextsAreStrings DEF Submitted
  <2>5. ItemsHold'
    BY <2>3, <2>4 DEF ContentInv, ItemsHold
  <2> QED
    BY <2>3, <2>5, ItemsContent DEF ContentInv, RequestsHold
<1>2. ASSUME NEW i \in open, CloseRequest(i)
      PROVE  ContentInv(G)'
  <2>1. open' = open \ {i} /\ UNCHANGED <<row, archived, token, request, writes, recorded>>
    BY <1>2 DEF CloseRequest
  <2>2. ItemsHold'
    BY <2>1 DEF ContentInv, ItemsHold
  <2> QED
    BY <2>1, <2>2, ItemsContent DEF ContentInv, RequestsHold
<1> QED
  BY <1>1, <1>2

\* set_archived leaves an environment that is not archived.
LEMMA ArchiveContent ==
  ASSUME NEW G, ContentInv(G), NEW e \in Environments, Archive(e) \/ Restore(e)
  PROVE  ContentInv(G)'
<1>1. UNCHANGED <<row, open, token, request, writes, opened, recorded>>
  BY DEF Archive, Restore
<1>2. BoundsOK'
  BY DEF Archive, Restore, ContentInv, BoundsOK
<1> QED
  BY <1>1, <1>2 DEF ContentInv, RowsHold, ItemsHold, TokensHold, RequestsHold

\* The steps of everyone but imports and coordinated edits.
LEMMA OthersContent ==
  ASSUME NEW G, GroupsIn(G), IInv, ContentInv(G), Others
  PROVE  ContentInv(G)'
<1>1. EditedKeys \subseteq Keys
  BY ImportAssumption
<1> QED
  BY <1>1, DirectWriteContent, DirectDeleteContent, ApplyContent, OpenCloseContent, ArchiveContent
     DEF Others

\* An import writes what its handler holds.
LEMMA CommitContent ==
  ASSUME NEW G, GroupsIn(G), IInv, ContentInv(G), NEW w \in Workers, CommitImport(w)
  PROVE  ContentInv(G)'
<1>1. PICK r : r = request[w]
  OBVIOUS
<1>2. r.at = "import" /\ FromPreview(r, token) /\ r.env \in Environments
  BY <1>1, CommitFacts
<1>3. Forward(w, Idle) /\ UNCHANGED <<open, archived, token, writes, opened>>
  BY <1>1, CommitFacts
<1>4. recorded' = [recorded EXCEPT ![r.token] = @ + IF Changing(r) = {} THEN 0 ELSE 1]
  BY <1>1 DEF CommitImport
<1>5. ASSUME NEW f \in Environments, NEW k \in Keys, f # r.env \/ WritesOf(r, k) = {}
      PROVE  row'[f][k] = row[f][k]
  BY <1>1, <1>5, CommitFacts
<1>6. row' = [row EXCEPT ![r.env] =
                [k \in Keys |-> IF WritesOf(r, k) # {} THEN Imported(r, k) ELSE row[r.env][k]]]
  BY <1>1 DEF CommitImport
<1>7. \A k \in Keys : WritesOf(r, k) # {} => row'[r.env][k] = Imported(r, k)
  BY <1>2, <1>6 DEF IInv, RowsOK
<1>8. ASSUME NEW k \in Keys, WritesOf(r, k) # {}
      PROVE  row'[r.env][k].ver = row[r.env][k].ver + 1
  <2>1. PICK d : d = r.writes[CHOOSE i \in WritesOf(r, k) : TRUE].write
    OBVIOUS
  <2>2. Imported(r, k) = NewRow(r.env, k, d.vis, d.value, d.group)
    BY <2>1 DEF Imported
  <2>3. NewRow(r.env, k, d.vis, d.value, d.group).ver = row[r.env][k].ver + 1
    BY DEF NewRow, Version
  <2> QED
    BY <1>7, <1>8, <2>2, <2>3
<1>9. ASSUME NEW k \in Keys, WritesOf(r, k) # {} PROVE RowHolds(G, Imported(r, k))
  <2>1. PICK i : i = CHOOSE j \in WritesOf(r, k) : TRUE
    OBVIOUS
  <2>2. i \in WritesOf(r, k)
    BY <1>9, <2>1
  <2>3. i \in DOMAIN r.writes
    BY <2>2 DEF WritesOf, Changing
  <2>4. PICK d : d = r.writes[i].write
    OBVIOUS
  <2>5. EntryHolds(G, d) /\ d.vis \in Visibility
    BY <1>1, <1>2, <2>3, <2>4 DEF ContentInv, RequestsHold, RequestHolds, FromPreview
  <2>6. Imported(r, k) = NewRow(r.env, k, d.vis, d.value, d.group)
    BY <1>1, <2>1, <2>4 DEF Imported
  <2> QED
    BY <1>2, <2>5, <2>6, NewRowHolds DEF EntryHolds, GroupsIn
<1>10. RowsHold(G)'
  <2> SUFFICES ASSUME NEW f \in Environments, NEW k \in Keys PROVE RowHolds(G, row'[f][k])
    BY DEF RowsHold
  <2>1. CASE f = r.env /\ WritesOf(r, k) # {}
    BY <1>7, <1>9, <2>1
  <2>2. CASE ~(f = r.env /\ WritesOf(r, k) # {})
    BY <1>5, <2>2 DEF ContentInv, RowsHold
  <2> QED
    BY <2>1, <2>2
<1>11. RowsOK'
  BY CommitStep DEF IInv
<1>12. Grows(row, row')
  <2> SUFFICES ASSUME NEW f \in Environments, NEW k \in Keys
               PROVE  row'[f][k] = row[f][k] \/ row[f][k].ver < row'[f][k].ver
    BY DEF Grows
  <2>1. row[f][k].ver \in Nat
    BY RowFacts DEF IInv
  <2> QED
    BY <1>5, <1>8, <2>1
<1>13. ItemsHold'
  BY <1>11, <1>12, <1>3, ItemsAge DEF ContentInv
<1>14. RequestsHold(G)'
  <2>1. RequestHolds(G, Idle)
    BY DEF RequestHolds, Idle
  <2> QED
    BY <1>3, <2>1 DEF Forward, IInv, RequestsOK, RequestsHold, ContentInv
<1>15. BoundsOK'
  <2>1. recorded \in [Tokens -> Nat] /\ r.token \in Tokens
    BY <1>2 DEF ContentInv, BoundsOK, FromPreview
  <2>2. PICK d, t : d = (IF Changing(r) = {} THEN 0 ELSE 1) /\ t = r.token
    OBVIOUS
  <2>3. d \in Nat /\ recorded' = [recorded EXCEPT ![t] = @ + d]
    BY <1>4, <2>2
  <2>4. recorded' \in [Tokens -> Nat]
    <3>1. t \in Tokens
      BY <2>1, <2>2
    <3> QED
      BY ONLY <2>1, <2>3, <3>1
  <2> QED
    BY <1>3, <2>4 DEF ContentInv, BoundsOK
<1> QED
  BY <1>3, <1>10, <1>13, <1>14, <1>15 DEF ContentInv, TokensHold

\* The page of a coordinated edit brings nothing in; its form, values of operators.
LEMMA PageContent ==
  ASSUME NEW G, IInv, ContentInv(G), NEW w \in Workers,
         \/ \E k \in Keys : OpenPage(w, k)
         \/ /\ request[w].at = "page"
            /\ \E vis \in Visibility :
                 \E value \in [DOMAIN request[w].cells -> Values \cup {None, Operator}] :
                   PrepareShared(w, vis, value)
  PROVE  ContentInv(G)'
<1>1. ASSUME NEW k \in Keys, OpenPage(w, k) PROVE ContentInv(G)'
  <2>1. PICK r : r = [at |-> "page", key |-> k,
                      cells |-> [e \in Targets(k) |-> [ver |-> SnapshotOf(k).targets[e].ver,
                                                       value |-> Shown(SnapshotOf(k).targets, e)]]]
    OBVIOUS
  <2>2. Forward(w, r) /\ UNCHANGED <<row, open, archived, token, writes, opened, recorded>>
    BY <1>1, <2>1 DEF OpenPage
  <2>3. RequestHolds(G, r)
    BY <2>1 DEF RequestHolds
  <2> QED
    BY <2>2, <2>3, HandlerContent
<1>2. ASSUME NEW vis \in Visibility,
             NEW value \in [DOMAIN request[w].cells -> Values \cup {None, Operator}],
             PrepareShared(w, vis, value)
      PROVE  ContentInv(G)'
  <2>1. PICK q, r : /\ q = request[w]
                    /\ r = [at |-> "shared", key |-> q.key, vis |-> vis, value |-> value,
                            cells |-> q.cells, snapshot |-> SnapshotOf(q.key)]
    OBVIOUS
  <2>2. Forward(w, r) /\ UNCHANGED <<row, open, archived, token, writes, opened, recorded>>
    BY <1>2, <2>1 DEF PrepareShared
  <2>3. \A e \in DOMAIN r.cells : r.value[e] \in Submitted \cup {None}
    BY <2>1, TextsAreStrings DEF Submitted
  <2>4. RequestHolds(G, r)
    BY <2>1, <2>3 DEF RequestHolds
  <2> QED
    BY <2>2, <2>4, HandlerContent
<1> QED
  BY <1>1, <1>2

\* The requests of a coordinated edit propose text, on versions that are current.
LEMMA SharedContent ==
  ASSUME NEW G, IInv, ContentInv(G), NEW w \in Workers, PersistShared(w)
  PROVE  ContentInv(G)'
<1>1. PICK r, rows, k : r = request[w] /\ rows = r.snapshot.targets /\ k = r.key
  OBVIOUS
<1>2. /\ r.at = "shared" /\ Forward(w, Idle) /\ SnapshotHolds(r)
      /\ open' = open \cup {[id |-> opened + 1, env |-> e, key |-> k, vis |-> r.vis,
                             value |-> Proposed(rows, e, r.value), base |-> rows[e].ver] :
                               e \in ChangedIn(rows, r.vis, r.value)}
      /\ UNCHANGED <<row, archived, token, writes, recorded>>
  BY <1>1 DEF PersistShared, Done
<1>3. FromPage(r, row) /\ FromEdit(r)
  BY <1>1, <1>2 DEF IInv, RequestsOK, RequestOK
<1>4. k \in Keys /\ rows = [e \in Targets(k) |-> row[e][k]] /\ DOMAIN rows = DOMAIN r.cells
  BY <1>1, <1>2, <1>3 DEF SnapshotHolds, SnapshotOf, FromPage, FromEdit
<1>5. ASSUME NEW e \in ChangedIn(rows, r.vis, r.value)
      PROVE  /\ Proposed(rows, e, r.value) \in Submitted
             /\ rows[e].ver \in 1..row[e][k].ver
  <2>1. e \in DOMAIN r.cells /\ e \in Targets(k) /\ rows[e] = row[e][k]
    BY <1>4 DEF ChangedIn
  <2>2. e \in Environments /\ Live(e, k)
    BY <2>1 DEF Targets
  <2>3. r.value[e] \in Submitted \cup {None}
    BY <1>1, <1>2, <2>1 DEF ContentInv, RequestsHold, RequestHolds
  <2>4. rows[e].value \in Strings
    <3>1. RowHolds(G, row[e][k]) /\ row[e][k] # NoRow
      BY <1>4, <2>2 DEF ContentInv, RowsHold, Live, NoRow
    <3> QED
      BY <2>1, <3>1 DEF RowHolds, IsRow
  <2>5. Proposed(rows, e, r.value) \in Submitted
    BY <2>3, <2>4 DEF Proposed, Submitted
  <2>6. row[e][k].ver \in 1..row[e][k].ver
    BY <1>4, <2>2, LiveVersion
  <2> QED
    BY <2>1, <2>5, <2>6
<1>6. ItemsHold'
  <2> SUFFICES ASSUME NEW i \in open'
               PROVE  i.value \in Submitted /\ (i.base = 0 \/ i.base \in 1..row[i.env][i.key].ver)
    BY <1>2 DEF ItemsHold
  <2>1. CASE i \in open
    BY <2>1 DEF ContentInv, ItemsHold
  <2>2. CASE i \notin open
    <3>1. PICK e \in ChangedIn(rows, r.vis, r.value) :
            i = [id |-> opened + 1, env |-> e, key |-> k, vis |-> r.vis,
                 value |-> Proposed(rows, e, r.value), base |-> rows[e].ver]
      BY <1>2, <2>2
    <3> QED
      BY <1>5, <3>1
  <2> QED
    BY <2>1, <2>2
<1>7. RequestsHold(G)'
  <2>1. RequestHolds(G, Idle)
    BY DEF RequestHolds, Idle
  <2> QED
    BY <1>2, <2>1 DEF Forward, IInv, RequestsOK, RequestsHold, ContentInv
<1> QED
  BY <1>2, <1>6, <1>7, ItemsContent

\* Every step keeps the second invariant, when files do.
LEMMA NextContent ==
  ASSUME NEW G, GroupsIn(G), FilesHold(G), IInv, ContentInv(G), [Next]_vars
  PROVE  ContentInv(G)'
<1>1. CASE UNCHANGED vars
  BY <1>1 DEF vars, ContentInv, RowsHold, ItemsHold, TokensHold, RequestsHold, BoundsOK
<1>2. ASSUME NEW t \in {u \in Tokens : token[u] = NoPreview}, NEW e \in Environments,
             NEW text \in Texts \cup {Export(f) : f \in Environments}, Preview(t, e, text)
      PROVE  ContentInv(G)'
  BY <1>2, PreviewContent
<1>3. ASSUME NEW w \in Workers, Deployed(w)
      PROVE  ContentInv(G)'
  <2>1. CASE Abandon(w)
    <3>1. RequestHolds(G, Idle)
      BY DEF RequestHolds, Idle
    <3> QED
      BY <2>1, <3>1, HandlerContent DEF Abandon, Done
  <2> QED
    BY <1>3, <2>1, PrepareContent, CommitContent DEF Deployed
<1>4. ASSUME NEW w \in Editors, SharedEdit(w)
      PROVE  ContentInv(G)'
  <2>1. w \in Workers /\ EditedKeys \subseteq Keys
    BY ImportAssumption
  <2> QED
    BY <1>4, <2>1, PageContent, SharedContent DEF SharedEdit
<1> QED
  BY <1>1, <1>2, <1>3, <1>4, OthersContent DEF Next

\* A finite set, as a sequence without repetitions.
LEMMA SetListed ==
  ASSUME NEW S, IsFiniteSet(S), NEW n, n = Cardinality(S), NEW f, f = SetToSeq(S)
  PROVE  n \in Nat /\ f \in [1..n -> S] /\ \A i, j \in 1..n : f[i] = f[j] => i = j
<1>1. n \in Nat /\ ExistsBijection(1..n, S)
  BY FS_CardinalityType
<1>2. PICK g : g \in Bijection(1..n, S)
  BY <1>1 DEF ExistsBijection
<1>3. g \in [1..n -> S] /\ IsInjective(g)
  BY <1>2 DEF Bijection, Injection
<1>4. f = CHOOSE h \in [1..n -> S] : IsInjective(h)
  BY DEF SetToSeq
<1>5. f \in [1..n -> S] /\ IsInjective(f)
  BY <1>3, <1>4
<1> QED
  BY <1>1, <1>5 DEF IsInjective

\* What an environment holds, as entries: every key once, and what its rows hold.
LEMMA EntriesHold ==
  ASSUME NEW G, IInv, RowsHold(G), NEW e \in Environments, NEW es, es = Entries(e)
  PROVE  /\ es \in Seq([key : Keys, value : Strings, group : G])
         /\ Len(es) <= Cardinality(Keys)
         /\ \A i, j \in 1..Len(es) : es[i].key = es[j].key => i = j
<1>1. PICK S, n, live : /\ S = {k \in Keys : Live(e, k)} /\ n = Cardinality(S)
                        /\ live = SetToSeq(S)
  OBVIOUS
<1>2. S \in SUBSET Keys
  BY <1>1
<1>3. IsFiniteSet(S) /\ n <= Cardinality(Keys)
  BY <1>1, <1>2, ImportAssumption, FS_Subset
<1>4. n \in Nat /\ live \in [1..n -> S] /\ \A i, j \in 1..n : live[i] = live[j] => i = j
  <2>1. IsFiniteSet(S) /\ n = Cardinality(S) /\ live = SetToSeq(S)
    BY <1>1, <1>3
  <2> QED
    BY ONLY <2>1, SetListed
<1>5. es = [i \in 1..n |-> [key |-> live[i], value |-> row[e][live[i]].value,
                            group |-> row[e][live[i]].group]]
  BY <1>1, <1>4 DEF Entries
<1>6. PICK E : E = [key : Keys, value : Strings, group : G]
  OBVIOUS
<1>7. ASSUME NEW i \in 1..n PROVE es[i] \in E /\ es[i].key = live[i]
  <2>1. PICK k : k = live[i]
    OBVIOUS
  <2>2. k \in Keys /\ Live(e, k)
    BY <1>1, <1>4, <2>1
  <2>3. PICK x : x = row[e][k]
    OBVIOUS
  <2>4. x # NoRow /\ RowHolds(G, x)
    BY <2>2, <2>3 DEF Live, NoRow, RowsHold
  <2>5. x.value \in Strings /\ x.group \in G
    BY <2>4 DEF RowHolds, IsRow
  <2>6. es[i] = [key |-> k, value |-> x.value, group |-> x.group]
    BY <1>5, <2>1, <2>3
  <2> QED
    BY <1>6, <2>1, <2>2, <2>5, <2>6
<1>8. es \in [1..n -> E]
  BY <1>5, <1>7
<1>9. es \in Seq(E) /\ Len(es) = n
  BY ONLY <1>4, <1>8
<1>10. \A i, j \in 1..n : es[i].key = es[j].key => i = j
  BY <1>4, <1>7
<1> QED
  BY <1>3, <1>6, <1>9, <1>10

\* Tokens of texts.
LEMMA AlphabetCloses == Closes(Alphabet) /\ Marks \cup Keys \subseteq Alphabet
<1>1. Marks \subseteq Alphabet /\ Keys \subseteq Alphabet
  BY DEF Alphabet
<1>2. {"\n", "\r", "\t"} \subseteq Marks
  BY DEF Marks
<1> QED
  BY <1>1, <1>2 DEF Closes

\* Groups of direct writes are strings.
LEMMA StringGroups == GroupsIn(Strings)
<1>1. << >> \in Strings
  BY DEF Strings
<1> QED
  BY <1>1, TextsAreStrings DEF GroupsIn

\* Files, exports included, hold text.
LEMMA FilesHoldStrings ==
  ASSUME IInv, RowsHold(Strings)
  PROVE  FilesHold(Strings)
<1> SUFFICES ASSUME NEW text \in Texts \cup {Export(f) : f \in Environments},
                    NEW i \in DOMAIN Parse(text).entries
             PROVE  EntryHolds(Strings, Parse(text).entries[i])
  BY DEF FilesHold
<1>1. PICK S, A, E : S = Strings /\ A = Alphabet /\ E = EntriesOf(Alphabet)
  OBVIOUS
<1>2. text \in Seq(A)
  <2>1. CASE text \in Texts
    BY <1>1, <2>1, TextsAreStrings DEF Strings
  <2>2. CASE text \notin Texts
    <3>1. PICK f \in Environments : text = Export(f)
      BY <2>2
    <3>2. PICK es : es = Entries(f)
      OBVIOUS
    <3>3. es \in Seq([key : Keys, value : Strings, group : Strings])
      BY <3>2, EntriesHold
    <3>4. es \in Seq(EntriesOf(A))
      BY <1>1, <3>3 DEF EntriesOf, Strings
    <3>5. Render(es) \in Seq(A)
      BY <1>1, <3>4, AlphabetCloses, RenderSeq
    <3> QED
      BY <3>1, <3>2, <3>5 DEF Export
  <2> QED
    BY <2>1, <2>2
<1>3. PICK es : es = Parse(text).entries
  OBVIOUS
<1>4. es \in Seq(EntriesOf(A))
  BY <1>1, <1>2, <1>3, AlphabetCloses, EntriesParsed
<1>5. es \in Seq(E) /\ i \in DOMAIN es
  BY <1>1, <1>3, <1>4
<1>6. es[i] \in E
  BY ONLY <1>5
<1> QED
  BY <1>1, <1>3, <1>6 DEF EntryHolds, EntriesOf, Strings

\* The second invariant holds for all texts.
LEMMA ContentInvariant == Spec => []ContentInv(Strings)
<1>1. Init => ContentInv(Strings)
  BY InitContent
<1>2. IInv /\ ContentInv(Strings) /\ [Next]_vars => ContentInv(Strings)'
  <2> SUFFICES ASSUME IInv, ContentInv(Strings), [Next]_vars PROVE ContentInv(Strings)'
    OBVIOUS
  <2>1. FilesHold(Strings)
    BY FilesHoldStrings DEF ContentInv
  <2> QED
    BY <2>1, StringGroups, NextContent
<1> QED
  BY <1>1, <1>2, ImportInvariant, PTL DEF Spec

\* What the two invariants say of types.
LEMMA ContentTypes == ASSUME IInv, ContentInv(Strings) PROVE TypeOK
<1>1. \A e \in Environments, k \in Keys : row[e][k] = NoRow \/ IsRow(row[e][k])
  BY DEF ContentInv, RowsHold, RowHolds
<1>2. ASSUME NEW i \in open
      PROVE  /\ i.id \in 1..opened /\ i.env \in Environments /\ i.key \in Keys
             /\ i.vis \in Visibility /\ i.value \in Strings \cup {Operator}
             /\ i.base = 0 \/ i.base \in 1..row[i.env][i.key].ver
  BY DEF IInv, ItemsOK, ContentInv, ItemsHold, Submitted
<1>3. opened \in Nat
  BY DEF IInv, ItemsOK
<1> QED
  BY <1>1, <1>2, <1>3 DEF TypeOK, ContentInv, BoundsOK

\* Rows hold values and groups of text, items what they were submitted with, on a version
\* their variable has had, and an App keeps an environment that is not archived
\* (src/src/variables/mod.rs and src/src/requests/mod.rs; environments::set_archived).
THEOREM ImportTypes == Spec => []TypeOK
<1>1. IInv /\ ContentInv(Strings) => TypeOK
  BY ContentTypes
<1> QED
  BY <1>1, ImportInvariant, ContentInvariant, PTL

--------------------------------------------------------------------------------
(* Exports can be imported.                                                     *)

\* The group names that a heading preserves are strings.
LEMMA KeptGroups == ASSUME Exportable PROVE GroupsIn(Kept(Alphabet))
<1>1. PICK none : none = << >>
  OBVIOUS
<1>2. Trim(none) = none
  BY <1>1, TrimEmpty
<1>3. TrimOf(none, Decoration) = none
  BY <1>1 DEF TrimOf, Between
<1>4. NormalizeGroupName(none) = none
  BY <1>2, <1>3 DEF NormalizeGroupName
<1>5. none \in Seq(Alphabet \ {"\n"})
  BY <1>1
<1>6. << >> \in Kept(Alphabet)
  BY <1>1, <1>4, <1>5 DEF Kept
<1>7. ASSUME NEW g \in Kept(Alphabet) PROVE g \in Strings
  <2>1. g \in Seq(Alphabet \ {"\n"})
    BY DEF Kept
  <2> QED
    BY <2>1, SeqWithout DEF Strings
<1> QED
  BY <1>6, <1>7 DEF GroupsIn, Exportable

\* What an environment with variables exports is what it holds.
LEMMA ExportRead ==
  ASSUME Exportable, IInv, RowsHold(Kept(Alphabet)), NEW e \in Environments,
         NEW es, es = Entries(e), es # << >>, NEW file, file = Parse(Export(e))
  PROVE  file.ok /\ ToSet(file.entries) = ToSet(es)
<1>1. /\ es \in Seq([key : Keys, value : Seq(Alphabet), group : Kept(Alphabet)])
      /\ Len(es) <= Cardinality(Keys)
      /\ \A i, j \in 1..Len(es) : es[i].key = es[j].key => i = j
  BY EntriesHold DEF Strings
<1>2. Cardinality(Keys) <= MaxEntries /\ Cardinality(Keys) \in Nat
  BY ImportAssumption, FS_CardinalityType DEF Exportable
<1>3. Len(es) \in 1..MaxEntries
  <2>1. PICK E, n : E = [key : Keys, value : Seq(Alphabet), group : Kept(Alphabet)] /\ n = Len(es)
    OBVIOUS
  <2>2. es \in Seq(E) /\ n = Len(es) /\ es # << >>
    BY <1>1, <2>1
  <2>3. n \in Nat /\ n # 0
    BY ONLY <2>2
  <2> QED
    BY <1>1, <1>2, <2>1, <2>3, DotenvAssumption
<1>4. Listed(Alphabet, es)
  BY <1>1, <1>3 DEF Listed
<1>5. /\ Parse(Render(es)) = [ok |-> TRUE, entries |-> Ordered(es)]
      /\ ToSet(Ordered(es)) = ToSet(es)
  BY <1>4, ExportsReadBack
<1>6. file = [ok |-> TRUE, entries |-> Ordered(es)]
  BY <1>5 DEF Export
<1> QED
  BY <1>5, <1>6

\* The groups of a file are kept by a heading, when those of uploaded files are.
LEMMA FilesHoldKept ==
  ASSUME Exportable, IInv, RowsHold(Kept(Alphabet))
  PROVE  FilesHold(Kept(Alphabet))
<1>1. RowsHold(Strings)
  BY KeptGroups DEF RowsHold, RowHolds, GroupsIn, IsRow
<1>2. FilesHold(Strings)
  BY <1>1, FilesHoldStrings
<1> SUFFICES ASSUME NEW text \in Texts \cup {Export(f) : f \in Environments},
                    Parse(text).ok, NEW i \in DOMAIN Parse(text).entries
             PROVE  Parse(text).entries[i].group \in Kept(Alphabet)
  BY <1>2 DEF FilesHold, EntryHolds
<1>3. PICK file : file = Parse(text)
  OBVIOUS
<1>4. CASE text \in Texts
  BY <1>4 DEF Exportable
<1>5. CASE text \notin Texts
  <2>1. PICK e \in Environments : text = Export(e)
    BY <1>5
  <2>2. PICK es : es = Entries(e)
    OBVIOUS
  <2>3. es # << >>
    BY <2>1, <2>2, NothingRefused DEF Export
  <2>4. ToSet(file.entries) = ToSet(es)
    BY <1>3, <2>1, <2>2, <2>3, ExportRead
  <2>5. file.entries[i] \in ToSet(file.entries)
    BY <1>3 DEF ToSet
  <2>6. PICK j \in DOMAIN es : es[j] = file.entries[i]
    BY <2>4, <2>5 DEF ToSet
  <2>7. PICK E : E = [key : Keys, value : Strings, group : Kept(Alphabet)]
    OBVIOUS
  <2>8. es \in Seq(E) /\ j \in DOMAIN es
    BY <2>2, <2>7, EntriesHold
  <2>9. es[j] \in E
    BY ONLY <2>8
  <2> QED
    BY <1>3, <2>6, <2>7, <2>9
<1> QED
  BY <1>4, <1>5

\* Stated for files and groups that a heading preserves, and for no more keys than an export
\* may have: whatever is recorded, what an environment exports can be recorded again and is
\* the same (docs/architecture.md, "a fully identical import adds no change event").
THEOREM ExportsReimport ==
  ASSUME Exportable
  PROVE  Spec => []ExportReimports
<1>1. Init => ContentInv(Kept(Alphabet))
  BY InitContent
<1>2. IInv /\ ContentInv(Kept(Alphabet)) /\ [Next]_vars => ContentInv(Kept(Alphabet))'
  <2> SUFFICES ASSUME IInv, ContentInv(Kept(Alphabet)), [Next]_vars
               PROVE  ContentInv(Kept(Alphabet))'
    OBVIOUS
  <2>1. FilesHold(Kept(Alphabet))
    BY FilesHoldKept DEF ContentInv
  <2> QED
    BY <2>1, KeptGroups, NextContent
<1>3. IInv /\ ContentInv(Kept(Alphabet)) => ExportReimports
  <2> SUFFICES ASSUME IInv, ContentInv(Kept(Alphabet)), NEW e \in Environments,
                      Entries(e) # << >>
               PROVE  /\ Parse(Export(e)).ok
                      /\ ToSet(Parse(Export(e)).entries) = ToSet(Entries(e))
    BY DEF ExportReimports
  <2> QED
    BY ExportRead DEF ContentInv
<1> QED
  BY <1>1, <1>2, <1>3, ImportInvariant, PTL DEF Spec

================================================================================
