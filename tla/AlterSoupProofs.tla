-------------------------- MODULE AlterSoupProofs --------------------------
(***************************************************************************)
(* Proofs about AlterSoup, for any set of threads and of elements, and any *)
(* selection of what may happen during each alteration.                    *)
(*                                                                         *)
(* TypeInv holds whatever happens: by the last step committed it says      *)
(* which table exists, with which columns, and where the loop over the     *)
(* elements stands (AlterInv, StepInv, RowsInv), and what the calls hold   *)
(* before and after the change of a file (AppInv, CallInv).  The two       *)
(* properties need more than types: LayoutInv, that the cached features    *)
(* are those of the table; MovedInv, that a file the loop has written      *)
(* holds the element of its row; KeptInv, that the column of a path that   *)
(* is indexed all along follows its element from the old table, through    *)
(* the memory of the loop, to the new one, but for an element whose file a *)
(* call has changed and not its row (Loose).  Calls, crashes and files     *)
(* that cannot be saved can break these while elements move between rows   *)
(* and files: KeepsContent and KeepsIndexes name the ones that do.         *)
(***************************************************************************)
EXTENDS AlterSoup, FiniteSetTheorems, WellFoundedInduction, TLAPS

Running == alter.pc \in {"ready", "begun", "blobs"}

\* The alteration runs, and has since it was asked for: the process has not died.
Fresh == Running /\ ~alter.resumed

NoRows == NoTable.rows
Known  == <<details.from, details.to>> \in DOMAIN Ops

\* What the thread of the operation holds, and where it stands.
AlterInv ==
    /\ Known
    /\ Running => alter.step = db.status
    /\ alter.pc # "blobs" => alter.moved = NoRows
    /\ alter.pc = "blobs" =>
          /\ ~alter.resumed
          /\ db.status = "REGISTER_SOUP_USING_TABLE_NAME"
          /\ details.from # details.to
          /\ DOMAIN db.soup.rows \intersect DOMAIN db.old.rows = {}
          /\ db.old.rows # NoRows
          /\ alter.todo \subseteq DOMAIN db.old.rows
          /\ details.to = "external" => alter.moved = NoRows
          /\ details.to = "internal" => DOMAIN alter.moved = DOMAIN db.old.rows \ alter.todo
          /\ db.soup.layout # "internal" => alter.moved = NoRows

OldCounts == {"RENAME_OLD_SOUP_TABLE", "DROP_OLD_INDEXES", "REGISTER_SOUP_USING_TABLE_NAME"}

\* The tables and the index specs, by the last step that has committed.
StepInv ==
    /\ db.specs # "new" <=> \/ db.status \in {"STARTING", "RENAME_OLD_SOUP_TABLE",
                                             "DROP_OLD_INDEXES"}
                            \/ db.status = "none" /\ db.specs = "old"
    /\ db.specs = "none" <=> db.status = "DROP_OLD_INDEXES"
    /\ db.features = IF db.specs = "new" THEN details.to ELSE details.from
    /\ db.status \in {"RENAME_OLD_SOUP_TABLE", "DROP_OLD_INDEXES"} => db.soup = NoTable
    /\ db.status \in {"STARTING", "none"} => db.old = NoTable
    /\ db.status \in {"STARTING", "none"} /\ db.specs = "old" => db.soup.layout = details.from
    /\ db.specs = "new" => db.soup.layout # "none"
    /\ db.status \in OldCounts => db.old.layout = details.from

\* The contents of the columns, whatever happens to the files.
RowsInv ==
    /\ \A i \in DOMAIN db.soup.rows : db.soup.rows[i].kept \in Values
    /\ \A i \in DOMAIN db.old.rows : db.old.rows[i].kept \in Values
    /\ db.specs # "new" => cache \in {"none", details.from}
    /\ db.soup.layout = "internal" /\ db.specs # "new" =>
          \A i \in DOMAIN db.soup.rows : db.soup.rows[i].body = db.soup.rows[i].kept
    /\ db.old.layout = "internal" =>
          \A i \in DOMAIN db.old.rows : db.old.rows[i].body = db.old.rows[i].kept

\* A thread in a method has its arguments, and is in one that may be called.
AppInv ==
    \A t \in Apps : app[t].pc = "entered" =>
        /\ MayHappen(app[t].op)
        /\ app[t].op # "delete" => app[t].value \in Values
        /\ app[t].op # "create" => app[t].id \in Ids

\* A thread that has changed a file, and not committed its row, has the connection
\* and the arguments of its call.
CallInv ==
    \A t \in Apps : app[t].pc = "written" =>
        /\ alter.pc \notin {"begun", "blobs"}
        /\ \A u \in Apps \ {t} : app[u].pc # "written"
        /\ app[t].id \in Ids
        /\ MayHappen(app[t].op)
        /\ db.specs # "none" /\ db.soup.layout # "none" /\ cache # "none"
        /\ app[t].op # "delete" => app[t].value \in Values
        /\ app[t].ok /\ cache = "external" =>
              BlobOf(app[t].id) = IF app[t].op = "delete" THEN NoValue ELSE app[t].value

TypeInv == TypeOK /\ AlterInv /\ StepInv /\ RowsInv /\ AppInv /\ CallInv

\* The features the cache may give are those of the table.
SameStorage == details.from = details.to
Refills == MayHappen("retrieve") \/ MayHappen("create")
Unstale == SameStorage \/ ~Refills \/ ~MayHappen("crash")

LayoutInv ==
    /\ ~Refills /\ db.specs = "none" => cache = "none"
    /\ db.specs = "new" => \/ cache = db.soup.layout
                           \/ cache = "none" /\ db.soup.layout = details.to
    /\ db.specs = "new" /\ (SameStorage \/ ~Refills) =>
          db.soup.layout = details.to

\* The files the loop has written hold the elements of their rows.
MovedInv ==
    /\ Fresh /\ db.specs = "new" /\ db.soup.layout = "external" => blobDir
    /\ alter.pc = "blobs" /\ details.to = "external" /\ ~MayHappen("unwritable") =>
          (db.soup.layout = "external" =>
              \A i \in DOMAIN db.old.rows \ alter.todo : BlobOf(i) = db.old.rows[i].body)

\* The column of the path indexed all along holds the element, but for those whose
\* file a call has changed and not their row.
KeptOf(table, i) == IF table.layout = "internal" THEN table.rows[i].body ELSE BlobOf(i)

Loose == torn \union HalfWritten

SoupKept == \A i \in DOMAIN db.soup.rows \ Loose : db.soup.rows[i].kept = KeptOf(db.soup, i)

OldKept ==
    db.status \in OldCounts /\
    (SameStorage \/ (Fresh /\ db.soup.layout # "external")) =>
       \A i \in DOMAIN db.old.rows \ Loose :
          (db.soup.layout = "external" => i \notin DOMAIN db.soup.rows) =>
             db.old.rows[i].kept = IF i \in DOMAIN alter.moved THEN alter.moved[i]
                                   ELSE KeptOf(db.old, i)

AddedKept ==
    db.status = "RE_INDEX_SOUP" \/ (db.status = "none" /\ db.specs = "new" /\ details.reIndex) =>
       \A i \in DOMAIN db.soup.rows \ torn : db.soup.rows[i].added = db.soup.rows[i].kept

\* What may happen during an alteration, for the index columns to stay current.  A
\* reader, or a create() that finds no table, caches the features of before and gives
\* the new table columns of the old storage: the copy from rows to files then writes no
\* file, and after a crash the features of the other table are no longer in the cache.
\* Nor does that copy look at whether a file could be saved.  A deletion by id removes
\* the file of a row that is in the renamed table only.
KeepsIndexes(a, ops) ==
    CASE a = <<"internal", "internal">> -> TRUE
      [] a = <<"internal", "external">> -> {"retrieve", "create", "unwritable"} \cap ops = {}
      [] a = <<"external", "external">> -> "delete" \notin ops
      [] a = <<"external", "internal">> -> "crash" \in ops => {"retrieve", "create"} \cap ops = {}

\* The same for the elements.  A crash in the loop from files to rows loses those whose
\* files it has removed; no index column tells, since the operation that is then resumed
\* never completes.
KeepsContent(a, ops) ==
    /\ a = <<"internal", "external">> => {"retrieve", "create", "unwritable"} \cap ops = {}
    /\ a = <<"external", "internal">> => "crash" \notin ops

Alteration == <<details.from, details.to>>
----------------------------------------------------------------------------
(* Types.                                                                  *)

Partial(T) == UNION {[S -> T] : S \in SUBSET Ids}

LEMMA PartialIs ==
  ASSUME NEW T, NEW f
  PROVE  f \in Partial(T) <=> /\ DOMAIN f \subseteq Ids
                              /\ f = [i \in DOMAIN f |-> f[i]]
                              /\ \A i \in DOMAIN f : f[i] \in T
<1>1. ASSUME f \in Partial(T)
      PROVE  /\ DOMAIN f \subseteq Ids
             /\ f = [i \in DOMAIN f |-> f[i]]
             /\ \A i \in DOMAIN f : f[i] \in T
  <2>1. PICK S \in SUBSET Ids : f \in [S -> T]
    BY <1>1 DEF Partial
  <2>2. QED
    BY <2>1
<1>2. ASSUME DOMAIN f \subseteq Ids, f = [i \in DOMAIN f |-> f[i]],
             \A i \in DOMAIN f : f[i] \in T
      PROVE  f \in Partial(T)
  <2>1. f \in [DOMAIN f -> T]
    BY <1>2
  <2>2. QED
    BY <1>2, <2>1 DEF Partial
<1>3. QED
  BY <1>1, <1>2

LEMMA NoRowsOK == DOMAIN NoRows = {} /\ \A T : NoRows \in Partial(T)
<1>1. NoRows = [i \in {} |-> NoValue]
  BY DEF NoRows, NoTable, EmptyTable
<1>2. DOMAIN NoRows = {} /\ \A T : NoRows \in [{} -> T]
  BY <1>1
<1>3. QED
  BY <1>2, {} \in SUBSET Ids, Zenon DEF Partial

LEMMA EmptyRows == ASSUME NEW T, NEW f \in Partial(T), DOMAIN f = {} PROVE f = NoRows
<1>1. NoRows = [i \in {} |-> NoValue]
  BY DEF NoRows, NoTable, EmptyTable
<1>2. QED
  BY <1>1, PartialIs

LEMMA TableIs ==
  ASSUME NEW t
  PROVE  t \in Table <=> /\ t = [layout |-> t.layout, seq |-> t.seq, rows |-> t.rows]
                         /\ t.layout \in {"internal", "external", "none"}
                         /\ t.seq \in 0 .. MaxId /\ t.rows \in Partial(Row)
  BY DEF Table, Rows, Partial, Layout

LEMMA EmptyTableOK ==
  ASSUME NEW layout \in {"internal", "external", "none"}
  PROVE  /\ EmptyTable(layout) \in Table
         /\ EmptyTable(layout).layout = layout /\ EmptyTable(layout).rows = NoRows
<1>1. /\ EmptyTable(layout).layout = layout /\ EmptyTable(layout).rows = NoRows
      /\ EmptyTable(layout).seq = 0
      /\ EmptyTable(layout) = [layout |-> layout, seq |-> 0, rows |-> NoRows]
  BY DEF EmptyTable, NoRows, NoTable
<1>2. 0 \in 0 .. MaxId
  BY MaxIdAssumption
<1>3. QED
  BY <1>1, <1>2, NoRowsOK, TableIs

LEMMA NoTableOK == NoTable \in Table /\ NoTable.layout = "none" /\ NoTable.rows = NoRows
  BY EmptyTableOK DEF NoTable

DbIs(d, soup, old, features, specs, status) ==
    d = [soup |-> soup, old |-> old, features |-> features, specs |-> specs,
         status |-> status]

Steps == Step \union {"none"}

LEMMA DatabaseOK ==
  ASSUME NEW d, NEW soup \in Table, NEW old \in Table, NEW features \in Layout,
         NEW specs \in {"old", "none", "new"}, NEW status \in Steps,
         DbIs(d, soup, old, features, specs, status)
  PROVE  /\ d \in Database
         /\ d.soup = soup /\ d.old = old /\ d.features = features /\ d.specs = specs
         /\ d.status = status
  BY DEF DbIs, Database, Steps

LEMMA DbFields ==
  ASSUME TypeOK
  PROVE  /\ DbIs(db, db.soup, db.old, db.features, db.specs, db.status)
         /\ db.soup \in Table /\ db.old \in Table /\ db.features \in Layout
         /\ db.specs \in {"old", "none", "new"} /\ db.status \in Steps
  BY DEF TypeOK, Database, DbIs, Steps

LEMMA TableFields ==
  ASSUME NEW t \in Table
  PROVE  /\ t.layout \in {"internal", "external", "none"} /\ t.seq \in 0 .. MaxId
         /\ t.rows \in Partial(Row) /\ DOMAIN t.rows \subseteq Ids
         /\ \A i \in DOMAIN t.rows : t.rows[i] \in Row
  BY TableIs, PartialIs

LEMMA CellIs == Values \subseteq Cell /\ NoValue \in Cell
  BY DEF Cell

LEMMA NotAlteringOK ==
  ASSUME NEW pc \in AlterPc
  PROVE  /\ NotAltering(pc) \in Alter
         /\ NotAltering(pc).pc = pc /\ NotAltering(pc).resumed = FALSE
         /\ NotAltering(pc).step = "STARTING" /\ NotAltering(pc).todo = {}
         /\ NotAltering(pc).moved = NoRows
<1>1. NotAltering(pc) = [pc |-> pc, resumed |-> FALSE, step |-> "STARTING", todo |-> {},
                         moved |-> NoRows]
  BY DEF NotAltering, NoRows, NoTable, EmptyTable
<1>2. NoRows \in UNION {[S -> Cell] : S \in SUBSET Ids}
  BY NoRowsOK DEF Partial
<1>3. QED
  BY <1>1, <1>2 DEF Alter, Step

LEMMA AlterFields ==
  ASSUME TypeOK
  PROVE  /\ alter = [pc |-> alter.pc, resumed |-> alter.resumed, step |-> alter.step,
                     todo |-> alter.todo, moved |-> alter.moved]
         /\ alter.pc \in AlterPc /\ alter.resumed \in BOOLEAN /\ alter.step \in Step
         /\ alter.todo \subseteq Ids /\ alter.moved \in Partial(Cell)
  BY DEF TypeOK, Alter, Partial

LEMMA IdleAppOK == IdleApp \in App /\ IdleApp.pc = "idle"
  BY DEF IdleApp, App, Cell

LEMMA Kinds ==
  ASSUME TypeOK
  PROVE  /\ details = [from |-> details.from, to |-> details.to, reIndex |-> details.reIndex]
         /\ details.from \in Layout /\ details.to \in Layout /\ details.reIndex \in BOOLEAN
         /\ blobs \in Partial(Values) /\ blobDir \in BOOLEAN
         /\ cache \in {"internal", "external", "none"} /\ app \in [Apps -> App]
         /\ torn \subseteq Ids
  BY DEF TypeOK, Partial, Layout
----------------------------------------------------------------------------
(* What the parts of a step do.                                            *)

LEMMA CommitEffect ==
  ASSUME TypeOK, NEW step \in Step, NEW soup \in Table, NEW old \in Table,
         NEW features \in Layout, NEW specs \in {"old", "none", "new"},
         NEW d, DbIs(d, soup, old, features, specs, d.status), Commit(step, d)
  PROVE  /\ DbIs(db', soup, old, features, specs, step) /\ db' \in Database
         /\ db'.soup = soup /\ db'.old = old /\ db'.features = features
         /\ db'.specs = specs /\ db'.status = step
         /\ alter' \in Alter /\ alter'.pc = "ready" /\ alter'.resumed = alter.resumed
         /\ alter'.step = step /\ alter'.moved = NoRows /\ alter'.todo = {}
<1>1. DbIs(db', soup, old, features, specs, step)
  BY DEF Commit, DbIs
<1>2. step \in Steps
  BY DEF Steps
<1>3. NotAltering("ready") \in Alter
  BY NotAlteringOK DEF AlterPc
<1>4. NotAltering("ready").pc = "ready" /\ NotAltering("ready").moved = NoRows
      /\ NotAltering("ready").todo = {}
  BY NotAlteringOK DEF AlterPc
<1>5. alter' = [NotAltering("ready") EXCEPT !.resumed = alter.resumed, !.step = step]
  BY DEF Commit
<1>6. /\ alter' \in Alter /\ alter'.pc = "ready" /\ alter'.resumed = alter.resumed
      /\ alter'.step = step /\ alter'.moved = NoRows /\ alter'.todo = {}
  BY <1>3, <1>4, <1>5, AlterFields DEF Alter
<1>7. QED
  BY <1>1, <1>2, <1>6, DatabaseOK

\* The thread of the operation after an exception, the end, a crash or an opening.
LEMMA NotAlteringEffect ==
  ASSUME NEW pc \in AlterPc, alter' = NotAltering(pc)
  PROVE  /\ alter' \in Alter /\ alter'.pc = pc /\ alter'.resumed = FALSE
         /\ alter'.step = "STARTING" /\ alter'.todo = {} /\ alter'.moved = NoRows
  BY NotAlteringOK

LEMMA WithPartial ==
  ASSUME NEW T, NEW f \in Partial(T), NEW i \in Ids, NEW v \in T
  PROVE  /\ With(f, i, v) \in Partial(T)
         /\ DOMAIN With(f, i, v) = DOMAIN f \union {i}
         /\ With(f, i, v)[i] = v
         /\ \A j \in DOMAIN f \ {i} : With(f, i, v)[j] = f[j]
<1>1. DOMAIN f \subseteq Ids /\ \A j \in DOMAIN f : f[j] \in T
  BY PartialIs
<1>2. With(f, i, v) = [j \in DOMAIN f \union {i} |-> IF j = i THEN v ELSE f[j]]
  BY DEF With
<1>3. /\ DOMAIN With(f, i, v) = DOMAIN f \union {i}
      /\ With(f, i, v)[i] = v
      /\ \A j \in DOMAIN f \ {i} : With(f, i, v)[j] = f[j]
  BY <1>2
<1>4. /\ DOMAIN With(f, i, v) \subseteq Ids
      /\ \A j \in DOMAIN With(f, i, v) : With(f, i, v)[j] \in T
  BY <1>1, <1>3
<1>5. With(f, i, v) = [j \in DOMAIN With(f, i, v) |-> With(f, i, v)[j]]
  BY <1>2
<1>6. QED
  BY <1>3, <1>4, <1>5, PartialIs

LEMMA LessPartial ==
  ASSUME NEW T, NEW f \in Partial(T), NEW i
  PROVE  /\ Restrict(f, DOMAIN f \ {i}) \in Partial(T)
         /\ DOMAIN Restrict(f, DOMAIN f \ {i}) = DOMAIN f \ {i}
         /\ \A j \in DOMAIN f \ {i} : Restrict(f, DOMAIN f \ {i})[j] = f[j]
<1>1. DOMAIN f \subseteq Ids /\ \A j \in DOMAIN f : f[j] \in T
  BY PartialIs
<1> DEFINE g == Restrict(f, DOMAIN f \ {i})
<1>2. g = [j \in DOMAIN f \ {i} |-> f[j]]
  BY DEF Restrict
<1>3. DOMAIN g = DOMAIN f \ {i} /\ \A j \in DOMAIN f \ {i} : g[j] = f[j]
  BY <1>2
<1>4. g = [j \in DOMAIN g |-> g[j]]
  BY <1>2
<1> HIDE DEF g
<1>5. g \in Partial(T)
  BY <1>1, <1>3, <1>4, PartialIs
<1>6. QED
  BY <1>3, <1>5 DEF g

LEMMA LeastOf ==
  ASSUME NEW S \in SUBSET Nat, S # {}
  PROVE  \E x \in S : \A y \in S : x <= y
<1>1. PICK x \in S : \A y \in S : ~ (<<y, x>> \in OpToRel(<, Nat))
  BY NatLessThanWellFounded, WFMin
<1>2. ASSUME NEW y \in S PROVE x <= y
  <2>1. SUFFICES ASSUME ~(x <= y) PROVE FALSE
    OBVIOUS
  <2>2. y \in Nat /\ x \in Nat /\ y < x
    BY <2>1
  <2>3. <<y, x>> \in Nat \X Nat /\ <<y, x>>[1] < <<y, x>>[2]
    BY <2>2
  <2>4. <<y, x>> \in OpToRel(<, Nat)
    BY <2>3 DEF OpToRel
  <2>5. QED
    BY <2>4, <1>1
<1>3. QED
  BY <1>2

LEMMA GreatestOf ==
  ASSUME NEW S \in SUBSET (0 .. MaxId), S # {}
  PROVE  \E x \in S : \A y \in S : y <= x
<1> DEFINE T == {MaxId - x : x \in S}
<1>1. \A x \in S : x \in Nat /\ MaxId - x \in Nat
  BY MaxIdAssumption
<1>2. T \in SUBSET Nat /\ T # {}
  BY <1>1
<1>3. PICK m \in T : \A y \in T : m <= y
  BY <1>2, LeastOf
<1>4. PICK x \in S : m = MaxId - x
  BY <1>3
<1>5. ASSUME NEW y \in S PROVE y <= x
  BY <1>1, <1>3, <1>4, MaxIdAssumption
<1>6. QED
  BY <1>5

LEMMA MergedOK ==
  ASSUME TypeOK, NEW moved \in Partial(Cell)
  PROVE  /\ Merged(moved) \in Table
         /\ Merged(moved).layout = db.soup.layout
         /\ DOMAIN Merged(moved).rows = DOMAIN db.soup.rows \union DOMAIN db.old.rows
         /\ \A i \in DOMAIN db.soup.rows : Merged(moved).rows[i] = db.soup.rows[i]
         /\ \A i \in DOMAIN db.old.rows \ DOMAIN db.soup.rows :
               /\ Merged(moved).rows[i].kept = db.old.rows[i].kept
               /\ Merged(moved).rows[i].body =
                     IF i \in DOMAIN moved THEN moved[i]
                     ELSE IF AnyExternal THEN NoValue ELSE db.old.rows[i].body
<1> DEFINE soup == db.soup
           old == db.old
           ids == DOMAIN db.old.rows \union {db.soup.seq}
           most == CHOOSE n \in ids : \A m \in ids : m <= n
           row(i) == IF i \in DOMAIN soup.rows THEN soup.rows[i]
                     ELSE IF i \in DOMAIN moved
                     THEN [Copied(old.rows[i]) EXCEPT !.body = moved[i]]
                     ELSE Copied(old.rows[i])
           rows == [i \in DOMAIN soup.rows \union DOMAIN old.rows |-> row(i)]
           seq == IF old.rows = NoRows THEN soup.seq ELSE most
<1>1. /\ soup.layout \in {"internal", "external", "none"} /\ soup.seq \in 0 .. MaxId
      /\ DOMAIN soup.rows \subseteq Ids /\ DOMAIN old.rows \subseteq Ids
      /\ \A i \in DOMAIN soup.rows : soup.rows[i] \in Row
      /\ \A i \in DOMAIN old.rows : old.rows[i] \in Row
  BY DbFields, TableFields
<1>2. Merged(moved) = [layout |-> soup.layout, seq |-> seq, rows |-> rows]
  BY DEF Merged, NoRows
<1>3. seq \in 0 .. MaxId
  <2>1. ids \in SUBSET (0 .. MaxId) /\ ids # {}
    BY <1>1, MaxIdAssumption DEF Ids
  <2>2. most \in ids
    BY <2>1, GreatestOf
  <2>3. QED
    BY <1>1, <2>1, <2>2
<1>4. ASSUME NEW i \in DOMAIN old.rows \ DOMAIN soup.rows
      PROVE  /\ row(i) \in Row /\ row(i).kept = old.rows[i].kept
             /\ row(i).body = IF i \in DOMAIN moved THEN moved[i]
                              ELSE IF AnyExternal THEN NoValue ELSE old.rows[i].body
  <2>1. old.rows[i] \in Row /\ (i \in DOMAIN moved => moved[i] \in Cell)
    BY <1>1, PartialIs
  <2>2. QED
    BY <2>1, CellIs DEF Copied, Row
<1>5. \A i \in DOMAIN rows : rows[i] \in Row
  BY <1>1, <1>4
<1>6. rows \in Partial(Row)
  <2>1. DOMAIN rows \subseteq Ids /\ rows = [i \in DOMAIN rows |-> rows[i]]
    BY <1>1
  <2> HIDE DEF rows, row
  <2>2. QED
    BY <1>5, <2>1, PartialIs
<1>7. /\ DOMAIN rows = DOMAIN soup.rows \union DOMAIN old.rows
      /\ \A i \in DOMAIN soup.rows : rows[i] = soup.rows[i]
      /\ \A i \in DOMAIN old.rows \ DOMAIN soup.rows : rows[i] = row(i)
  OBVIOUS
<1> HIDE DEF rows, seq, most, row
<1>8. Merged(moved) \in Table
  BY <1>1, <1>2, <1>3, <1>6, TableIs
<1>9. QED
  BY <1>2, <1>4, <1>7, <1>8
----------------------------------------------------------------------------
(* TypeInv is inductive.                                                   *)

LEMMA NotAlteringInv ==
  ASSUME TypeInv, details' = details, db' = db, NEW pc \in AlterPc \ {"ready", "begun", "blobs"},
         alter' = NotAltering(pc)
  PROVE  alter' \in Alter /\ AlterInv'
<1>1. alter' \in Alter /\ alter'.pc = pc /\ alter'.moved = NoRows
  BY NotAlteringEffect
<1>2. QED
  BY <1>1 DEF TypeInv, AlterInv, Running, Known

LEMMA DbRecord ==
  ASSUME TypeOK
  PROVE  db = [soup |-> db.soup, old |-> db.old, features |-> db.features,
               specs |-> db.specs, status |-> db.status]
  BY DbFields DEF DbIs

LEMMA FeaturesOK == ASSUME TypeOK PROVE Features \in Layout
  BY Kinds, DbFields DEF Features, Layout

\* No call has changed a file while the operation has the connection.
LEMMA NoCall ==
  ASSUME TypeInv, app' = app, alter.pc \in {"begun", "blobs"} \/ ConnectionFree
  PROVE  CallInv' /\ InFlight = {} /\ HalfWritten = {} /\ InFlight' = {} /\ HalfWritten' = {}
<1>1. \A t \in Apps : app[t].pc # "written"
  BY DEF TypeInv, CallInv, ConnectionFree
<1>2. InFlight = {} /\ InFlight' = {}
  BY <1>1 DEF InFlight
<1>3. QED
  BY <1>1, <1>2 DEF CallInv, HalfWritten

LEMMA OpenType ==
  ASSUME TypeInv, OpenDatabase
  PROVE  TypeInv'
<1>1. UNCHANGED <<db, blobs, blobDir, cache, details, app, torn>>
  BY DEF OpenDatabase
<1>2. alter' \in Alter /\ AlterInv' /\ alter'.pc \notin {"begun", "blobs"}
  <2>1. CASE db.status = "none"
    <3>1. alter' = NotAltering("idle")
      BY <2>1 DEF OpenDatabase
    <3>2. QED
      BY <1>1, <3>1, NotAlteringInv, NotAlteringEffect DEF AlterPc
  <2>2. CASE db.status # "none"
    <3>1. alter' = [NotAltering("ready") EXCEPT !.resumed = TRUE, !.step = db.status]
      BY <2>2 DEF OpenDatabase
    <3>2. /\ NotAltering("ready") \in Alter /\ NotAltering("ready").pc = "ready"
          /\ NotAltering("ready").moved = NoRows
      BY NotAlteringOK DEF AlterPc
    <3>3. db.status \in Step
      BY <2>2, DbFields DEF TypeInv, Steps
    <3>4. alter' \in Alter /\ alter'.pc = "ready" /\ alter'.step = db.status
          /\ alter'.moved = NoRows
      BY <3>1, <3>2, <3>3 DEF Alter
    <3>5. QED
      BY <1>1, <3>4 DEF TypeInv, AlterInv, Running, Known
  <2>3. QED
    BY <2>1, <2>2
<1>3. TypeOK'
  BY <1>1, <1>2 DEF TypeInv, TypeOK
<1>4. StepInv' /\ RowsInv' /\ AppInv'
  BY <1>1 DEF TypeInv, StepInv, RowsInv, AppInv, MayHappen
<1>5. CallInv'
  BY <1>1, <1>2 DEF TypeInv, CallInv, MayHappen, BlobOf
<1>6. QED
  BY <1>2, <1>3, <1>4, <1>5 DEF TypeInv

LEMMA AlterSoupType ==
  ASSUME TypeInv, AlterSoup
  PROVE  TypeInv'
<1>1. UNCHANGED <<blobs, blobDir, details, app, torn>> /\ db.status = "none" /\ db.specs = "old"
  BY DEF AlterSoup
<1>2. DbIs(db', db.soup, db.old, db.features, db.specs, "STARTING")
  BY DbRecord DEF TypeInv, AlterSoup, DbIs
<1>3. /\ db' \in Database /\ db'.soup = db.soup /\ db'.old = db.old
      /\ db'.features = db.features /\ db'.specs = db.specs /\ db'.status = "STARTING"
  BY <1>2, DbFields, DatabaseOK DEF TypeInv, Steps, Step
<1>4. /\ alter' \in Alter /\ alter'.pc = "ready" /\ alter'.step = "STARTING"
      /\ alter'.moved = NoRows
  BY NotAlteringEffect DEF AlterSoup, AlterPc
<1>5. cache' = Features /\ Features \in Layout /\ Features = details.from
  BY <1>1, FeaturesOK DEF AlterSoup, TypeInv, Features, StepInv, RowsInv
<1>6. TypeOK'
  BY <1>1, <1>3, <1>4, <1>5 DEF TypeInv, TypeOK
<1>7. AlterInv'
  BY <1>1, <1>3, <1>4 DEF TypeInv, AlterInv, Running, Known
<1>8. StepInv'
  BY <1>1, <1>3 DEF TypeInv, StepInv, OldCounts
<1>9. RowsInv' /\ AppInv'
  BY <1>1, <1>3, <1>5 DEF TypeInv, RowsInv, AppInv, MayHappen
<1>10. CallInv'
  BY <1>1, NoCall DEF AlterSoup
<1>11. QED
  BY <1>6, <1>7, <1>8, <1>9, <1>10 DEF TypeInv

LEMMA BeginType ==
  ASSUME TypeInv, BeginTransaction
  PROVE  TypeInv'
<1>1. UNCHANGED <<db, blobs, blobDir, cache, details, app, torn>> /\ alter.pc = "ready"
  BY DEF BeginTransaction
<1>2. /\ alter' \in Alter /\ alter'.pc = "begun" /\ alter'.step = alter.step
      /\ alter'.moved = alter.moved /\ alter'.resumed = alter.resumed
  BY AlterFields DEF TypeInv, TypeOK, Alter, AlterPc, BeginTransaction
<1>3. TypeOK' /\ StepInv' /\ RowsInv' /\ AppInv'
  BY <1>1, <1>2 DEF TypeInv, TypeOK, StepInv, RowsInv, AppInv, MayHappen
<1>4. AlterInv'
  BY <1>1, <1>2 DEF TypeInv, AlterInv, Running, Known
<1>5. CallInv'
  BY <1>1, NoCall DEF BeginTransaction
<1>6. QED
  BY <1>3, <1>4, <1>5 DEF TypeInv

\* A step that has committed leaves the thread ready for the next.
LEMMA CommittedInv ==
  ASSUME TypeInv, details' = details, alter'.pc = "ready", alter'.step = db'.status,
         alter'.moved = NoRows
  PROVE  AlterInv'
  BY DEF TypeInv, AlterInv, Running, Known

LEMMA RenameEffect ==
  ASSUME TypeInv, RenameOldSoupTable
  PROVE  /\ UNCHANGED <<blobs, blobDir, cache, details, app, torn>>
         /\ alter.pc = "begun" /\ db.status = "STARTING"
         /\ db' \in Database /\ db'.soup = NoTable /\ db'.old = db.soup
         /\ db'.features = db.features /\ db'.specs = db.specs
         /\ db'.status = "RENAME_OLD_SOUP_TABLE"
         /\ alter' \in Alter /\ alter'.pc = "ready" /\ alter'.step = db'.status
         /\ alter'.moved = NoRows /\ alter'.resumed = alter.resumed
<1>1. UNCHANGED <<blobs, blobDir, cache, details, app, torn>> /\ db.status = "STARTING"
      /\ alter.pc = "begun"
  BY DEF RenameOldSoupTable, InStep, TypeInv, AlterInv, Running
<1>2. PICK d : d = [db EXCEPT !.soup = NoTable, !.old = db.soup]
  OBVIOUS
<1>3. /\ DbIs(d, NoTable, db.soup, db.features, db.specs, d.status)
      /\ Commit("RENAME_OLD_SOUP_TABLE", d)
  BY <1>2, DbRecord DEF TypeInv, DbIs, RenameOldSoupTable
<1>4. QED
  BY <1>1, <1>3, DbFields, NoTableOK, CommitEffect DEF TypeInv, Step

LEMMA RenameType ==
  ASSUME TypeInv, RenameOldSoupTable
  PROVE  TypeInv'
<1>1. TypeOK'
  BY RenameEffect DEF TypeInv, TypeOK
<1>2. AlterInv'
  BY RenameEffect, CommittedInv
<1>3. StepInv'
  BY RenameEffect, NoTableOK, DbFields DEF TypeInv, StepInv, OldCounts
<1>4. RowsInv' /\ AppInv'
  BY RenameEffect, NoTableOK, NoRowsOK DEF TypeInv, RowsInv, AppInv, MayHappen, StepInv
<1>5. CallInv'
  BY RenameEffect, NoCall
<1>6. QED
  BY <1>1, <1>2, <1>3, <1>4, <1>5 DEF TypeInv

LEMMA DropEffect ==
  ASSUME TypeInv, DropOldIndexes
  PROVE  /\ UNCHANGED <<blobs, blobDir, details, app, torn>> /\ cache' = "none"
         /\ alter.pc = "begun" /\ db.status = "RENAME_OLD_SOUP_TABLE"
         /\ db' \in Database /\ db'.soup = db.soup /\ db'.old = db.old
         /\ db'.features = db.features /\ db'.specs = "none"
         /\ db'.status = "DROP_OLD_INDEXES"
         /\ alter' \in Alter /\ alter'.pc = "ready" /\ alter'.step = db'.status
         /\ alter'.moved = NoRows /\ alter'.resumed = alter.resumed
<1>1. UNCHANGED <<blobs, blobDir, details, app, torn>> /\ cache' = "none" /\ alter.pc = "begun"
      /\ db.status = "RENAME_OLD_SOUP_TABLE"
  BY DEF DropOldIndexes, InStep, TypeInv, AlterInv, Running
<1>2. PICK d : d = [db EXCEPT !.specs = "none"]
  OBVIOUS
<1>3. /\ DbIs(d, db.soup, db.old, db.features, "none", d.status)
      /\ Commit("DROP_OLD_INDEXES", d)
  BY <1>2, DbRecord DEF TypeInv, DbIs, DropOldIndexes
<1>4. QED
  BY <1>1, <1>3, DbFields, CommitEffect DEF TypeInv, Step

LEMMA DropType ==
  ASSUME TypeInv, DropOldIndexes
  PROVE  TypeInv'
<1>1. TypeOK'
  BY DropEffect DEF TypeInv, TypeOK
<1>2. AlterInv'
  BY DropEffect, CommittedInv
<1>3. StepInv'
  BY DropEffect DEF TypeInv, StepInv, OldCounts
<1>4. RowsInv' /\ AppInv'
  BY DropEffect DEF TypeInv, RowsInv, AppInv, MayHappen, StepInv
<1>5. CallInv'
  BY DropEffect, NoCall
<1>6. QED
  BY <1>1, <1>2, <1>3, <1>4, <1>5 DEF TypeInv

RegisteredLayout == IF cache = "none" THEN details.to ELSE cache

LEMMA RegisterEffect ==
  ASSUME TypeInv, RegisterSoupUsingTableName
  PROVE  /\ UNCHANGED <<blobs, details, app, torn>>
         /\ alter.pc = "begun" /\ db.status = "DROP_OLD_INDEXES"
         /\ RegisteredLayout \in Layout /\ cache' = RegisteredLayout
         /\ blobDir' = (blobDir \/ (RegisteredLayout = "external" /\ ~alter.resumed))
         /\ db' \in Database /\ db'.soup = EmptyTable(RegisteredLayout)
         /\ db'.soup.layout = RegisteredLayout /\ db'.soup.rows = NoRows
         /\ db'.old = db.old /\ db'.features = details.to /\ db'.specs = "new"
         /\ db'.status = "REGISTER_SOUP_USING_TABLE_NAME"
         /\ alter' \in Alter /\ alter'.pc = "ready" /\ alter'.step = db'.status
         /\ alter'.moved = NoRows /\ alter'.resumed = alter.resumed
<1>1. /\ UNCHANGED <<blobs, details, app, torn>>
      /\ alter.pc = "begun" /\ db.status = "DROP_OLD_INDEXES"
  BY DEF RegisterSoupUsingTableName, InStep, TypeInv, AlterInv, Running
<1>2. PICK e : e = [db EXCEPT !.features = details.to, !.specs = "new"]
  OBVIOUS
<1>3. e = [soup |-> db.soup, old |-> db.old, features |-> details.to, specs |-> "new",
           status |-> db.status]
  BY <1>2, DbRecord DEF TypeInv
<1>4. PICK d : d = [e EXCEPT !.soup = EmptyTable(RegisteredLayout)]
  OBVIOUS
<1>5. /\ DbIs(d, EmptyTable(RegisteredLayout), db.old, details.to, "new", d.status)
      /\ Commit("REGISTER_SOUP_USING_TABLE_NAME", d) /\ cache' = RegisteredLayout
      /\ blobDir' = (blobDir \/ (RegisteredLayout = "external" /\ ~alter.resumed))
  <2>1. e.features = details.to
    BY <1>3
  <2>2. DbIs(d, EmptyTable(RegisteredLayout), db.old, details.to, "new", d.status)
    BY <1>3, <1>4 DEF DbIs
  <2>3. QED
    BY <1>2, <1>4, <2>1, <2>2 DEF RegisterSoupUsingTableName, RegisteredLayout, Resuming
<1>6. RegisteredLayout \in Layout
  BY Kinds DEF RegisteredLayout, TypeInv, Layout
<1>7. /\ EmptyTable(RegisteredLayout) \in Table
      /\ EmptyTable(RegisteredLayout).layout = RegisteredLayout
      /\ EmptyTable(RegisteredLayout).rows = NoRows
  BY <1>6, EmptyTableOK DEF Layout
<1>8. QED
  BY <1>1, <1>5, <1>6, <1>7, DbFields, Kinds, CommitEffect DEF TypeInv, Step

LEMMA RegisterType ==
  ASSUME TypeInv, RegisterSoupUsingTableName
  PROVE  TypeInv'
<1>1. TypeOK'
  BY RegisterEffect DEF TypeInv, TypeOK
<1>2. AlterInv'
  BY RegisterEffect, CommittedInv
<1>3. StepInv'
  BY RegisterEffect DEF TypeInv, StepInv, OldCounts, Layout
<1>4. RowsInv' /\ AppInv'
  BY RegisterEffect, NoRowsOK DEF TypeInv, RowsInv, AppInv, MayHappen
<1>5. CallInv'
  BY RegisterEffect, NoCall
<1>6. QED
  BY <1>1, <1>2, <1>3, <1>4, <1>5 DEF TypeInv

LEMMA SameDbType ==
  ASSUME TypeInv, UNCHANGED <<db, blobDir, cache, details, app, torn>>,
         blobs' \in Partial(Values), alter' \in Alter, alter.pc \in {"begun", "blobs"}
  PROVE  TypeOK' /\ StepInv' /\ RowsInv' /\ AppInv' /\ CallInv'
<1>1. TypeOK'
  BY DEF TypeInv, TypeOK, Partial
<1>2. StepInv' /\ RowsInv' /\ AppInv'
  BY DEF TypeInv, StepInv, RowsInv, AppInv, MayHappen
<1>3. CallInv'
  BY NoCall
<1>4. QED
  BY <1>1, <1>2, <1>3

\* The copy, of what the loop has moved too.
Copies(moved) == Commit("COPY_TABLE", [db EXCEPT !.soup = Merged(moved)])

LEMMA CopiesEffect ==
  ASSUME TypeInv, NEW moved \in Partial(Cell), Copies(moved)
  PROVE  /\ db' \in Database /\ db'.soup = Merged(moved)
         /\ db'.old = db.old /\ db'.features = db.features /\ db'.specs = db.specs
         /\ db'.status = "COPY_TABLE"
         /\ alter' \in Alter /\ alter'.pc = "ready" /\ alter'.step = db'.status
         /\ alter'.moved = NoRows /\ alter'.resumed = alter.resumed
<1>1. PICK d : d = [db EXCEPT !.soup = Merged(moved)]
  OBVIOUS
<1>2. DbIs(d, Merged(moved), db.old, db.features, db.specs, d.status)
  BY <1>1, DbRecord DEF TypeInv, DbIs
<1>3. Merged(moved) \in Table
  BY MergedOK DEF TypeInv
<1>4. Commit("COPY_TABLE", d)
  BY <1>1 DEF Copies
<1>5. QED
  BY <1>2, <1>3, <1>4, DbFields, CommitEffect DEF TypeInv, Step

LEMMA CopiesType ==
  ASSUME TypeInv, NEW moved \in Partial(Cell), Copies(moved),
         db.status = "REGISTER_SOUP_USING_TABLE_NAME",
         alter.pc \in {"begun", "blobs"},
         UNCHANGED <<blobs, blobDir, cache, details, app, torn>>
  PROVE  TypeInv'
<1>1. TypeOK'
  BY CopiesEffect DEF TypeInv, TypeOK
<1>2. AlterInv'
  BY CopiesEffect, CommittedInv
<1>3. Merged(moved).layout = db.soup.layout
  BY MergedOK DEF TypeInv
<1>4. StepInv'
  BY <1>3, CopiesEffect DEF TypeInv, StepInv, OldCounts
<1>5. \A i \in DOMAIN Merged(moved).rows : Merged(moved).rows[i].kept \in Values
  BY MergedOK DEF TypeInv, RowsInv
<1>6. RowsInv' /\ AppInv'
  BY <1>5, CopiesEffect DEF TypeInv, RowsInv, AppInv, MayHappen, StepInv
<1>7. CallInv'
  BY NoCall
<1>8. QED
  BY <1>1, <1>2, <1>4, <1>6, <1>7 DEF TypeInv

LEMMA CopyTableCases ==
  ASSUME TypeInv, CopyTable
  PROVE  /\ UNCHANGED <<blobs, blobDir, cache, details, app, torn>>
         /\ alter.pc = "begun" /\ db.status = "REGISTER_SOUP_USING_TABLE_NAME"
         /\ \/ alter' = NotAltering("idle") /\ db' = db
            \/ /\ ~Conflict /\ MovesBlobs /\ ~alter.resumed /\ db' = db
               /\ alter' = [alter EXCEPT !.pc = "blobs", !.todo = DOMAIN db.old.rows]
            \/ ~Conflict /\ ~MovesBlobs /\ Copies(NoRows)
BY DEF CopyTable, Rollback, Resuming, InStep, TypeInv, AlterInv, Running, Copies, NoRows

LEMMA CopyTableType ==
  ASSUME TypeInv, CopyTable
  PROVE  TypeInv'
<1>1. /\ UNCHANGED <<blobs, blobDir, cache, details, app, torn>>
      /\ alter.pc = "begun" /\ db.status = "REGISTER_SOUP_USING_TABLE_NAME"
  BY CopyTableCases
<1>2. blobs' \in Partial(Values)
  BY <1>1, Kinds DEF TypeInv
<1>3. CASE alter' = NotAltering("idle") /\ db' = db
  BY <1>1, <1>2, <1>3, NotAlteringInv, SameDbType DEF TypeInv, AlterPc
<1>4. CASE /\ ~Conflict /\ MovesBlobs /\ ~alter.resumed /\ db' = db
           /\ alter' = [alter EXCEPT !.pc = "blobs", !.todo = DOMAIN db.old.rows]
  <2>1. DOMAIN db.old.rows \subseteq Ids
    BY DbFields, TableFields DEF TypeInv
  <2>2. /\ alter'.pc = "blobs" /\ alter'.todo = DOMAIN db.old.rows
        /\ alter'.moved = alter.moved /\ alter'.resumed = alter.resumed
        /\ alter'.step = alter.step /\ alter' \in Alter
    BY <1>4, <2>1, AlterFields DEF TypeInv, TypeOK, Alter, AlterPc
  <2>3. alter.moved = NoRows /\ alter.step = db.status
    BY <1>1 DEF TypeInv, AlterInv, Running
  <2>4. /\ details.from # details.to /\ db.old.rows # NoRows
        /\ DOMAIN db.soup.rows \intersect DOMAIN db.old.rows = {}
    BY <1>4 DEF MovesBlobs, NoRows, Conflict
  <2>5. AlterInv'
    BY <1>1, <1>4, <2>2, <2>3, <2>4, NoRowsOK DEF TypeInv, AlterInv, Running, Known
  <2>6. QED
    BY <1>1, <1>2, <1>4, <2>2, <2>5, SameDbType DEF TypeInv
<1>5. CASE Copies(NoRows)
  BY <1>1, <1>5, NoRowsOK, CopiesType
<1>6. QED
  BY <1>3, <1>4, <1>5, CopyTableCases

LEMMA BlobOK == ASSUME TypeInv, NEW i PROVE BlobOf(i) \in Cell
<1>1. \A j \in DOMAIN blobs : blobs[j] \in Values
  BY Kinds, PartialIs DEF TypeInv
<1>2. QED
  BY <1>1 DEF BlobOf, Cell

LEMMA MoveToRowCases ==
  ASSUME TypeInv, MoveBlobToRow
  PROVE  /\ UNCHANGED <<db, blobDir, cache, details, app, torn>>
         /\ alter.pc = "blobs" /\ details.to = "internal"
         /\ \/ alter' = NotAltering("idle") /\ blobs' = blobs /\ db.soup.layout # "internal"
            \/ /\ db.soup.layout = "internal"
               /\ \E i \in alter.todo :
                     /\ i \in Ids
                     /\ alter'.pc = "blobs" /\ alter'.resumed = alter.resumed
                     /\ alter'.step = alter.step /\ alter'.todo = alter.todo \ {i}
                     /\ alter'.moved = With(alter.moved, i, BlobOf(i)) /\ alter' \in Alter
                     /\ blobs' = Restrict(blobs, DOMAIN blobs \ {i})
<1>1. /\ UNCHANGED <<db, blobDir, cache, details, app, torn>>
      /\ alter.pc = "blobs" /\ details.to = "internal"
  BY DEF MoveBlobToRow, Rollback
<1>2. PICK i \in alter.todo :
          IF db.soup.layout = "internal"
          THEN /\ alter' = [alter EXCEPT !.todo = @ \ {i}, !.moved = With(@, i, BlobOf(i))]
               /\ blobs' = Restrict(blobs, DOMAIN blobs \ {i})
          ELSE alter' = NotAltering("idle") /\ blobs' = blobs
  BY DEF MoveBlobToRow, Rollback
<1>3. CASE db.soup.layout = "internal"
  <2>1. i \in Ids
    BY AlterFields DEF TypeInv
  <2>2. With(alter.moved, i, BlobOf(i)) \in Partial(Cell)
    BY <2>1, AlterFields, BlobOK, WithPartial DEF TypeInv
  <2>3. alter' = [pc |-> alter.pc, resumed |-> alter.resumed, step |-> alter.step,
                  todo |-> alter.todo \ {i}, moved |-> With(alter.moved, i, BlobOf(i))]
    BY <1>2, <1>3, AlterFields DEF TypeInv
  <2>4. alter' \in Alter
    BY <2>2, <2>3, AlterFields DEF TypeInv, Alter, Partial
  <2>5. QED
    BY <1>1, <1>2, <1>3, <2>1, <2>3, <2>4
<1>4. QED
  BY <1>1, <1>2, <1>3

LEMMA MoveToRowType ==
  ASSUME TypeInv, MoveBlobToRow
  PROVE  TypeInv'
<1>1. /\ UNCHANGED <<db, blobDir, cache, details, app, torn>> /\ blobs \in Partial(Values)
      /\ alter.pc = "blobs"
  BY MoveToRowCases, Kinds DEF TypeInv
<1>2. CASE alter' = NotAltering("idle") /\ blobs' = blobs
  BY <1>1, <1>2, NotAlteringInv, SameDbType DEF TypeInv, AlterPc
<1>3. ASSUME db.soup.layout = "internal", NEW i \in alter.todo, i \in Ids,
             alter'.pc = "blobs", alter'.resumed = alter.resumed,
             alter'.step = alter.step, alter'.todo = alter.todo \ {i},
             alter'.moved = With(alter.moved, i, BlobOf(i)), alter' \in Alter,
             blobs' = Restrict(blobs, DOMAIN blobs \ {i})
      PROVE  TypeInv'
  <2>1. blobs' \in Partial(Values)
    BY <1>1, <1>3, LessPartial
  <2>2. DOMAIN alter'.moved = DOMAIN alter.moved \union {i}
    BY <1>3 DEF With
  <2>3. AlterInv'
    BY <1>1, <1>3, <2>2, MoveToRowCases DEF TypeInv, AlterInv, Running, Known
  <2>4. QED
    BY <1>1, <1>3, <2>1, <2>3, SameDbType DEF TypeInv
<1>4. QED
  BY <1>2, <1>3, MoveToRowCases

LEMMA MoveToBlobCases ==
  ASSUME TypeInv, MoveRowToBlob
  PROVE  /\ UNCHANGED <<db, blobDir, cache, details, app, torn>>
         /\ alter.pc = "blobs" /\ details.to = "external" /\ details.from = "internal"
         /\ \E i \in alter.todo :
               /\ i \in Ids /\ i \in DOMAIN db.old.rows
               /\ alter'.pc = "blobs" /\ alter'.resumed = alter.resumed
               /\ alter'.step = alter.step /\ alter'.todo = alter.todo \ {i}
               /\ alter'.moved = alter.moved /\ alter' \in Alter
               /\ \E saved \in BOOLEAN : SaveBlob(i, db.old.rows[i].body, saved)
<1>1. /\ UNCHANGED <<db, blobDir, cache, details, app, torn>>
      /\ alter.pc = "blobs" /\ details.to = "external"
  BY DEF MoveRowToBlob
<1>2. PICK i \in alter.todo :
               /\ alter' = [alter EXCEPT !.todo = @ \ {i}]
               /\ \E saved \in BOOLEAN : SaveBlob(i, db.old.rows[i].body, saved)
  BY DEF MoveRowToBlob
<1>3. i \in Ids /\ i \in DOMAIN db.old.rows
  BY <1>1, AlterFields DEF TypeInv, AlterInv
<1>4. details.from = "internal"
  BY <1>1, Kinds DEF TypeInv, AlterInv, Layout
<1>5. alter' = [pc |-> alter.pc, resumed |-> alter.resumed, step |-> alter.step,
                todo |-> alter.todo \ {i}, moved |-> alter.moved]
  BY <1>2, AlterFields DEF TypeInv
<1>6. alter' \in Alter
  BY <1>5, AlterFields DEF TypeInv, Alter, Partial
<1>7. QED
  BY <1>1, <1>2, <1>3, <1>4, <1>5, <1>6

\* A file is written whole, or left empty.
LEMMA SaveEffect ==
  ASSUME TypeInv, NEW i \in Ids, NEW v \in Values, NEW saved \in BOOLEAN, SaveBlob(i, v, saved)
  PROVE  /\ blobs' \in Partial(Values)
         /\ \A j \in Ids \ {i} : BlobOf(j)' = BlobOf(j)
         /\ saved => BlobOf(i)' = v
         /\ blobDir /\ ~MayHappen("unwritable") => saved
<1>1. blobs \in Partial(Values)
  BY Kinds DEF TypeInv
<1>2. CASE saved = TRUE
  <2>1. blobs' = With(blobs, i, v)
    BY <1>2 DEF SaveBlob
  <2>2. blobs' \in Partial(Values)
    BY <1>1, <2>1, WithPartial
  <2>3. /\ DOMAIN blobs' = DOMAIN blobs \union {i} /\ blobs'[i] = v
        /\ \A j \in DOMAIN blobs \ {i} : blobs'[j] = blobs[j]
    BY <2>1 DEF With
  <2>4. QED
    BY <1>2, <2>2, <2>3 DEF BlobOf
<1>3. CASE saved = FALSE
  <2>1. blobs' = Restrict(blobs, DOMAIN blobs \ {i}) /\ (~blobDir \/ MayHappen("unwritable"))
    BY <1>3 DEF SaveBlob
  <2>2. blobs' \in Partial(Values)
    BY <1>1, <2>1, LessPartial
  <2>3. /\ DOMAIN blobs' = DOMAIN blobs \ {i}
        /\ \A j \in DOMAIN blobs \ {i} : blobs'[j] = blobs[j]
    BY <2>1 DEF Restrict
  <2>4. QED
    BY <1>3, <2>1, <2>2, <2>3 DEF BlobOf
<1>4. QED
  BY <1>2, <1>3

LEMMA MoveToBlobType ==
  ASSUME TypeInv, MoveRowToBlob
  PROVE  TypeInv'
<1>1. /\ UNCHANGED <<db, blobDir, cache, details, app, torn>> /\ blobs \in Partial(Values)
      /\ alter.pc = "blobs" /\ details.to = "external" /\ details.from = "internal"
  BY MoveToBlobCases, Kinds DEF TypeInv
<1>2. PICK i \in alter.todo :
               /\ i \in Ids /\ i \in DOMAIN db.old.rows
               /\ alter'.pc = "blobs" /\ alter'.resumed = alter.resumed
               /\ alter'.step = alter.step /\ alter'.todo = alter.todo \ {i}
               /\ alter'.moved = alter.moved /\ alter' \in Alter
               /\ \E saved \in BOOLEAN : SaveBlob(i, db.old.rows[i].body, saved)
  BY MoveToBlobCases
<1>3. db.old.rows[i].body \in Values
  BY <1>1, <1>2 DEF TypeInv, AlterInv, StepInv, RowsInv, OldCounts
<1>4. blobs' \in Partial(Values)
  BY <1>1, <1>2, <1>3, SaveEffect
<1>5. AlterInv'
  BY <1>1, <1>2 DEF TypeInv, AlterInv, Running, Known
<1>6. QED
  BY <1>1, <1>2, <1>4, <1>5, SameDbType DEF TypeInv

LEMMA CommitMoveCases ==
  ASSUME TypeInv, CommitMove
  PROVE  /\ UNCHANGED <<blobs, blobDir, cache, details, app, torn>>
         /\ alter.pc = "blobs" /\ alter.todo = {} /\ alter.moved \in Partial(Cell)
         /\ db.status = "REGISTER_SOUP_USING_TABLE_NAME" /\ Copies(alter.moved)
BY AlterFields DEF CommitMove, TypeInv, AlterInv, Copies

LEMMA CommitMoveType ==
  ASSUME TypeInv, CommitMove
  PROVE  TypeInv'
BY CommitMoveCases, CopiesType

LEMMA EltOK ==
  ASSUME TypeInv, NEW i \in DOMAIN db.soup.rows
  PROVE  EltOf(i) \in Cell
<1>1. db.soup.rows[i] \in Row
  BY DbFields, TableFields DEF TypeInv
<1>2. db.soup.rows[i].body \in Cell
  BY <1>1 DEF Row
<1>3. QED
  BY <1>2, BlobOK DEF EltOf

LEMMA ReIndexedOK ==
  ASSUME TypeInv
  PROVE  /\ ReIndexed \in Partial(Row) /\ DOMAIN ReIndexed = DOMAIN db.soup.rows
         /\ \A i \in DOMAIN db.soup.rows :
               /\ ReIndexed[i].body = db.soup.rows[i].body
               /\ ReIndexed[i].kept = db.soup.rows[i].kept
               /\ ReIndexed[i].added = EltOf(i)
<1>1. DOMAIN db.soup.rows \subseteq Ids /\ \A i \in DOMAIN db.soup.rows : db.soup.rows[i] \in Row
  BY DbFields, TableFields DEF TypeInv
<1> DEFINE row(i) == [db.soup.rows[i] EXCEPT !.added = EltOf(i)]
<1>2. ASSUME NEW i \in DOMAIN db.soup.rows
      PROVE  /\ row(i) \in Row /\ row(i).body = db.soup.rows[i].body
             /\ row(i).kept = db.soup.rows[i].kept /\ row(i).added = EltOf(i)
  BY <1>1, EltOK DEF Row
<1>3. ReIndexed = [i \in DOMAIN db.soup.rows |-> row(i)]
  BY DEF ReIndexed
<1> HIDE DEF row
<1>4. /\ DOMAIN ReIndexed = DOMAIN db.soup.rows
      /\ \A i \in DOMAIN db.soup.rows : ReIndexed[i] = row(i)
      /\ ReIndexed = [i \in DOMAIN ReIndexed |-> ReIndexed[i]]
  BY <1>3
<1>5. ReIndexed \in Partial(Row)
  BY <1>1, <1>2, <1>4, PartialIs
<1>6. QED
  BY <1>2, <1>4, <1>5

LEMMA ReIndexCases ==
  ASSUME TypeInv, ReIndexSoup
  PROVE  /\ UNCHANGED <<blobs, blobDir, details, app, torn>> /\ cache' = Features
         /\ alter.pc = "begun" /\ db.status = "COPY_TABLE" /\ details.reIndex
         /\ \/ alter' = NotAltering("idle") /\ db' = db
            \/ /\ db' \in Database /\ db'.soup \in Table
               /\ db'.soup.layout = db.soup.layout /\ db'.soup.rows = ReIndexed
               /\ db'.old = db.old /\ db'.features = db.features /\ db'.specs = db.specs
               /\ db'.status = "RE_INDEX_SOUP"
               /\ alter' \in Alter /\ alter'.pc = "ready" /\ alter'.step = db'.status
               /\ alter'.moved = NoRows /\ alter'.resumed = alter.resumed
<1>1. /\ UNCHANGED <<blobs, blobDir, details, app, torn>> /\ cache' = Features
      /\ alter.pc = "begun" /\ db.status = "COPY_TABLE" /\ details.reIndex
  BY DEF ReIndexSoup, InStep, TypeInv, AlterInv, Running
<1>2. CASE alter' = NotAltering("idle") /\ db' = db
  BY <1>1, <1>2
<1>3. CASE Commit("RE_INDEX_SOUP", [db EXCEPT !.soup.rows = ReIndexed])
  <2>1. PICK soup : soup = [db.soup EXCEPT !.rows = ReIndexed]
    OBVIOUS
  <2>2. db.soup \in Table
    BY DbFields DEF TypeInv
  <2>3. soup = [layout |-> db.soup.layout, seq |-> db.soup.seq, rows |-> ReIndexed]
    BY <2>1, <2>2, TableIs
  <2>4. soup \in Table /\ soup.layout = db.soup.layout /\ soup.rows = ReIndexed
    BY <2>2, <2>3, TableIs, ReIndexedOK
  <2>5. PICK d : d = [db EXCEPT !.soup.rows = ReIndexed]
    OBVIOUS
  <2>6. d = [db EXCEPT !.soup = soup]
    BY <2>1, <2>5
  <2>7. DbIs(d, soup, db.old, db.features, db.specs, d.status)
    BY <2>6, DbRecord DEF TypeInv, DbIs
  <2>8. Commit("RE_INDEX_SOUP", d)
    BY <1>3, <2>5
  <2>9. QED
    BY <1>1, <2>4, <2>7, <2>8, DbFields, CommitEffect DEF TypeInv, Step
<1>4. QED
  BY <1>2, <1>3 DEF ReIndexSoup, Rollback

LEMMA ReIndexType ==
  ASSUME TypeInv, ReIndexSoup
  PROVE  TypeInv'
<1>1. /\ UNCHANGED <<blobs, blobDir, details, app, torn>> /\ cache' \in Layout
      /\ alter.pc = "begun" /\ db.status = "COPY_TABLE"
  BY ReIndexCases, FeaturesOK DEF TypeInv
<1>0. CallInv'
  BY <1>1, NoCall
<1>2. db.specs = "new"
  BY <1>1 DEF TypeInv, StepInv
<1>3. CASE alter' = NotAltering("idle") /\ db' = db
  <2>1. alter' \in Alter /\ AlterInv'
    BY <1>1, <1>3, NotAlteringInv DEF AlterPc
  <2>2. TypeOK'
    BY <1>1, <1>3, <2>1 DEF TypeInv, TypeOK
  <2>3. StepInv' /\ RowsInv' /\ AppInv'
    BY <1>1, <1>2, <1>3 DEF TypeInv, StepInv, RowsInv, AppInv, MayHappen
  <2>4. QED
    BY <1>0, <2>1, <2>2, <2>3 DEF TypeInv
<1>4. CASE /\ db' \in Database /\ db'.soup \in Table
           /\ db'.soup.layout = db.soup.layout /\ db'.soup.rows = ReIndexed
           /\ db'.old = db.old /\ db'.features = db.features /\ db'.specs = db.specs
           /\ db'.status = "RE_INDEX_SOUP"
           /\ alter' \in Alter /\ alter'.pc = "ready" /\ alter'.step = db'.status
           /\ alter'.moved = NoRows /\ alter'.resumed = alter.resumed
  <2>1. TypeOK'
    BY <1>1, <1>4 DEF TypeInv, TypeOK
  <2>2. AlterInv'
    BY <1>1, <1>4, CommittedInv
  <2>3. StepInv'
    BY <1>1, <1>2, <1>4 DEF TypeInv, StepInv, OldCounts
  <2>4. RowsInv' /\ AppInv'
    BY <1>1, <1>2, <1>4, ReIndexedOK DEF TypeInv, RowsInv, AppInv, MayHappen
  <2>5. QED
    BY <1>0, <2>1, <2>2, <2>3, <2>4 DEF TypeInv
<1>5. QED
  BY <1>3, <1>4, ReIndexCases

LEMMA DropOldCases ==
  ASSUME TypeInv, DropOldTable
  PROVE  /\ UNCHANGED <<blobs, blobDir, cache, details, app, torn>>
         /\ alter.pc = "begun"
         /\ db.status = IF details.reIndex THEN "RE_INDEX_SOUP" ELSE "COPY_TABLE"
         /\ db' \in Database /\ db'.soup = db.soup /\ db'.old = NoTable
         /\ db'.features = db.features /\ db'.specs = db.specs /\ db'.status = "none"
         /\ alter' = NotAltering("idle")
<1>1. db' = [soup |-> db.soup, old |-> NoTable, features |-> db.features,
             specs |-> db.specs, status |-> "none"]
  BY DbRecord DEF TypeInv, DropOldTable
<1>2. db' \in Database
  BY <1>1, DbFields, NoTableOK DEF TypeInv, Database
<1>3. /\ UNCHANGED <<blobs, blobDir, cache, details, app, torn>>
      /\ alter.pc = "begun" /\ alter' = NotAltering("idle")
      /\ alter.step = IF details.reIndex THEN "RE_INDEX_SOUP" ELSE "COPY_TABLE"
  BY DEF DropOldTable, InStep
<1>4. QED
  BY <1>1, <1>2, <1>3 DEF TypeInv, AlterInv, Running

LEMMA DropOldType ==
  ASSUME TypeInv, DropOldTable
  PROVE  TypeInv'
<1>1. alter' \in Alter /\ alter'.pc = "idle" /\ alter'.moved = NoRows
  BY DropOldCases, NotAlteringEffect DEF AlterPc
<1>2. db.status \in {"RE_INDEX_SOUP", "COPY_TABLE"} /\ db.specs = "new"
  BY DropOldCases DEF TypeInv, StepInv
<1>3. TypeOK'
  BY <1>1, DropOldCases DEF TypeInv, TypeOK
<1>4. AlterInv'
  BY <1>1, DropOldCases DEF TypeInv, AlterInv, Running, Known
<1>5. StepInv'
  BY <1>2, DropOldCases DEF TypeInv, StepInv, OldCounts
<1>6. RowsInv' /\ AppInv'
  BY <1>2, DropOldCases, NoTableOK, NoRowsOK DEF TypeInv, RowsInv, AppInv, MayHappen
<1>7. CallInv'
  BY DropOldCases, NoCall
<1>8. QED
  BY <1>3, <1>4, <1>5, <1>6, <1>7 DEF TypeInv

\* What a thread is at, when one of them goes on.
LEMMA AppBecomes ==
  ASSUME TypeInv, details' = details,
         NEW t \in Apps, NEW a \in App, app' = [app EXCEPT ![t] = a],
         a.pc = "entered" => /\ MayHappen(a.op)
                             /\ a.op # "delete" => a.value \in Values
                             /\ a.op # "create" => a.id \in Ids
  PROVE  /\ app' \in [Apps -> App] /\ app'[t] = a /\ AppInv'
         /\ \A u \in Apps \ {t} : app'[u] = app[u]
<1>1. app \in [Apps -> App]
  BY Kinds DEF TypeInv
<1>2. /\ app' \in [Apps -> App] /\ app'[t] = a
      /\ \A u \in Apps \ {t} : app'[u] = app[u]
  BY <1>1
<1>3. QED
  BY <1>2 DEF TypeInv, AppInv, MayHappen

LEMMA AppFields ==
  ASSUME TypeInv, NEW t \in Apps
  PROVE  /\ app[t] = [pc |-> app[t].pc, op |-> app[t].op, id |-> app[t].id,
                      value |-> app[t].value, ok |-> app[t].ok]
         /\ app[t].op \in {"create", "update", "delete"} /\ app[t].id \in Ids \union {0}
         /\ app[t].value \in Cell /\ app[t].ok \in BOOLEAN
  BY Kinds DEF TypeInv, App

LEMMA EnterType ==
  ASSUME TypeInv, NEW t \in Apps, NEW op \in {"create", "update", "delete"},
         NEW i \in Ids \union {0}, NEW v \in Cell, Enter(t, op, i, v),
         op # "delete" => v \in Values, op # "create" => i \in Ids
  PROVE  TypeInv' /\ InFlight' = InFlight
<1> DEFINE a == [pc |-> "entered", op |-> op, id |-> i, value |-> v, ok |-> FALSE]
<1>1. a \in App
  BY DEF App
<1>2. /\ UNCHANGED <<db, blobs, blobDir, cache, details, alter, torn>>
      /\ app' = [app EXCEPT ![t] = a]
      /\ \A u \in Apps : app[u].pc # "written"
  BY DEF Enter, MonitorFree, AppInside
<1>3. app' \in [Apps -> App] /\ AppInv' /\ \A u \in Apps : app'[u].pc # "written"
  <2>1. PICK b : b = a
    OBVIOUS
  <2>2. /\ b \in App /\ b.pc = "entered" /\ b.op = op /\ b.id = i /\ b.value = v
        /\ MayHappen(op) /\ app' = [app EXCEPT ![t] = b]
    BY <1>1, <1>2, <2>1 DEF Enter
  <2>3. /\ app' \in [Apps -> App] /\ AppInv' /\ app'[t] = b
        /\ \A u \in Apps \ {t} : app'[u] = app[u]
    BY <1>2, <2>2, AppBecomes
  <2>4. QED
    BY <1>2, <2>2, <2>3
<1>4. TypeOK'
  BY <1>2, <1>3 DEF TypeInv, TypeOK
<1>5. AlterInv' /\ StepInv' /\ RowsInv'
  BY <1>2 DEF TypeInv, AlterInv, StepInv, RowsInv, Running, Known
<1>6. CallInv' /\ InFlight' = InFlight
  BY <1>2, <1>3 DEF CallInv, InFlight
<1>7. QED
  BY <1>3, <1>4, <1>5, <1>6 DEF TypeInv

\* What a method does before its transaction ends.
Deletes(t) ==
    /\ app' = [app EXCEPT ![t].pc = "written", ![t].ok = TRUE]
    /\ blobs' = IF Features = "external" THEN Restrict(blobs, DOMAIN blobs \ {app[t].id})
                ELSE blobs

Body(t) == CreateElt(t) \/ UpdateElt(t) \/ DeleteElt(t)

LEMMA BodyCases ==
  ASSUME TypeInv, NEW t \in Apps, Body(t)
  PROVE  /\ UNCHANGED <<db, blobDir, details, alter, torn>>
         /\ ConnectionFree /\ app[t].pc = "entered" /\ MayHappen(app[t].op)
         /\ cache' \in {cache, Features}
         /\ db.specs = "none" /\ ~Refills => cache' = cache
         /\ \/ CallFails(t)
            \/ /\ db.specs # "none" /\ db.soup.layout # "none" /\ cache' = Features
               /\ \/ \E i \in Ids :
                        app[t].value \in Values /\ app[t].op # "delete" /\ WriteElt(t, i)
                  \/ app[t].op = "delete" /\ app[t].id \in Ids /\ Deletes(t)
<1>1. CASE CreateElt(t)
  <2>1. /\ UNCHANGED <<db, blobDir, details, alter, torn>>
        /\ ConnectionFree /\ app[t].pc = "entered" /\ app[t].op = "create"
        /\ cache' = Features /\ MayHappen("create")
    BY <1>1 DEF CreateElt, InCall, TypeInv, AppInv
  <2>2. CASE RowFits
    <3>1. NextId \in Ids
      <4>1. db.soup.seq \in 0 .. MaxId /\ db.soup.seq < MaxId
        BY <1>1, <2>2, DbFields, TableFields DEF TypeInv, CreateElt
      <4>2. QED
        BY <4>1, MaxIdAssumption DEF NextId, Ids
    <3>2. WriteElt(t, NextId)
      BY <1>1, <2>2 DEF CreateElt
    <3>3. app[t].value \in Values
      BY <2>1 DEF TypeInv, AppInv, MayHappen
    <3>4. db.soup.layout # "none" /\ db.specs # "none"
      BY <2>2, NoTableOK DEF RowFits, TypeInv, StepInv
    <3>5. QED
      BY <2>1, <3>1, <3>2, <3>3, <3>4 DEF Refills
  <2>3. CASE ~RowFits
    BY <1>1, <2>1, <2>3 DEF CreateElt, Refills
  <2>4. QED
    BY <2>2, <2>3
<1>2. CASE UpdateElt(t)
  <2>1. /\ UNCHANGED <<db, blobDir, details, alter, torn>>
        /\ ConnectionFree /\ app[t].pc = "entered" /\ app[t].op = "update"
        /\ cache' = IF db.specs = "none" THEN cache ELSE Features
        /\ MayHappen("update") /\ app[t].value \in Values
    BY <1>2 DEF UpdateElt, InCall, TypeInv, AppInv
  <2>2. CASE db.specs # "none" /\ RowFits /\ app[t].id \in DOMAIN db.soup.rows
    <3>1. app[t].id \in Ids
      BY <2>1 DEF TypeInv, AppInv
    <3>2. WriteElt(t, app[t].id)
      BY <1>2, <2>2 DEF UpdateElt
    <3>3. QED
      BY <2>1, <2>2, <3>1, <3>2 DEF RowFits
  <2>3. CASE ~(db.specs # "none" /\ RowFits /\ app[t].id \in DOMAIN db.soup.rows)
    BY <1>2, <2>1, <2>3 DEF UpdateElt
  <2>4. QED
    BY <2>2, <2>3
<1>3. CASE DeleteElt(t)
  <2>1. /\ UNCHANGED <<db, blobDir, details, alter, torn>>
        /\ ConnectionFree /\ app[t].pc = "entered" /\ app[t].op = "delete"
        /\ app[t].id \in Ids /\ MayHappen("delete")
    BY <1>3 DEF DeleteElt, InCall, TypeInv, AppInv
  <2>2. CASE db.specs # "none" /\ db.soup.layout # "none"
    <3>1. Deletes(t) /\ cache' = Features
      BY <1>3, <2>2 DEF DeleteElt, Deletes
    <3>2. QED
      BY <2>1, <2>2, <3>1
  <2>3. CASE ~(db.specs # "none" /\ db.soup.layout # "none")
    BY <1>3, <2>1, <2>3 DEF DeleteElt
  <2>4. QED
    BY <2>2, <2>3
<1>4. QED
  BY <1>1, <1>2, <1>3 DEF Body

LEMMA FailEffect ==
  ASSUME TypeInv, NEW t \in Apps, ConnectionFree, CallFails(t), details' = details
  PROVE  /\ blobs' = blobs /\ app' \in [Apps -> App] /\ AppInv' /\ CallInv'
         /\ InFlight = {} /\ InFlight' = {}
<1>1. app' = [app EXCEPT ![t] = IdleApp] /\ blobs' = blobs
  BY DEF CallFails
<1>2. /\ app' \in [Apps -> App] /\ AppInv' /\ app'[t] = IdleApp
      /\ \A u \in Apps \ {t} : app'[u] = app[u]
  BY <1>1, IdleAppOK, AppBecomes
<1>3. \A u \in Apps : app[u].pc # "written" /\ app'[u].pc # "written"
  BY <1>2, IdleAppOK DEF ConnectionFree
<1>4. QED
  BY <1>1, <1>2, <1>3 DEF CallInv, InFlight

\* The thread that has changed a file, and the element it changes.
LEMMA InCallEffect ==
  ASSUME TypeInv, NEW t \in Apps, app[t].pc = "entered", ConnectionFree, MayHappen(app[t].op),
         UNCHANGED <<db, details, alter>>, cache' = Features,
         db.specs # "none", db.soup.layout # "none",
         NEW i \in Ids, NEW ok \in BOOLEAN,
         app' = [app EXCEPT ![t] = [pc |-> "written", op |-> app[t].op, id |-> i,
                                    value |-> app[t].value, ok |-> ok]],
         app[t].op # "delete" => app[t].value \in Values,
         ok /\ Features = "external" =>
            BlobOf(i)' = IF app[t].op = "delete" THEN NoValue ELSE app[t].value
  PROVE  /\ app' \in [Apps -> App] /\ AppInv' /\ CallInv' /\ InFlight' = {i}
<1> DEFINE a == [pc |-> "written", op |-> app[t].op, id |-> i, value |-> app[t].value,
                 ok |-> ok]
<1>1. a \in App
  BY AppFields DEF App
<1>2. /\ app' \in [Apps -> App] /\ AppInv' /\ app'[t] = a
      /\ \A u \in Apps \ {t} : app'[u] = app[u]
  BY <1>1, AppBecomes
<1>3. \A u \in Apps \ {t} : app'[u].pc # "written"
  BY <1>2 DEF ConnectionFree
<1>4. /\ app'[t].pc = "written" /\ app'[t].id = i /\ app'[t].op = app[t].op
      /\ app'[t].value = app[t].value /\ app'[t].ok = ok
  BY <1>2
<1>5. InFlight' = {i}
  BY <1>3, <1>4 DEF InFlight
<1>6. MayHappen(app[t].op)'
  BY <1>4 DEF MayHappen
<1>7. Features # "none" /\ alter.pc \notin {"begun", "blobs"}
  BY FeaturesOK DEF TypeInv, Layout, ConnectionFree
<1>8. BlobOf(app[t].id)' = BlobOf(i)'
  BY <1>4 DEF BlobOf
<1>9. CallInv'
  BY <1>3, <1>4, <1>6, <1>7, <1>8 DEF CallInv
<1>10. QED
  BY <1>2, <1>5, <1>9

LEMMA WriteEffect ==
  ASSUME TypeInv, NEW t \in Apps, app[t].pc = "entered", ConnectionFree, MayHappen(app[t].op),
         UNCHANGED <<db, details, alter>>, cache' = Features,
         db.specs # "none", db.soup.layout # "none",
         NEW i \in Ids, app[t].value \in Values, app[t].op # "delete", WriteElt(t, i)
  PROVE  /\ app' \in [Apps -> App] /\ AppInv' /\ CallInv' /\ InFlight' = {i}
         /\ blobs' \in Partial(Values) /\ (Features # "external" => blobs' = blobs)
         /\ \A j \in Ids \ {i} : BlobOf(j)' = BlobOf(j)
<1>1. PICK saved \in BOOLEAN :
          /\ app' = [app EXCEPT ![t].pc = "written", ![t].id = i, ![t].ok = saved]
          /\ IF Features = "external"
             THEN SaveBlob(i, app[t].value, saved)
             ELSE saved /\ UNCHANGED blobs
  BY DEF WriteElt
<1>2. /\ blobs' \in Partial(Values) /\ (Features # "external" => blobs' = blobs)
      /\ \A j \in Ids \ {i} : BlobOf(j)' = BlobOf(j)
      /\ saved /\ Features = "external" => BlobOf(i)' = app[t].value
  <2>1. CASE Features = "external"
    BY <1>1, <2>1, SaveEffect
  <2>2. CASE Features # "external"
    BY <1>1, <2>2, Kinds DEF BlobOf, TypeInv
  <2>3. QED
    BY <2>1, <2>2
<1>3. app' = [app EXCEPT ![t] = [pc |-> "written", op |-> app[t].op, id |-> i,
                                 value |-> app[t].value, ok |-> saved]]
  <2>1. app \in [Apps -> App]
    BY Kinds DEF TypeInv
  <2>2. PICK a : a = [app[t] EXCEPT !.pc = "written", !.id = i, !.ok = saved]
    OBVIOUS
  <2>3. a = [pc |-> "written", op |-> app[t].op, id |-> i, value |-> app[t].value, ok |-> saved]
    <3>1. PICK r \in App : r = app[t]
      BY <2>1
    <3>2. a = [r EXCEPT !.pc = "written", !.id = i, !.ok = saved]
      BY <2>2, <3>1
    <3>3. QED
      BY <3>1, <3>2 DEF App
  <2>4. app' = [app EXCEPT ![t] = a]
    BY <1>1, <2>1, <2>2
  <2>5. QED
    BY <2>3, <2>4
<1>4. QED
  BY <1>2, <1>3, InCallEffect

LEMMA DeleteEffect ==
  ASSUME TypeInv, NEW t \in Apps, app[t].pc = "entered", ConnectionFree, MayHappen(app[t].op),
         UNCHANGED <<db, details, alter>>, cache' = Features,
         db.specs # "none", db.soup.layout # "none",
         app[t].op = "delete", app[t].id \in Ids, Deletes(t)
  PROVE  /\ app' \in [Apps -> App] /\ AppInv' /\ CallInv' /\ InFlight' = {app[t].id}
         /\ blobs' \in Partial(Values) /\ (Features # "external" => blobs' = blobs)
         /\ \A j \in Ids \ {app[t].id} : BlobOf(j)' = BlobOf(j)
<1>1. PICK i \in Ids : i = app[t].id
  OBVIOUS
<1>2. /\ blobs' \in Partial(Values) /\ (Features # "external" => blobs' = blobs)
      /\ \A j \in Ids \ {i} : BlobOf(j)' = BlobOf(j)
      /\ Features = "external" => BlobOf(i)' = NoValue
  <2>1. CASE Features = "external"
    <3>1. blobs' = Restrict(blobs, DOMAIN blobs \ {i}) /\ blobs \in Partial(Values)
      BY <1>1, <2>1, Kinds DEF Deletes, TypeInv
    <3>2. blobs' \in Partial(Values)
      BY <3>1, LessPartial
    <3>3. /\ DOMAIN blobs' = DOMAIN blobs \ {i}
          /\ \A j \in DOMAIN blobs \ {i} : blobs'[j] = blobs[j]
      BY <3>1 DEF Restrict
    <3>4. QED
      BY <2>1, <3>2, <3>3 DEF BlobOf
  <2>2. CASE Features # "external"
    BY <2>2, Kinds DEF BlobOf, TypeInv, Deletes
  <2>3. QED
    BY <2>1, <2>2
<1>3. app' = [app EXCEPT ![t] = [pc |-> "written", op |-> app[t].op, id |-> i,
                                 value |-> app[t].value, ok |-> TRUE]]
  <2>1. app \in [Apps -> App]
    BY Kinds DEF TypeInv
  <2>2. app' = [app EXCEPT ![t].pc = "written", ![t].ok = TRUE]
    BY DEF Deletes
  <2>3. PICK a : a = [app[t] EXCEPT !.pc = "written", !.ok = TRUE]
    OBVIOUS
  <2>4. a = [pc |-> "written", op |-> app[t].op, id |-> i, value |-> app[t].value, ok |-> TRUE]
    <3>1. PICK r \in App : r = app[t]
      BY <2>1
    <3>2. a = [r EXCEPT !.pc = "written", !.ok = TRUE]
      BY <2>3, <3>1
    <3>3. QED
      BY <1>1, <3>1, <3>2 DEF App
  <2>5. app' = [app EXCEPT ![t] = a]
    BY <2>1, <2>2, <2>3
  <2>6. QED
    BY <2>4, <2>5
<1>4. app' \in [Apps -> App] /\ AppInv' /\ CallInv' /\ InFlight' = {i}
  BY <1>2, <1>3, InCallEffect
<1>5. QED
  BY <1>1, <1>2, <1>4

\* The effect of a method up to the end of its transaction: at most one element is in
\* flight, and no other file has changed.
LEMMA BodyEffect ==
  ASSUME TypeInv, NEW t \in Apps, Body(t)
  PROVE  /\ app' \in [Apps -> App] /\ AppInv' /\ CallInv' /\ blobs' \in Partial(Values)
         /\ InFlight = {} /\ InFlight' \subseteq Ids
         /\ \A j \in Ids \ InFlight' : BlobOf(j)' = BlobOf(j)
         /\ Features # "external" => blobs' = blobs
         /\ InFlight' = {} => blobs' = blobs
         /\ HalfWritten = {}
         /\ HalfWritten' = IF Features = "external" THEN InFlight' ELSE {}
<1>1. /\ UNCHANGED <<db, details, alter>> /\ ConnectionFree /\ app[t].pc = "entered"
      /\ MayHappen(app[t].op) /\ cache' \in {cache, Features} /\ blobs \in Partial(Values)
  BY BodyCases, Kinds DEF TypeInv
<1>2. InFlight = {} /\ HalfWritten = {}
  BY <1>1 DEF ConnectionFree, InFlight, HalfWritten
<1>3. Features' = Features
  BY <1>1 DEF Features
<1>4. HalfWritten' = IF Features = "external" THEN InFlight' ELSE {}
  BY <1>3 DEF HalfWritten
<1>5. CASE CallFails(t)
  <2>1. blobs' = blobs /\ app' \in [Apps -> App] /\ AppInv' /\ CallInv' /\ InFlight' = {}
    BY <1>1, <1>5, FailEffect
  <2>2. \A j \in Ids : BlobOf(j)' = BlobOf(j)
    BY <2>1 DEF BlobOf
  <2>3. QED
    BY <1>1, <1>2, <1>4, <2>1, <2>2
<1>6. ASSUME db.specs # "none", db.soup.layout # "none", cache' = Features, NEW i \in Ids,
             app[t].value \in Values, app[t].op # "delete", WriteElt(t, i)
      PROVE  /\ app' \in [Apps -> App] /\ AppInv' /\ CallInv' /\ InFlight' = {i}
             /\ blobs' \in Partial(Values) /\ (Features # "external" => blobs' = blobs)
             /\ \A j \in Ids \ {i} : BlobOf(j)' = BlobOf(j)
  BY <1>1, <1>6, WriteEffect
<1>7. ASSUME db.specs # "none", db.soup.layout # "none", cache' = Features,
             app[t].op = "delete", app[t].id \in Ids, Deletes(t)
      PROVE  /\ app' \in [Apps -> App] /\ AppInv' /\ CallInv' /\ InFlight' = {app[t].id}
             /\ blobs' \in Partial(Values) /\ (Features # "external" => blobs' = blobs)
             /\ \A j \in Ids \ {app[t].id} : BlobOf(j)' = BlobOf(j)
  BY <1>1, <1>7, DeleteEffect
<1>8. QED
  BY <1>2, <1>4, <1>5, <1>6, <1>7, BodyCases

LEMMA BodyType ==
  ASSUME TypeInv, NEW t \in Apps, Body(t)
  PROVE  TypeInv'
<1>1. UNCHANGED <<db, blobDir, details, alter, torn>> /\ cache' \in {cache, Features}
  BY BodyCases
<1>2. cache' \in {"internal", "external", "none"}
  BY <1>1, Kinds, FeaturesOK DEF TypeInv, Layout
<1>3. app' \in [Apps -> App] /\ AppInv' /\ CallInv' /\ blobs' \in Partial(Values)
  BY BodyEffect
<1>4. TypeOK'
  BY <1>1, <1>2, <1>3 DEF TypeInv, TypeOK, Layout, Partial
<1>5. AlterInv' /\ StepInv'
  BY <1>1 DEF TypeInv, AlterInv, StepInv, Running, Known
<1>6. RowsInv'
  BY <1>1 DEF TypeInv, RowsInv, StepInv, Features
<1>7. QED
  BY <1>3, <1>4, <1>5, <1>6 DEF TypeInv

\* The database after the rows of the soup were changed.
RowsBecome(rows) ==
    /\ db' \in Database /\ db'.soup \in Table
    /\ db'.soup.layout = db.soup.layout /\ db'.soup.rows = rows
    /\ db'.old = db.old /\ db'.features = db.features /\ db'.specs = db.specs
    /\ db'.status = db.status

LEMMA NewRowOK ==
  ASSUME TypeInv, NEW v \in Values
  PROVE  /\ NewRow(v) \in Row /\ NewRow(v).kept = v
         /\ NewRow(v).body = IF Features = "internal" THEN v ELSE NoValue
         /\ db.specs = "new" => NewRow(v).added = v
  BY CellIs DEF NewRow, RowOf, Row

\* The rows a committed call leaves.
RowsAfter(t) ==
    IF app[t].op = "delete" THEN Restrict(db.soup.rows, DOMAIN db.soup.rows \ {app[t].id})
    ELSE With(db.soup.rows, app[t].id, NewRow(app[t].value))

LEMMA EndRows ==
  ASSUME TypeInv, NEW t \in Apps, EndCall(t), app[t].ok
  PROVE  /\ RowsBecome(RowsAfter(t))
         /\ torn' = torn \ ({app[t].id} \ DOMAIN db.old.rows)
<1>1. /\ db.soup \in Table /\ db.soup.rows \in Partial(Row)
      /\ app[t].id \in Ids /\ (app[t].op # "delete" => app[t].value \in Values)
  BY DbFields, TableFields DEF TypeInv, CallInv, EndCall
<1>2. PICK rows : rows = RowsAfter(t)
  OBVIOUS
<1>3. rows \in Partial(Row)
  <2>1. CASE app[t].op = "delete"
    BY <1>1, <1>2, <2>1, LessPartial DEF RowsAfter
  <2>2. CASE app[t].op # "delete"
    BY <1>1, <1>2, <2>2, NewRowOK, WithPartial DEF RowsAfter
  <2>3. QED
    BY <2>1, <2>2
<1>4. PICK seq : seq = IF app[t].op = "create" THEN app[t].id ELSE db.soup.seq
  OBVIOUS
<1>5. seq \in 0 .. MaxId
  BY <1>1, <1>4, TableFields, MaxIdAssumption DEF Ids
<1>6. PICK soup : soup = [layout |-> db.soup.layout, seq |-> seq, rows |-> rows]
  OBVIOUS
<1>7. soup \in Table /\ soup.layout = db.soup.layout /\ soup.rows = rows
  BY <1>1, <1>3, <1>5, <1>6, TableIs
<1>8. db' = [soup |-> soup, old |-> db.old, features |-> db.features,
             specs |-> db.specs, status |-> db.status]
  <2>1. db' = [db EXCEPT !.soup.rows = rows, !.soup.seq = seq]
    BY <1>2, <1>4 DEF EndCall, RowsAfter
  <2>2. db.soup = [layout |-> db.soup.layout, seq |-> db.soup.seq, rows |-> db.soup.rows]
    BY <1>1, TableIs
  <2>3. QED
    BY <1>6, <2>1, <2>2, DbRecord DEF TypeInv
<1>9. RowsBecome(rows)
  BY <1>7, <1>8, DbFields DEF TypeInv, RowsBecome, Database, Steps
<1>10. QED
  BY <1>2, <1>9 DEF EndCall

LEMMA EndEffect ==
  ASSUME TypeInv, NEW t \in Apps, EndCall(t)
  PROVE  /\ UNCHANGED <<blobs, blobDir, cache, details, alter>>
         /\ alter.pc \notin {"begun", "blobs"}
         /\ app[t].id \in Ids /\ MayHappen(app[t].op)
         /\ db.specs # "none" /\ db.soup.layout # "none" /\ Features = cache
         /\ app[t].op # "delete" => app[t].value \in Values
         /\ app' \in [Apps -> App] /\ AppInv' /\ CallInv'
         /\ InFlight = {app[t].id} /\ InFlight' = {} /\ HalfWritten' = {}
         /\ ~app[t].ok => db' = db /\ torn' = torn \union {app[t].id}
<1>1. app[t].pc = "written"
  BY DEF EndCall
<1>2. /\ UNCHANGED <<blobs, blobDir, cache, details, alter>>
      /\ app' = [app EXCEPT ![t] = IdleApp]
      /\ ~app[t].ok => db' = db /\ torn' = torn \union {app[t].id}
  BY DEF EndCall
<1>3. /\ alter.pc \notin {"begun", "blobs"}
      /\ app[t].id \in Ids /\ MayHappen(app[t].op)
      /\ db.specs # "none" /\ db.soup.layout # "none" /\ Features = cache
      /\ app[t].op # "delete" => app[t].value \in Values
      /\ \A u \in Apps \ {t} : app[u].pc # "written"
  BY <1>1 DEF TypeInv, CallInv, Features
<1>4. /\ app' \in [Apps -> App] /\ AppInv' /\ app'[t] = IdleApp
      /\ \A u \in Apps \ {t} : app'[u] = app[u]
  BY <1>2, IdleAppOK, AppBecomes
<1>5. \A u \in Apps : app'[u].pc # "written"
  BY <1>3, <1>4, IdleAppOK
<1>6. CallInv' /\ InFlight' = {} /\ HalfWritten' = {}
  BY <1>5 DEF CallInv, InFlight, HalfWritten
<1>7. InFlight = {app[t].id}
  BY <1>1, <1>3 DEF InFlight
<1>8. QED
  BY <1>2, <1>3, <1>4, <1>6, <1>7

\* A row that a call leaves is one of before, or that of its element.
LEMMA RowsAfterAre ==
  ASSUME TypeInv, NEW t \in Apps
  PROVE  /\ DOMAIN RowsAfter(t) = IF app[t].op = "delete" THEN DOMAIN db.soup.rows \ {app[t].id}
                                  ELSE DOMAIN db.soup.rows \union {app[t].id}
         /\ \A j \in DOMAIN db.soup.rows \ {app[t].id} : RowsAfter(t)[j] = db.soup.rows[j]
         /\ app[t].op # "delete" => RowsAfter(t)[app[t].id] = NewRow(app[t].value)
<1>1. CASE app[t].op = "delete"
  BY <1>1 DEF RowsAfter, Restrict
<1>2. CASE app[t].op # "delete"
  BY <1>2 DEF RowsAfter, With
<1>3. QED
  BY <1>1, <1>2

LEMMA EndType ==
  ASSUME TypeInv, NEW t \in Apps, EndCall(t)
  PROVE  TypeInv'
<1>1. /\ UNCHANGED <<blobs, blobDir, cache, details, alter>>
      /\ app' \in [Apps -> App] /\ AppInv' /\ CallInv' /\ torn' \subseteq Ids
  <2>1. torn \subseteq Ids /\ app[t].id \in Ids
    BY EndEffect, Kinds DEF TypeInv
  <2>2. torn' \subseteq Ids
    BY <2>1 DEF EndCall
  <2>3. QED
    BY <2>2, EndEffect
<1>2. CASE ~app[t].ok
  <2>1. db' = db
    BY <1>2, EndEffect
  <2>2. TypeOK'
    BY <1>1, <2>1 DEF TypeInv, TypeOK
  <2>3. AlterInv' /\ StepInv' /\ RowsInv'
    BY <1>1, <2>1 DEF TypeInv, AlterInv, StepInv, RowsInv, Running, Known
  <2>4. QED
    BY <1>1, <2>2, <2>3 DEF TypeInv
<1>3. CASE app[t].ok
  <2>1. PICK rows : rows = RowsAfter(t)
    OBVIOUS
  <2>2. RowsBecome(rows)
    BY <1>3, <2>1, EndRows
  <2>3. /\ db.soup.layout # "none" /\ alter.pc \notin {"begun", "blobs"} /\ Features = cache
        /\ app[t].op # "delete" => app[t].value \in Values
    BY EndEffect
  <2>4. \A i \in DOMAIN rows : \/ i \in DOMAIN db.soup.rows /\ rows[i] = db.soup.rows[i]
                               \/ \E v \in Values : rows[i] = NewRow(v)
    BY <2>1, <2>3, RowsAfterAre
  <2>5. TypeOK'
    BY <1>1, <2>2 DEF TypeInv, TypeOK, RowsBecome
  <2>6. AlterInv' /\ StepInv'
    BY <1>1, <2>2, <2>3, NoTableOK DEF TypeInv, AlterInv, StepInv, RowsBecome, Running, Known
  <2>7. db.specs # "new" => Features = details.from /\ db.soup.layout = details.from
    BY <2>3, NoTableOK, DbFields DEF TypeInv, RowsInv, StepInv, Features
  <2>8. \A i \in DOMAIN rows : rows[i].kept \in Values
    BY <2>4, NewRowOK DEF TypeInv, RowsInv
  <2>9. ASSUME db.soup.layout = "internal", db.specs # "new", NEW i \in DOMAIN rows
        PROVE  rows[i].body = rows[i].kept
    BY <2>4, <2>7, <2>9, NewRowOK DEF TypeInv, RowsInv
  <2>10. RowsInv'
    BY <1>1, <2>2, <2>8, <2>9 DEF TypeInv, RowsInv, RowsBecome
  <2>11. QED
    BY <1>1, <2>5, <2>6, <2>10 DEF TypeInv
<1>4. QED
  BY <1>2, <1>3

LEMMA AppStepType ==
  ASSUME TypeInv, NEW t \in Apps, AppStep(t)
  PROVE  TypeInv'
BY BodyType, EndType DEF AppStep, Body

LEMMA RetrieveType ==
  ASSUME TypeInv, Retrieve
  PROVE  TypeInv' /\ InFlight' = {} /\ InFlight = {}
<1>1. /\ UNCHANGED <<db, blobs, blobDir, details, alter, app, torn>> /\ cache' = Features
      /\ \A u \in Apps : app[u].pc # "written"
  BY DEF Retrieve, MonitorFree, AppInside
<1>2. TypeOK'
  BY <1>1, FeaturesOK DEF TypeInv, TypeOK
<1>3. AlterInv' /\ StepInv' /\ AppInv'
  BY <1>1 DEF TypeInv, AlterInv, StepInv, AppInv, MayHappen, Running, Known
<1>4. RowsInv'
  BY <1>1 DEF TypeInv, RowsInv, StepInv, Features
<1>5. CallInv' /\ InFlight' = {} /\ InFlight = {}
  BY <1>1 DEF CallInv, InFlight
<1>6. QED
  BY <1>2, <1>3, <1>4, <1>5 DEF TypeInv

LEMMA CrashType ==
  ASSUME TypeInv, Crash
  PROVE  TypeInv' /\ InFlight' = {}
<1>1. /\ UNCHANGED <<db, blobs, blobDir, details>> /\ cache' = "none"
      /\ alter' = NotAltering("closed") /\ app' = [t \in Apps |-> IdleApp]
      /\ torn' = torn \union HalfWritten
  BY DEF Crash
<1>2. alter' \in Alter /\ AlterInv'
  BY <1>1, NotAlteringInv DEF AlterPc
<1>3. app' \in [Apps -> App] /\ AppInv' /\ CallInv' /\ InFlight' = {}
  BY <1>1, IdleAppOK DEF AppInv, CallInv, InFlight
<1>4. torn' \subseteq Ids
  BY <1>1, Kinds DEF TypeInv, HalfWritten, InFlight, CallInv
<1>5. TypeOK'
  BY <1>1, <1>2, <1>3, <1>4 DEF TypeInv, TypeOK
<1>6. StepInv' /\ RowsInv'
  BY <1>1 DEF TypeInv, StepInv, RowsInv
<1>7. QED
  BY <1>2, <1>3, <1>5, <1>6 DEF TypeInv

LEMMA InitType == Init => TypeInv
<1> SUFFICES ASSUME Init PROVE TypeInv
  OBVIOUS
<1>0. PICK a \in DOMAIN Ops, reIndex \in BOOLEAN, present \in SUBSET Ids, seq \in 0 .. MaxId :
         \E elt \in [present -> Values] :
            /\ \A i \in present : i <= seq
            /\ db = [soup |-> [layout |-> a[1], seq |-> seq,
                               rows |-> [i \in present |-> RowOf(elt[i], a[1], "old")]],
                     old |-> NoTable, features |-> a[1], specs |-> "old",
                     status |-> "none"]
            /\ blobs = IF a[1] = "external" THEN elt ELSE [i \in {} |-> NoValue]
            /\ blobDir = (a[1] = "external")
            /\ cache = "none"
            /\ details = [from |-> a[1], to |-> a[2], reIndex |-> reIndex]
            /\ alter = NotAltering("idle")
            /\ app = [t \in Apps |-> IdleApp]
            /\ torn = {}
  BY Zenon DEF Init
<1>1. PICK elt \in [present -> Values] :
            /\ db = [soup |-> [layout |-> a[1], seq |-> seq,
                               rows |-> [i \in present |-> RowOf(elt[i], a[1], "old")]],
                     old |-> NoTable, features |-> a[1], specs |-> "old",
                     status |-> "none"]
            /\ blobs = IF a[1] = "external" THEN elt ELSE [i \in {} |-> NoValue]
            /\ blobDir = (a[1] = "external")
            /\ cache = "none"
            /\ details = [from |-> a[1], to |-> a[2], reIndex |-> reIndex]
            /\ alter = NotAltering("idle")
            /\ app = [t \in Apps |-> IdleApp]
            /\ torn = {}
  BY <1>0, Zenon
<1>2. a \in Layout \X Layout
  BY OpsAssumption
<1> DEFINE rows == [i \in present |-> RowOf(elt[i], a[1], "old")]
<1>3. \A i \in present : RowOf(elt[i], a[1], "old") \in Row /\ rows[i].kept = elt[i]
                         /\ (a[1] = "internal" => rows[i].body = elt[i])
  BY CellIs DEF RowOf, Row
<1>4. rows \in Partial(Row) /\ DOMAIN rows = present
  <2>1. DOMAIN rows = present /\ rows = [i \in DOMAIN rows |-> rows[i]]
        /\ \A i \in DOMAIN rows : rows[i] \in Row
    BY <1>3
  <2> HIDE DEF rows
  <2>2. QED
    BY <2>1, PartialIs
<1>5. db.soup = [layout |-> a[1], seq |-> seq, rows |-> rows]
  BY <1>1
<1> HIDE DEF rows
<1>6. db.soup \in Table /\ db.soup.layout = a[1] /\ db.soup.rows = rows
  BY <1>2, <1>4, <1>5, TableIs DEF Layout
<1>7. db \in Database /\ db.old = NoTable /\ db.features = a[1] /\ db.specs = "old"
      /\ db.status = "none"
  BY <1>1, <1>2, <1>6, NoTableOK DEF Database
<1>8. blobs \in Partial(Values)
  <2>1. [i \in {} |-> NoValue] = NoRows
    BY DEF NoRows, NoTable, EmptyTable
  <2>2. elt \in Partial(Values)
    BY DEF Partial
  <2>3. QED
    BY <1>1, <2>1, <2>2, NoRowsOK
<1>9. details \in [from : Layout, to : Layout, reIndex : BOOLEAN]
      /\ details.from = a[1] /\ details.to = a[2]
  BY <1>1, <1>2
<1>10. alter \in Alter /\ alter.pc = "idle" /\ alter.moved = NoRows
  BY <1>1, NotAlteringOK DEF AlterPc
<1>11. app \in [Apps -> App] /\ AppInv /\ CallInv
  BY <1>1, IdleAppOK DEF AppInv, CallInv
<1>12. TypeOK
  BY <1>1, <1>7, <1>8, <1>9, <1>10, <1>11 DEF TypeOK, Partial
<1>13. AlterInv
  <2>1. <<details.from, details.to>> = a
    BY <1>2, <1>9
  <2>2. QED
    BY <1>10, <2>1 DEF AlterInv, Running, Known
<1>14. StepInv
  BY <1>6, <1>7, <1>9 DEF StepInv, OldCounts
<1>15. RowsInv
  BY <1>1, <1>3, <1>4, <1>6, <1>7, <1>9, NoTableOK, NoRowsOK DEF RowsInv
<1>16. QED
  BY <1>11, <1>12, <1>13, <1>14, <1>15 DEF TypeInv

LEMMA AppCallCases ==
  ASSUME NEW t \in Apps, AppCall(t)
  PROVE  \/ \E op \in {"create", "update", "delete"}, i \in Ids \union {0}, v \in Cell :
               /\ Enter(t, op, i, v)
               /\ op # "delete" => v \in Values
               /\ op # "create" => i \in Ids
         \/ Retrieve
<1>1. CASE \E v \in Values : Enter(t, "create", 0, v)
  BY <1>1 DEF Cell
<1>2. CASE \E i \in Ids, v \in Values : Enter(t, "update", i, v)
  BY <1>2 DEF Cell
<1>3. CASE \E i \in Ids : Enter(t, "delete", i, NoValue)
  BY <1>3 DEF Cell
<1>4. QED
  BY <1>1, <1>2, <1>3 DEF AppCall

LEMMA NextType == TypeInv /\ [Next]_vars => TypeInv'
<1> SUFFICES ASSUME TypeInv, [Next]_vars PROVE TypeInv'
  OBVIOUS
<1>1. CASE OpenDatabase
  BY <1>1, OpenType
<1>2. CASE AlterSoup
  BY <1>2, AlterSoupType
<1>3. CASE AlterStep
  BY <1>3, BeginType, RenameType, DropType, RegisterType, CopyTableType, MoveToRowType,
     MoveToBlobType, CommitMoveType, ReIndexType, DropOldType DEF AlterStep
<1>4. ASSUME NEW t \in Apps, AppCall(t) PROVE TypeInv'
  BY <1>4, AppCallCases, EnterType, RetrieveType
<1>5. ASSUME NEW t \in Apps, AppStep(t) PROVE TypeInv'
  BY <1>5, AppStepType
<1>6. CASE Crash
  BY <1>6, CrashType
<1>7. CASE UNCHANGED vars
  <2>1. TypeOK'
    BY <1>7 DEF vars, TypeInv, TypeOK
  <2>2. AlterInv' /\ StepInv' /\ RowsInv' /\ AppInv'
    BY <1>7 DEF vars, TypeInv, AlterInv, StepInv, RowsInv, AppInv, Running, Known, MayHappen
  <2>3. CallInv'
    BY <1>7 DEF vars, TypeInv, CallInv, MayHappen, BlobOf
  <2>4. QED
    BY <2>1, <2>2, <2>3 DEF TypeInv
<1>8. QED
  BY <1>1, <1>2, <1>3, <1>4, <1>5, <1>6, <1>7 DEF Next

LEMMA TypeInvariant == Spec => []TypeInv
BY InitType, NextType, PTL DEF Spec

\* The variables of AlterSoup have their types, whatever happens during whichever
\* alteration: what is written to a file is never the NULL of a row of a soup that
\* has files.
THEOREM TypeCorrect == Spec => []TypeOK
<1>1. TypeInv => TypeOK
  BY DEF TypeInv
<1>2. QED
  BY <1>1, TypeInvariant, PTL
----------------------------------------------------------------------------
(* The table of the soup has the storage the features in the cache say.    *)

LEMMA FeaturesAre ==
  ASSUME TypeInv, LayoutInv, db.soup.layout # "none"
  PROVE  Features = db.soup.layout
<1>1. CASE db.specs = "new"
  BY <1>1, Kinds, DbFields, TableFields DEF TypeInv, StepInv, LayoutInv, Features
<1>2. CASE db.specs # "new"
  BY <1>2, NoTableOK, DbFields DEF TypeInv, StepInv, RowsInv, Features
<1>3. QED
  BY <1>1, <1>2

\* A step that leaves the tables as they are.
LEMMA LayoutFrame ==
  ASSUME TypeInv, LayoutInv, details' = details, db'.specs = db.specs,
         db'.soup.layout = db.soup.layout,
         cache' = cache \/ (cache' = Features /\ (db.specs # "none" \/ Refills))
  PROVE  LayoutInv'
<1>1. db.specs = "new" => Features = db.soup.layout
  BY FeaturesAre DEF TypeInv, StepInv
<1>2. QED
  BY <1>1 DEF LayoutInv, SameStorage, Refills, MayHappen

LEMMA MovedFrame ==
  ASSUME TypeInv, MovedInv, details' = details, blobDir' = blobDir,
         db'.specs = db.specs, db'.soup.layout = db.soup.layout, db'.old = db.old,
         Fresh' => Fresh,
         alter'.pc # "blobs" \/ UNCHANGED <<blobs, alter>>
  PROVE  MovedInv'
  BY DEF MovedInv, BlobOf, MayHappen

LEMMA CommittedFresh ==
  ASSUME alter.pc = "begun", alter'.pc = "ready", alter'.resumed = alter.resumed
  PROVE  Fresh' => Fresh
  BY DEF Fresh, Running

LEMMA StoppedFresh ==
  ASSUME alter'.pc \notin {"ready", "begun", "blobs"} \/ alter'.resumed
  PROVE  ~Fresh'
  BY DEF Fresh, Running

LEMMA OpenStorage ==
  ASSUME TypeInv, LayoutInv, MovedInv, OpenDatabase
  PROVE  LayoutInv' /\ MovedInv'
<1>1. UNCHANGED <<db, blobs, blobDir, cache, details, app, torn>>
  BY DEF OpenDatabase
<1>2. alter'.pc # "blobs" /\ ~Fresh'
  <2>1. CASE db.status = "none"
    <3>1. alter' = NotAltering("idle")
      BY <2>1 DEF OpenDatabase
    <3>2. QED
      BY <3>1, NotAlteringEffect, StoppedFresh DEF AlterPc
  <2>2. CASE db.status # "none"
    <3>1. alter' = [NotAltering("ready") EXCEPT !.resumed = TRUE, !.step = db.status]
      BY <2>2 DEF OpenDatabase
    <3>2. NotAltering("ready") \in Alter /\ NotAltering("ready").pc = "ready"
      BY NotAlteringOK DEF AlterPc
    <3>3. alter'.pc = "ready" /\ alter'.resumed
      BY <3>1, <3>2 DEF Alter
    <3>4. QED
      BY <3>3, StoppedFresh
  <2>3. QED
    BY <2>1, <2>2
<1>3. QED
  BY <1>1, <1>2, LayoutFrame, MovedFrame

LEMMA AlterSoupStorage ==
  ASSUME TypeInv, LayoutInv, MovedInv, AlterSoup
  PROVE  LayoutInv' /\ MovedInv'
<1>1. db.specs = "old" /\ alter' = NotAltering("ready") /\ details' = details
  BY DEF AlterSoup
<1>2. db'.specs = "old"
  BY <1>1, DbRecord DEF AlterSoup, TypeInv
<1>3. alter'.pc = "ready"
  BY <1>1, NotAlteringEffect DEF AlterPc
<1>4. QED
  BY <1>2, <1>3 DEF LayoutInv, MovedInv

LEMMA BeginStorage ==
  ASSUME TypeInv, LayoutInv, MovedInv, BeginTransaction
  PROVE  LayoutInv' /\ MovedInv'
<1>1. UNCHANGED <<db, blobs, blobDir, cache, details, app, torn>> /\ alter.pc = "ready"
  BY DEF BeginTransaction
<1>2. alter'.pc = "begun" /\ alter'.resumed = alter.resumed
  BY AlterFields DEF TypeInv, BeginTransaction
<1>3. Fresh' => Fresh
  BY <1>1, <1>2 DEF Fresh, Running
<1>4. QED
  BY <1>1, <1>2, <1>3, LayoutFrame, MovedFrame

\* Before the new table is registered there is nothing to say of it.
LEMMA NotRegistered ==
  ASSUME db'.specs # "new", alter'.pc # "blobs", db'.specs = "none" => cache' = "none"
  PROVE  LayoutInv' /\ MovedInv'
  BY DEF LayoutInv, MovedInv

LEMMA RenameStorage ==
  ASSUME TypeInv, LayoutInv, MovedInv, RenameOldSoupTable
  PROVE  LayoutInv' /\ MovedInv'
<1>1. db.specs # "new" /\ db.specs # "none"
  BY RenameEffect DEF TypeInv, StepInv
<1>2. QED
  BY <1>1, RenameEffect, NotRegistered

LEMMA DropStorage ==
  ASSUME TypeInv, LayoutInv, MovedInv, DropOldIndexes
  PROVE  LayoutInv' /\ MovedInv'
  BY DropEffect, NotRegistered

LEMMA RegisterStorage ==
  ASSUME TypeInv, LayoutInv, MovedInv, RegisterSoupUsingTableName
  PROVE  LayoutInv' /\ MovedInv'
<1>1. /\ cache \in {"none", details.from} /\ db.specs = "none"
  BY RegisterEffect DEF TypeInv, RowsInv, StepInv
<1>2. SameStorage \/ ~Refills => RegisteredLayout = details.to
  BY <1>1 DEF LayoutInv, SameStorage, RegisteredLayout
<1>3. LayoutInv'
  BY <1>2, RegisterEffect DEF LayoutInv, SameStorage, Refills, MayHappen
<1>4. MovedInv'
  BY RegisterEffect DEF MovedInv, Fresh
<1>5. QED
  BY <1>3, <1>4

LEMMA CopiesStorage ==
  ASSUME TypeInv, LayoutInv, MovedInv, NEW moved \in Partial(Cell), Copies(moved),
         UNCHANGED <<blobs, blobDir, cache, details, app, torn>>,
         alter.pc \in {"begun", "blobs"}
  PROVE  LayoutInv' /\ MovedInv'
<1>1. /\ db'.specs = db.specs /\ db'.soup.layout = db.soup.layout /\ db'.old = db.old
      /\ alter'.pc = "ready" /\ alter'.resumed = alter.resumed
  BY CopiesEffect, MergedOK DEF TypeInv
<1>2. Fresh' => Fresh
  BY <1>1 DEF Fresh, Running
<1>3. QED
  BY <1>1, <1>2, LayoutFrame, MovedFrame

LEMMA CopyTableStorage ==
  ASSUME TypeInv, LayoutInv, MovedInv, CopyTable
  PROVE  LayoutInv' /\ MovedInv'
<1>1. /\ UNCHANGED <<blobs, blobDir, cache, details, app, torn>>
      /\ alter.pc = "begun" /\ db.status = "REGISTER_SOUP_USING_TABLE_NAME"
  BY CopyTableCases
<1>2. CASE alter' = NotAltering("idle") /\ db' = db
  <2>1. alter'.pc = "idle"
    BY <1>2, NotAlteringEffect DEF AlterPc
  <2>2. QED
    BY <1>1, <1>2, <2>1, StoppedFresh, LayoutFrame, MovedFrame
<1>3. CASE /\ db' = db
           /\ alter' = [alter EXCEPT !.pc = "blobs", !.todo = DOMAIN db.old.rows]
  <2>1. alter'.todo = DOMAIN db.old.rows /\ alter'.resumed = alter.resumed
    BY <1>3, AlterFields DEF TypeInv
  <2>2. LayoutInv'
    BY <1>1, <1>3, LayoutFrame
  <2>3. MovedInv'
    BY <1>1, <1>3, <2>1 DEF MovedInv, Fresh, Running
  <2>4. QED
    BY <2>2, <2>3
<1>4. CASE Copies(NoRows)
  BY <1>1, <1>4, NoRowsOK, CopiesStorage
<1>5. QED
  BY <1>2, <1>3, <1>4, CopyTableCases

LEMMA MoveToRowStorage ==
  ASSUME TypeInv, LayoutInv, MovedInv, MoveBlobToRow
  PROVE  LayoutInv' /\ MovedInv'
<1>1. /\ UNCHANGED <<db, blobDir, cache, details, app, torn>>
      /\ alter.pc = "blobs" /\ details.to = "internal"
  BY MoveToRowCases
<1>2. Fresh' => Fresh
  BY <1>1, MoveToRowCases, NotAlteringEffect DEF Fresh, Running, AlterPc
<1>3. LayoutInv'
  BY <1>1, LayoutFrame
<1>4. MovedInv'
  BY <1>1, <1>2 DEF MovedInv
<1>5. QED
  BY <1>3, <1>4

LEMMA MoveToBlobStorage ==
  ASSUME TypeInv, LayoutInv, MovedInv, MoveRowToBlob
  PROVE  LayoutInv' /\ MovedInv'
<1>1. /\ UNCHANGED <<db, blobDir, cache, details, app, torn>>
      /\ alter.pc = "blobs" /\ details.to = "external" /\ details.from = "internal"
      /\ blobs \in Partial(Values)
  BY MoveToBlobCases, Kinds DEF TypeInv
<1>2. PICK i \in alter.todo :
               /\ i \in Ids /\ i \in DOMAIN db.old.rows
               /\ alter'.pc = "blobs" /\ alter'.resumed = alter.resumed
               /\ alter'.step = alter.step /\ alter'.todo = alter.todo \ {i}
               /\ alter'.moved = alter.moved /\ alter' \in Alter
               /\ \E saved \in BOOLEAN : SaveBlob(i, db.old.rows[i].body, saved)
  BY MoveToBlobCases
<1>3. Fresh /\ db.specs = "new"
  BY <1>1 DEF TypeInv, AlterInv, StepInv, Fresh, Running
<1>4. ASSUME db.soup.layout = "external", ~MayHappen("unwritable"),
             NEW j \in DOMAIN db.old.rows \ alter'.todo
      PROVE  BlobOf(j)' = db.old.rows[j].body
  <2>0. db.old.rows[i].body \in Values /\ DOMAIN db.old.rows \subseteq Ids
    BY <1>1, <1>2, DbFields, TableFields
    DEF TypeInv, AlterInv, StepInv, RowsInv, OldCounts
  <2>1. PICK saved \in BOOLEAN : SaveBlob(i, db.old.rows[i].body, saved)
    BY <1>2
  <2>2. CASE j = i
    <3>1. blobDir
      BY <1>3, <1>4 DEF MovedInv
    <3>2. BlobOf(i)' = db.old.rows[i].body
      BY <1>2, <1>4, <2>0, <2>1, <3>1, SaveEffect
    <3>3. QED
      BY <2>2, <3>2 DEF BlobOf
  <2>3. CASE j # i
    <3>1. BlobOf(j) = db.old.rows[j].body
      BY <1>1, <1>2, <1>4, <2>3 DEF MovedInv
    <3>2. QED
      BY <1>2, <2>0, <2>1, <2>3, <3>1, SaveEffect
  <2>4. QED
    BY <2>2, <2>3
<1>5. LayoutInv'
  BY <1>1, LayoutFrame
<1>6. MovedInv'
  BY <1>1, <1>2, <1>3, <1>4 DEF MovedInv, MayHappen
<1>7. QED
  BY <1>5, <1>6

LEMMA ReIndexStorage ==
  ASSUME TypeInv, LayoutInv, MovedInv, ReIndexSoup
  PROVE  LayoutInv' /\ MovedInv'
<1>1. /\ UNCHANGED <<blobs, blobDir, details, app, torn>> /\ cache' = Features
      /\ alter.pc = "begun" /\ db.specs = "new"
      /\ db'.specs = db.specs /\ db'.soup.layout = db.soup.layout /\ db'.old = db.old
  BY ReIndexCases DEF TypeInv, StepInv
<1>2. alter'.pc # "blobs" /\ (Fresh' => Fresh)
  BY ReIndexCases, NotAlteringEffect DEF Fresh, Running, AlterPc
<1>3. QED
  BY <1>1, <1>2, LayoutFrame, MovedFrame

LEMMA DropOldStorage ==
  ASSUME TypeInv, LayoutInv, MovedInv, DropOldTable
  PROVE  LayoutInv' /\ MovedInv'
<1>1. alter'.pc = "idle"
  BY DropOldCases, NotAlteringEffect DEF AlterPc
<1>2. LayoutInv'
  BY DropOldCases, LayoutFrame
<1>3. MovedInv'
  BY <1>1, StoppedFresh DEF MovedInv
<1>4. QED
  BY <1>2, <1>3

LEMMA AppStepStorage ==
  ASSUME TypeInv, LayoutInv, MovedInv, NEW t \in Apps, AppStep(t)
  PROVE  LayoutInv' /\ MovedInv'
<1>1. CASE Body(t)
  <2>1. /\ UNCHANGED <<db, blobDir, details, alter>> /\ alter.pc \notin {"begun", "blobs"}
        /\ cache' \in {cache, Features} /\ (db.specs = "none" /\ ~Refills => cache' = cache)
    BY <1>1, BodyCases DEF ConnectionFree
  <2>2. Fresh' => Fresh
    BY <2>1 DEF Fresh, Running
  <2>3. QED
    BY <2>1, <2>2, LayoutFrame, MovedFrame
<1>2. CASE EndCall(t)
  <2>1. /\ UNCHANGED <<blobDir, cache, details, alter>> /\ alter.pc \notin {"begun", "blobs"}
    BY <1>2, EndEffect
  <2>2. /\ db'.specs = db.specs /\ db'.soup.layout = db.soup.layout /\ db'.old = db.old
    BY <1>2, EndEffect, EndRows DEF RowsBecome
  <2>3. Fresh' => Fresh
    BY <2>1 DEF Fresh, Running
  <2>4. QED
    BY <2>1, <2>2, <2>3, LayoutFrame, MovedFrame
<1>3. QED
  BY <1>1, <1>2 DEF AppStep, Body

LEMMA CrashStorage ==
  ASSUME TypeInv, LayoutInv, MovedInv, Unstale, Crash
  PROVE  LayoutInv' /\ MovedInv'
<1>1. /\ UNCHANGED <<db, blobs, blobDir, details>> /\ cache' = "none"
      /\ alter' = NotAltering("closed") /\ MayHappen("crash")
  BY DEF Crash
<1>2. alter'.pc = "closed"
  BY <1>1, NotAlteringEffect DEF AlterPc
<1>3. db.specs = "new" => db.soup.layout = details.to
  BY <1>1 DEF LayoutInv, Unstale
<1>4. LayoutInv'
  BY <1>1, <1>3 DEF LayoutInv, SameStorage, Refills, MayHappen
<1>5. MovedInv'
  BY <1>1, <1>2, StoppedFresh DEF MovedInv
<1>6. QED
  BY <1>4, <1>5

LEMMA NextStorage ==
  ASSUME TypeInv, Unstale, LayoutInv, MovedInv, [Next]_vars
  PROVE  LayoutInv' /\ MovedInv'
<1>1. CASE OpenDatabase
  BY <1>1, OpenStorage
<1>2. CASE AlterSoup
  BY <1>2, AlterSoupStorage
<1>3. CASE AlterStep
  <2>1. CASE CommitMove
    BY <2>1, CommitMoveCases, CopiesStorage
  <2>2. QED
    BY <1>3, <2>1, BeginStorage, RenameStorage, DropStorage, RegisterStorage, CopyTableStorage,
       MoveToRowStorage, MoveToBlobStorage, ReIndexStorage, DropOldStorage DEF AlterStep
<1>4. ASSUME NEW t \in Apps, AppCall(t) PROVE LayoutInv' /\ MovedInv'
  <2>1. UNCHANGED <<db, blobs, blobDir, details, alter>>
    BY <1>4, AppCallCases DEF Enter, Retrieve
  <2>2. CASE Retrieve
    <3>1. cache' = Features /\ MayHappen("retrieve")
      BY <2>2 DEF Retrieve
    <3>2. db.specs = "new" => Features = db.soup.layout
      BY FeaturesAre DEF TypeInv, StepInv
    <3>3. LayoutInv'
      BY <2>1, <3>1, <3>2 DEF LayoutInv, SameStorage, Refills, MayHappen
    <3>4. QED
      BY <2>1, <3>3, MovedFrame DEF Fresh, Running
  <2>3. CASE cache' = cache
    BY <2>1, <2>3, LayoutFrame, MovedFrame DEF Fresh, Running
  <2>4. QED
    BY <1>4, <2>2, <2>3, AppCallCases DEF Enter
<1>5. ASSUME NEW t \in Apps, AppStep(t) PROVE LayoutInv' /\ MovedInv'
  BY <1>5, AppStepStorage
<1>6. CASE Crash
  BY <1>6, CrashStorage
<1>7. CASE UNCHANGED vars
  BY <1>7, LayoutFrame, MovedFrame DEF vars, Fresh, Running
<1>8. QED
  BY <1>1, <1>2, <1>3, <1>4, <1>5, <1>6, <1>7 DEF Next
----------------------------------------------------------------------------
(* The content of the soup.                                                *)

\* What a step leaves of the elements of the table of the soup.
SameElements ==
    /\ DOMAIN db'.soup.rows = DOMAIN db.soup.rows
    /\ db'.soup.layout = db.soup.layout
    /\ db.soup.layout = "internal" =>
          \A i \in DOMAIN db.soup.rows : db'.soup.rows[i].body = db.soup.rows[i].body

LEMMA ContentFrame ==
  ASSUME SameElements, blobs' = blobs, alter'.moved = alter.moved,
         db'.status \in OldCounts <=> db.status \in OldCounts,
         db.status \in OldCounts => db'.old = db.old
  PROVE  Content' = Content
<1>1. Elements(db.soup)' = Elements(db.soup)
  BY DEF SameElements, Elements, ValueIn, BlobOf
<1>2. db.status \in OldCounts => Elements(db.old)' = Elements(db.old)
  BY DEF Elements, ValueIn, BlobOf
<1>3. QED
  BY <1>1, <1>2 DEF Content, OldCounts

\* A change of one element leaves what the soup holds of the others.
LEMMA HoldsFrame ==
  ASSUME alter' = alter, NEW j, BlobOf(j)' = BlobOf(j),
         db'.soup.layout = db.soup.layout, db'.old = db.old, db'.status = db.status,
         j \in DOMAIN db'.soup.rows <=> j \in DOMAIN db.soup.rows,
         j \in DOMAIN db.soup.rows => db'.soup.rows[j] = db.soup.rows[j]
  PROVE  Holds(j)' = Holds(j)
<1> DEFINE one(table) == {e \in Elements(table) : e[1] = j}
<1>1. j \in DOMAIN db.soup.rows => ValueIn(db.soup, j)' = ValueIn(db.soup, j)
  BY DEF ValueIn
<1>2. j \in DOMAIN db.old.rows => ValueIn(db.old, j)' = ValueIn(db.old, j)
  BY DEF ValueIn
<1>3. one(db.soup)' = one(db.soup)
  <2>1. one(db.soup) = IF j \in DOMAIN db.soup.rows THEN {<<j, ValueIn(db.soup, j)>>} ELSE {}
    BY DEF Elements
  <2>2. one(db.soup)' = IF j \in DOMAIN db.soup.rows THEN {<<j, ValueIn(db.soup, j)'>>} ELSE {}
    BY DEF Elements
  <2>3. QED
    BY <1>1, <2>1, <2>2
<1>4. one(db.old)' = one(db.old)
  <2>1. one(db.old) = IF j \in DOMAIN db.old.rows THEN {<<j, ValueIn(db.old, j)>>} ELSE {}
    BY DEF Elements
  <2>2. one(db.old)' = IF j \in DOMAIN db.old.rows THEN {<<j, ValueIn(db.old, j)'>>} ELSE {}
    BY DEF Elements
  <2>3. QED
    BY <1>2, <2>1, <2>2
<1>5. Holds(j) = one(db.soup) \union IF db.status \in OldCounts THEN one(db.old) ELSE {}
  BY DEF Holds, Content, OldCounts
<1>6. Holds(j)' = one(db.soup)' \union IF db.status \in OldCounts THEN one(db.old)' ELSE {}
  BY DEF Holds, Content, OldCounts
<1>7. QED
  BY <1>3, <1>4, <1>5, <1>6

LEMMA NotMoving ==
  ASSUME TypeInv, alter.pc # "blobs" \/ details.to = "external"
  PROVE  alter.moved = NoRows
  BY DEF TypeInv, AlterInv

LEMMA NoElements ==
  ASSUME NEW layout \in {"internal", "external", "none"}
  PROVE  Elements(EmptyTable(layout)) = {} /\ Elements(EmptyTable(layout))' = {}
<1>1. DOMAIN EmptyTable(layout).rows = {}
  BY EmptyTableOK, NoRowsOK
<1>2. QED
  BY <1>1 DEF Elements

LEMMA RenameContent ==
  ASSUME TypeInv, RenameOldSoupTable
  PROVE  Content' = Content
<1>1. alter.moved = NoRows /\ alter'.moved = NoRows
  BY RenameEffect, NotMoving
<1>2. Elements(db.old)' = Elements(db.soup)
  BY <1>1, RenameEffect DEF Elements, ValueIn, BlobOf
<1>3. Elements(db.soup)' = {}
  BY RenameEffect, NoTableOK, NoRowsOK DEF Elements
<1>4. QED
  BY <1>2, <1>3, RenameEffect DEF Content

LEMMA RegisterContent ==
  ASSUME TypeInv, RegisterSoupUsingTableName
  PROVE  Content' = Content
<1>1. alter.moved = NoRows /\ alter'.moved = NoRows
  BY RegisterEffect, NotMoving
<1>2. db.soup = NoTable
  BY RegisterEffect DEF TypeInv, StepInv
<1>3. Elements(db.soup) = {} /\ Elements(db.soup)' = {}
  BY <1>2, RegisterEffect, NoTableOK, NoRowsOK DEF Elements
<1>4. Elements(db.old)' = Elements(db.old)
  BY <1>1, RegisterEffect DEF Elements, ValueIn, BlobOf
<1>5. QED
  BY <1>3, <1>4, RegisterEffect DEF Content

\* The copy is one of every element, if each copied row gives what the old one gave.
LEMMA CopiesContent ==
  ASSUME TypeInv, NEW moved \in Partial(Cell), Copies(moved), moved = alter.moved,
         db.status = "REGISTER_SOUP_USING_TABLE_NAME", UNCHANGED blobs,
         DOMAIN db.soup.rows \intersect DOMAIN db.old.rows = {},
         DOMAIN alter.moved \subseteq DOMAIN db.old.rows,
         \A i \in DOMAIN db.old.rows :
            ValueIn(db.old, i) = IF db.soup.layout = "internal"
                                 THEN Merged(moved).rows[i].body ELSE BlobOf(i)
  PROVE  Content' = Content
<1>1. /\ DOMAIN db'.soup.rows = DOMAIN db.soup.rows \union DOMAIN db.old.rows
      /\ db'.soup = Merged(moved) /\ db'.soup.layout = db.soup.layout
      /\ db'.status = "COPY_TABLE" /\ alter'.moved = NoRows
      /\ \A i \in DOMAIN db.soup.rows : db'.soup.rows[i] = db.soup.rows[i]
  BY CopiesEffect, MergedOK DEF TypeInv
<1>2. \A i \in DOMAIN db.soup.rows : ValueIn(db.soup, i)' = ValueIn(db.soup, i)
  BY <1>1, NoRowsOK DEF ValueIn, BlobOf
<1>3. \A i \in DOMAIN db.old.rows : ValueIn(db.soup, i)' = ValueIn(db.old, i)
  <2>1. ASSUME NEW i \in DOMAIN db.old.rows
        PROVE  ValueIn(db.soup, i)' = IF db.soup.layout = "internal"
                                      THEN Merged(moved).rows[i].body ELSE BlobOf(i)
    BY <1>1, NoRowsOK DEF ValueIn, BlobOf
  <2>2. QED
    BY <2>1
<1>4. Elements(db.soup)' = Elements(db.soup) \union Elements(db.old)
  BY <1>1, <1>2, <1>3 DEF Elements
<1>5. QED
  BY <1>1, <1>4 DEF Content

LEMMA CopyTableContent ==
  ASSUME TypeInv, LayoutInv, CopyTable
  PROVE  Content' = Content
<1>1. /\ UNCHANGED <<blobs, blobDir, cache, details, app, torn>>
      /\ alter.pc = "begun" /\ db.status = "REGISTER_SOUP_USING_TABLE_NAME"
      /\ alter.moved = NoRows
  BY CopyTableCases, NotMoving
<1>2. CASE alter' = NotAltering("idle") /\ db' = db
  <2>1. alter'.moved = NoRows
    BY <1>2, NotAlteringEffect DEF AlterPc
  <2>2. QED
    BY <1>1, <1>2, <2>1, ContentFrame DEF SameElements
<1>3. CASE /\ db' = db
           /\ alter' = [alter EXCEPT !.pc = "blobs", !.todo = DOMAIN db.old.rows]
  <2>1. alter'.moved = alter.moved
    BY <1>3, AlterFields DEF TypeInv
  <2>2. QED
    BY <1>1, <1>3, <2>1, ContentFrame DEF SameElements
<1>4. CASE ~Conflict /\ ~MovesBlobs /\ Copies(NoRows)
  <2>1. DOMAIN db.soup.rows \intersect DOMAIN db.old.rows = {}
    BY <1>4 DEF Conflict
  <2>2. SameStorage \/ DOMAIN db.old.rows = {}
    BY <1>4, NoRowsOK DEF MovesBlobs, NoRows, SameStorage
  <2>3. ASSUME NEW i \in DOMAIN db.old.rows
        PROVE  ValueIn(db.old, i) = IF db.soup.layout = "internal"
                                    THEN Merged(NoRows).rows[i].body ELSE BlobOf(i)
    <3>1. SameStorage
      BY <2>2
    <3>2. /\ db.old.layout = details.from /\ db.soup.layout = details.to
          /\ details.from = details.to
      BY <1>1, <3>1 DEF TypeInv, StepInv, OldCounts, LayoutInv, SameStorage
    <3>3. i \notin DOMAIN NoRows /\ i \notin DOMAIN db.soup.rows /\ i \notin DOMAIN alter.moved
      BY <1>1, <2>1, NoRowsOK
    <3>4. Merged(NoRows).rows[i].body = IF AnyExternal THEN NoValue ELSE db.old.rows[i].body
      BY <3>3, NoRowsOK, MergedOK DEF TypeInv
    <3>5. AnyExternal <=> db.soup.layout = "external"
      BY <3>2 DEF AnyExternal
    <3>6. QED
      BY <3>2, <3>3, <3>4, <3>5 DEF ValueIn
  <2>4. QED
    BY <1>1, <1>4, <2>1, <2>3, NoRowsOK, CopiesContent
<1>5. QED
  BY <1>2, <1>3, <1>4, CopyTableCases

LEMMA MoveToRowContent ==
  ASSUME TypeInv, MoveBlobToRow
  PROVE  Content' = Content
<1>1. /\ UNCHANGED <<db, blobDir, cache, details, app, torn>> /\ blobs \in Partial(Values)
      /\ alter.pc = "blobs" /\ details.to = "internal"
  BY MoveToRowCases, Kinds DEF TypeInv
<1>2. CASE alter' = NotAltering("idle") /\ blobs' = blobs /\ db.soup.layout # "internal"
  <2>1. alter.moved = NoRows /\ alter'.moved = NoRows
    BY <1>1, <1>2, NotAlteringEffect DEF TypeInv, AlterInv, AlterPc
  <2>2. QED
    BY <1>1, <1>2, <2>1, ContentFrame DEF SameElements
<1>3. ASSUME db.soup.layout = "internal", NEW i \in alter.todo, i \in Ids,
             alter'.moved = With(alter.moved, i, BlobOf(i)),
             blobs' = Restrict(blobs, DOMAIN blobs \ {i})
      PROVE  Content' = Content
  <2>1. /\ db.old.layout = "external" /\ i \in DOMAIN db.old.rows
        /\ DOMAIN db.soup.rows \intersect DOMAIN db.old.rows = {}
        /\ DOMAIN alter.moved = DOMAIN db.old.rows \ alter.todo
    BY <1>1, Kinds DEF TypeInv, AlterInv, StepInv, OldCounts, Layout
  <2>2. \A j \in DOMAIN db.soup.rows : ValueIn(db.soup, j)' = ValueIn(db.soup, j)
    BY <1>1, <1>3, <2>1 DEF ValueIn, With
  <2>3. ASSUME NEW j \in DOMAIN db.old.rows PROVE ValueIn(db.old, j)' = ValueIn(db.old, j)
    <3>1. CASE j = i
      BY <1>1, <1>3, <2>1, <3>1 DEF ValueIn, With
    <3>2. CASE j # i
      <4>1. BlobOf(j)' = BlobOf(j)
        BY <1>3, <3>2 DEF BlobOf, Restrict
      <4>2. QED
        BY <1>1, <1>3, <2>1, <3>2, <4>1 DEF ValueIn, With
    <3>3. QED
      BY <3>1, <3>2
  <2>4. Elements(db.soup)' = Elements(db.soup) /\ Elements(db.old)' = Elements(db.old)
    BY <1>1, <2>2, <2>3 DEF Elements
  <2>5. QED
    BY <1>1, <2>4 DEF Content
<1>4. QED
  BY <1>2, <1>3, MoveToRowCases

LEMMA MoveToBlobContent ==
  ASSUME TypeInv, MoveRowToBlob
  PROVE  Content' = Content
<1>1. /\ UNCHANGED <<db, blobDir, cache, details, app, torn>>
      /\ alter.pc = "blobs" /\ details.to = "external" /\ details.from = "internal"
      /\ alter.moved = NoRows
  BY MoveToBlobCases, NotMoving
<1>2. PICK i \in alter.todo :
               /\ i \in Ids /\ i \in DOMAIN db.old.rows
               /\ alter'.moved = alter.moved
               /\ \E saved \in BOOLEAN : SaveBlob(i, db.old.rows[i].body, saved)
  BY MoveToBlobCases
<1>3. /\ db.old.layout = "internal"
      /\ DOMAIN db.soup.rows \intersect DOMAIN db.old.rows = {}
  BY <1>1 DEF TypeInv, AlterInv, StepInv, OldCounts
<1>4. \A j \in DOMAIN db.soup.rows : ValueIn(db.soup, j)' = ValueIn(db.soup, j)
  <2>1. db.old.rows[i].body \in Values /\ DOMAIN db.soup.rows \subseteq Ids
    BY <1>2, <1>3, DbFields, TableFields DEF TypeInv, RowsInv
  <2>2. \A j \in DOMAIN db.soup.rows : BlobOf(j)' = BlobOf(j)
    BY <1>2, <1>3, <2>1, SaveEffect
  <2>3. QED
    BY <1>1, <1>2, <2>2 DEF ValueIn
<1>5. \A j \in DOMAIN db.old.rows : ValueIn(db.old, j)' = ValueIn(db.old, j)
  BY <1>1, <1>2, <1>3, NoRowsOK DEF ValueIn
<1>6. Elements(db.soup)' = Elements(db.soup) /\ Elements(db.old)' = Elements(db.old)
  BY <1>1, <1>4, <1>5 DEF Elements
<1>7. QED
  BY <1>1, <1>6 DEF Content

\* What the rows of a finished move hold.
LEMMA MoveEnds ==
  ASSUME TypeInv, LayoutInv, MovedInv, CommitMove,
         details.to = "external" => ~Refills /\ ~MayHappen("unwritable"),
         NEW i \in DOMAIN db.old.rows
  PROVE  /\ i \notin DOMAIN db.soup.rows
         /\ db.soup.layout = details.to
         /\ details.to = "internal" =>
               i \in DOMAIN alter.moved /\ Merged(alter.moved).rows[i].body = alter.moved[i]
         /\ details.to = "external" =>
               /\ db.old.layout = "internal" /\ i \notin DOMAIN alter.moved
               /\ BlobOf(i) = db.old.rows[i].body
<1>1. /\ alter.pc = "blobs" /\ alter.todo = {} /\ alter.moved \in Partial(Cell)
      /\ db.status = "REGISTER_SOUP_USING_TABLE_NAME" /\ db.specs = "new"
  BY CommitMoveCases DEF TypeInv, StepInv
<1>2. i \notin DOMAIN db.soup.rows
  BY <1>1 DEF TypeInv, AlterInv
<1>3. CASE details.to = "internal"
  <2>1. i \in DOMAIN alter.moved
    BY <1>1, <1>3 DEF TypeInv, AlterInv
  <2>2. db.soup.layout = "internal"
    BY <1>1, <2>1, NoRowsOK DEF TypeInv, AlterInv
  <2>3. Merged(alter.moved).rows[i].body = alter.moved[i]
    BY <1>1, <1>2, <2>1, MergedOK DEF TypeInv
  <2>4. QED
    BY <1>2, <1>3, <2>1, <2>2, <2>3
<1>4. CASE details.to = "external"
  <2>1. db.soup.layout = "external"
    BY <1>1, <1>4 DEF LayoutInv
  <2>2. BlobOf(i) = db.old.rows[i].body
    BY <1>1, <1>4, <2>1 DEF MovedInv
  <2>3. details.from = "internal"
    BY <1>1, <1>4, Kinds DEF TypeInv, AlterInv, Layout
  <2>4. db.old.layout = "internal" /\ alter.moved = NoRows
    BY <1>1, <1>4, <2>3 DEF TypeInv, AlterInv, StepInv, OldCounts
  <2>5. QED
    BY <1>2, <1>4, <2>1, <2>2, <2>4, NoRowsOK
<1>5. QED
  BY <1>3, <1>4, Kinds DEF TypeInv, Layout

LEMMA CommitMoveContent ==
  ASSUME TypeInv, LayoutInv, MovedInv, CommitMove,
         details.to = "external" => ~Refills /\ ~MayHappen("unwritable")
  PROVE  Content' = Content
<1>1. /\ UNCHANGED <<blobs, blobDir, cache, details, app, torn>>
      /\ alter.pc = "blobs" /\ alter.todo = {} /\ alter.moved \in Partial(Cell)
      /\ db.status = "REGISTER_SOUP_USING_TABLE_NAME" /\ Copies(alter.moved)
  BY CommitMoveCases
<1>2. /\ DOMAIN db.soup.rows \intersect DOMAIN db.old.rows = {}
      /\ DOMAIN alter.moved \subseteq DOMAIN db.old.rows
  BY <1>1, NoRowsOK, Kinds DEF TypeInv, AlterInv, Layout
<1>3. ASSUME NEW i \in DOMAIN db.old.rows
      PROVE  ValueIn(db.old, i) = IF db.soup.layout = "internal"
                                  THEN Merged(alter.moved).rows[i].body ELSE BlobOf(i)
  BY MoveEnds, Kinds DEF ValueIn, TypeInv, Layout
<1>4. QED
  BY <1>1, <1>2, <1>3, CopiesContent

LEMMA ReIndexContent ==
  ASSUME TypeInv, ReIndexSoup
  PROVE  Content' = Content
<1>1. alter.moved = NoRows /\ alter'.moved = NoRows
  BY ReIndexCases, NotMoving, NotAlteringEffect DEF AlterPc
<1>2. SameElements /\ db'.old = db.old
  BY ReIndexCases, ReIndexedOK DEF SameElements
<1>3. db.status \notin OldCounts /\ db'.status \notin OldCounts
  BY ReIndexCases DEF OldCounts
<1>4. QED
  BY <1>1, <1>2, <1>3, ReIndexCases, ContentFrame

LEMMA DropOldContent ==
  ASSUME TypeInv, DropOldTable
  PROVE  Content' = Content
<1>1. alter.moved = NoRows /\ alter'.moved = NoRows
  BY DropOldCases, NotMoving, NotAlteringEffect DEF AlterPc
<1>2. db.status \notin OldCounts /\ db'.status \notin OldCounts
  BY DropOldCases DEF OldCounts
<1>3. QED
  BY <1>1, <1>2, DropOldCases, ContentFrame DEF SameElements

LEMMA OpenEffect ==
  ASSUME TypeInv, OpenDatabase
  PROVE  /\ UNCHANGED <<db, blobs, blobDir, cache, details, app, torn>>
         /\ alter.moved = NoRows /\ alter'.moved = NoRows
<1>1. UNCHANGED <<db, blobs, blobDir, cache, details, app, torn>> /\ alter.moved = NoRows
  BY NotMoving DEF OpenDatabase
<1>2. CASE alter' = NotAltering("idle")
  BY <1>1, <1>2, NotAlteringEffect DEF AlterPc
<1>3. CASE alter' = [NotAltering("ready") EXCEPT !.resumed = TRUE, !.step = db.status]
  <2>1. NotAltering("ready") \in Alter /\ NotAltering("ready").moved = NoRows
    BY NotAlteringOK DEF AlterPc
  <2>2. alter'.moved = NoRows
    BY <1>3, <2>1 DEF Alter
  <2>3. QED
    BY <1>1, <2>2
<1>4. QED
  BY <1>2, <1>3 DEF OpenDatabase

LEMMA AlterSoupEffect ==
  ASSUME TypeInv, AlterSoup
  PROVE  /\ UNCHANGED <<blobs, blobDir, details, app, torn>>
         /\ db.status = "none" /\ db.specs = "old"
         /\ db'.soup = db.soup /\ db'.old = db.old /\ db'.specs = "old"
         /\ db'.status = "STARTING"
         /\ alter.moved = NoRows /\ alter'.moved = NoRows
<1>1. UNCHANGED <<blobs, blobDir, details, app, torn>> /\ db.status = "none" /\ db.specs = "old"
  BY DEF AlterSoup
<1>2. db' = [soup |-> db.soup, old |-> db.old, features |-> db.features,
             specs |-> db.specs, status |-> "STARTING"]
  BY DbRecord DEF TypeInv, AlterSoup
<1>3. alter.moved = NoRows
  BY NotMoving DEF AlterSoup
<1>4. alter'.moved = NoRows
  BY NotAlteringEffect DEF AlterSoup, AlterPc
<1>5. QED
  BY <1>1, <1>2, <1>3, <1>4

LEMMA BeginEffect ==
  ASSUME TypeInv, BeginTransaction
  PROVE  /\ UNCHANGED <<db, blobs, blobDir, cache, details, app, torn>>
         /\ alter'.moved = alter.moved /\ (Fresh' => Fresh)
<1>1. alter' = [alter EXCEPT !.pc = "begun"] /\ alter.pc = "ready"
  BY DEF BeginTransaction
<1>2. alter'.moved = alter.moved /\ alter'.resumed = alter.resumed
  BY <1>1, AlterFields DEF TypeInv
<1>3. QED
  BY <1>1, <1>2 DEF BeginTransaction, Fresh, Running

LEMMA CallEffect ==
  ASSUME NEW t \in Apps, AppCall(t)
  PROVE  /\ UNCHANGED <<db, blobs, blobDir, details, alter, torn>>
         /\ cache' = cache \/ Retrieve
  BY AppCallCases DEF Enter, Retrieve

LEMMA CallInFlight ==
  ASSUME TypeInv, NEW t \in Apps, AppCall(t)
  PROVE  InFlight' = {} /\ InFlight = {}
<1>1. InFlight = {}
  BY AppCallCases DEF Enter, Retrieve, MonitorFree, AppInside, InFlight
<1>2. QED
  BY <1>1, AppCallCases, EnterType, RetrieveType

LEMMA NextContent ==
  ASSUME TypeInv, LayoutInv, MovedInv, KeepsContent(Alteration, Ops[Alteration]),
         [Next]_vars
  PROVE  \A i \in Ids : i \notin InFlight /\ i \notin InFlight' => Holds(i)' = Holds(i)
<1>0. Content' = Content => \A i \in Ids : Holds(i)' = Holds(i)
  BY DEF Holds
<1>1. CASE OpenDatabase
  BY <1>0, <1>1, OpenEffect, ContentFrame DEF SameElements
<1>2. CASE AlterSoup
  BY <1>0, <1>2, AlterSoupEffect, ContentFrame DEF SameElements, OldCounts
<1>3. CASE AlterStep
  <2> SUFFICES Content' = Content
    BY <1>0
  <2>1. CASE BeginTransaction
    BY <2>1, BeginEffect, ContentFrame DEF SameElements
  <2>2. CASE DropOldIndexes
    <3>1. alter.moved = NoRows
      BY <2>2, DropEffect, NotMoving
    <3>2. QED
      BY <2>2, <3>1, DropEffect, ContentFrame DEF SameElements, OldCounts
  <2>3. CASE CommitMove
    <3>1. alter.pc = "blobs"
      BY <2>3, CommitMoveCases
    <3>2. details.to = "external" => ~Refills /\ ~MayHappen("unwritable")
      <4>1. details.to = "external" => details.from = "internal"
        BY <3>1, Kinds DEF TypeInv, AlterInv, Layout
      <4>2. QED
        BY <4>1 DEF KeepsContent, Alteration, Refills, MayHappen
    <3>3. QED
      BY <2>3, <3>2, CommitMoveContent
  <2>4. QED
    BY <1>3, <2>1, <2>2, <2>3, RenameContent, RegisterContent, CopyTableContent,
       MoveToRowContent, MoveToBlobContent, ReIndexContent, DropOldContent DEF AlterStep
<1>4. ASSUME NEW t \in Apps, AppCall(t) PROVE \A i \in Ids : Holds(i)' = Holds(i)
  BY <1>0, <1>4, CallEffect, ContentFrame DEF SameElements
<1>5. ASSUME NEW t \in Apps, AppStep(t), NEW i \in Ids, i \notin InFlight, i \notin InFlight'
      PROVE  Holds(i)' = Holds(i)
  <2>1. CASE Body(t)
    <3>1. UNCHANGED <<db, alter>> /\ BlobOf(i)' = BlobOf(i)
      BY <1>5, <2>1, BodyCases, BodyEffect
    <3>2. QED
      BY <3>1, HoldsFrame
  <2>2. CASE EndCall(t)
    <3>1. UNCHANGED <<blobs, alter>> /\ i # app[t].id
      BY <1>5, <2>2, EndEffect
    <3>2. CASE ~app[t].ok
      BY <2>2, <3>1, <3>2, EndEffect, HoldsFrame DEF BlobOf
    <3>3. CASE app[t].ok
      <4>1. RowsBecome(RowsAfter(t))
        BY <2>2, <3>3, EndRows
      <4>2. /\ i \in DOMAIN RowsAfter(t) <=> i \in DOMAIN db.soup.rows
            /\ i \in DOMAIN db.soup.rows => RowsAfter(t)[i] = db.soup.rows[i]
        BY <3>1, RowsAfterAre
      <4>3. QED
        BY <3>1, <4>1, <4>2, HoldsFrame DEF RowsBecome, BlobOf
    <3>4. QED
      BY <3>2, <3>3
  <2>3. QED
    BY <1>5, <2>1, <2>2 DEF AppStep, Body
<1>6. CASE Crash
  <2>1. /\ UNCHANGED <<db, blobs>> /\ alter' = NotAltering("closed") /\ MayHappen("crash")
    BY <1>6 DEF Crash
  <2>2. alter.pc # "blobs" \/ details.to = "external"
    <3>1. alter.pc = "blobs" /\ details.to = "internal" => details.from = "external"
      BY Kinds DEF TypeInv, AlterInv, Layout
    <3>2. QED
      BY <2>1, <3>1, Kinds DEF KeepsContent, Alteration, MayHappen, TypeInv, Layout
  <2>3. alter.moved = NoRows /\ alter'.moved = NoRows
    BY <2>1, <2>2, NotMoving, NotAlteringEffect DEF AlterPc
  <2>4. QED
    BY <1>0, <2>1, <2>3, ContentFrame DEF SameElements
<1>7. CASE UNCHANGED vars
  BY <1>0, <1>7, ContentFrame DEF vars, SameElements
<1>8. QED
  BY <1>1, <1>2, <1>3, <1>4, <1>5, <1>6, <1>7 DEF Next

LEMMA InitStorage == Init => LayoutInv /\ MovedInv
<1> SUFFICES ASSUME Init PROVE LayoutInv /\ MovedInv
  OBVIOUS
<1>1. db.specs = "old" /\ alter = NotAltering("idle")
  BY DEF Init
<1>2. alter.pc = "idle"
  BY <1>1, NotAlteringOK DEF AlterPc
<1>3. QED
  BY <1>1, <1>2 DEF LayoutInv, MovedInv

LEMMA ContentUnstale ==
  ASSUME TypeInv, KeepsContent(Alteration, Ops[Alteration])
  PROVE  Unstale
  BY Kinds DEF TypeInv, KeepsContent, Alteration, Unstale, SameStorage, Refills, MayHappen, Layout

\* No step of the operation, no crash and no resumption loses, duplicates or changes an
\* element, for any elements, threads and calls: only the call that has changed the
\* file of an element, or commits its row, does.  It takes that no process dies while
\* files become rows and, while rows become files, that every file can be saved and
\* that nobody creates or retrieves, which caches the features of before.
THEOREM ContentCorrect ==
  ASSUME \A a \in DOMAIN Ops : KeepsContent(a, Ops[a])
  PROVE  Spec => ContentChangesOnlyByCalls
<1> DEFINE Inv == TypeInv /\ LayoutInv /\ MovedInv
           Keeps == \A i \in Ids : i \notin InFlight /\ i \notin InFlight' => Holds(i)' = Holds(i)
<1>1. Init => Inv
  BY InitType, InitStorage
<1>2. TypeInv => KeepsContent(Alteration, Ops[Alteration])
  BY DEF TypeInv, AlterInv, Known, Alteration
<1>3. Inv /\ [Next]_vars => Inv'
  BY <1>2, ContentUnstale, NextType, NextStorage
<1>4. Inv /\ [Next]_vars => Keeps
  BY <1>2, NextContent
<1>5. Inv /\ [Next]_vars => [Keeps]_vars
  BY <1>4
<1> HIDE DEF Inv
<1>6. QED
  BY <1>1, <1>3, <1>5, PTL DEF Spec, ContentChangesOnlyByCalls
----------------------------------------------------------------------------
(* The columns of the indexed paths.                                       *)

KeepsThese == KeepsIndexes(Alteration, Ops[Alteration])

LEMMA KeepsThis ==
  ASSUME TypeInv, KeepsThese
  PROVE  /\ Unstale
         /\ details.from = "internal" /\ details.to = "external" =>
               ~Refills /\ ~MayHappen("unwritable")
         /\ details.from = "external" /\ details.to = "external" => ~MayHappen("delete")
<1>1. /\ details.from \in {"internal", "external"} /\ details.to \in {"internal", "external"}
      /\ Alteration = <<details.from, details.to>>
  BY Kinds DEF TypeInv, Layout, Alteration
<1>2. CASE details.from = details.to
  BY <1>1, <1>2 DEF KeepsThese, KeepsIndexes, Unstale, SameStorage, Refills, MayHappen
<1>3. CASE details.from = "internal" /\ details.to = "external"
  BY <1>1, <1>3 DEF KeepsThese, KeepsIndexes, Unstale, Refills, MayHappen
<1>4. CASE details.from = "external" /\ details.to = "internal"
  BY <1>1, <1>4 DEF KeepsThese, KeepsIndexes, Unstale, Refills, MayHappen
<1>5. QED
  BY <1>1, <1>2, <1>3, <1>4

KeptInv == SoupKept /\ OldKept /\ AddedKept

\* A step that changes neither the rows nor the files.
LEMMA KeptFrame ==
  ASSUME KeptInv, details' = details, db'.soup = db.soup, blobs' = blobs,
         db'.status \in OldCounts =>
            db.status \in OldCounts /\ db'.old = db.old /\ alter'.moved = alter.moved,
         Fresh' => Fresh, Loose \subseteq Loose', torn \subseteq torn',
         db'.status = "RE_INDEX_SOUP" \/
            (db'.status = "none" /\ db'.specs = "new" /\ details.reIndex) =>
               db.status = "RE_INDEX_SOUP" \/
                  (db.status = "none" /\ db.specs = "new" /\ details.reIndex)
  PROVE  KeptInv'
<1>1. SoupKept'
  BY DEF KeptInv, SoupKept, KeptOf, BlobOf
<1>2. OldKept'
  BY DEF KeptInv, OldKept, KeptOf, BlobOf, SameStorage
<1>3. AddedKept'
  BY DEF KeptInv, AddedKept
<1>4. QED
  BY <1>1, <1>2, <1>3 DEF KeptInv

\* No call is in the middle while the operation has the connection.
LEMMA NotLoose ==
  ASSUME TypeInv, UNCHANGED <<app, torn>>, alter.pc \in {"begun", "blobs"} \/ ConnectionFree
  PROVE  Loose = torn /\ Loose' = torn /\ torn' = torn
<1>1. HalfWritten = {} /\ HalfWritten' = {}
  BY NoCall
<1>2. QED
  BY <1>1 DEF Loose

LEMMA RenameKept ==
  ASSUME TypeInv, KeptInv, RenameOldSoupTable
  PROVE  KeptInv'
<1>1. /\ DOMAIN db'.soup.rows = {} /\ alter'.moved = NoRows
      /\ Loose = torn /\ Loose' = torn
  BY RenameEffect, NoTableOK, NoRowsOK, NotLoose
<1>2. \A i \in DOMAIN db'.old.rows \ torn : db'.old.rows[i].kept = KeptOf(db.old, i)'
  BY <1>1, RenameEffect DEF KeptInv, SoupKept, KeptOf, BlobOf
<1>3. SoupKept' /\ AddedKept'
  BY <1>1 DEF SoupKept, AddedKept
<1>4. OldKept'
  BY <1>1, <1>2, NoRowsOK DEF OldKept
<1>5. QED
  BY <1>3, <1>4 DEF KeptInv

LEMMA RegisterKept ==
  ASSUME TypeInv, KeptInv, RegisterSoupUsingTableName
  PROVE  KeptInv'
<1>1. /\ db.soup = NoTable /\ db.status \in OldCounts /\ alter.moved = NoRows
      /\ DOMAIN db.soup.rows = {} /\ DOMAIN db'.soup.rows = {} /\ db.soup.layout = "none"
  BY RegisterEffect, NotMoving, NoTableOK, NoRowsOK DEF TypeInv, StepInv, OldCounts
<1>2. (Fresh' => Fresh) /\ Loose' = Loose
  BY RegisterEffect, CommittedFresh, NotLoose
<1>3. SoupKept' /\ AddedKept'
  BY <1>1 DEF SoupKept, AddedKept
<1>4. OldKept'
  BY <1>1, <1>2, RegisterEffect DEF KeptInv, OldKept, KeptOf, BlobOf, SameStorage
<1>5. QED
  BY <1>3, <1>4 DEF KeptInv

\* The copy keeps the columns, if each copied row has the element of the old one.
LEMMA CopiesKept ==
  ASSUME TypeInv, KeptInv, NEW moved \in Partial(Cell), Copies(moved), UNCHANGED <<blobs, app, torn>>,
         alter.pc \in {"begun", "blobs"},
         \A i \in DOMAIN db.old.rows \ (DOMAIN db.soup.rows \union torn) :
            db.old.rows[i].kept = KeptOf(Merged(moved), i)
  PROVE  KeptInv'
<1>1. /\ db'.soup = Merged(moved) /\ db'.status = "COPY_TABLE"
      /\ Merged(moved).layout = db.soup.layout
      /\ DOMAIN Merged(moved).rows = DOMAIN db.soup.rows \union DOMAIN db.old.rows
      /\ \A i \in DOMAIN db.soup.rows : Merged(moved).rows[i] = db.soup.rows[i]
      /\ \A i \in DOMAIN db.old.rows \ DOMAIN db.soup.rows :
            Merged(moved).rows[i].kept = db.old.rows[i].kept
  BY CopiesEffect, MergedOK DEF TypeInv
<1>0. Loose = torn /\ Loose' = torn
  BY NotLoose
<1>2. ASSUME NEW i \in DOMAIN Merged(moved).rows \ torn
      PROVE  Merged(moved).rows[i].kept = KeptOf(Merged(moved), i)
  <2>1. CASE i \in DOMAIN db.soup.rows
    BY <1>0, <1>1, <1>2, <2>1 DEF KeptInv, SoupKept, KeptOf
  <2>2. CASE i \in DOMAIN db.old.rows \ DOMAIN db.soup.rows
    BY <1>1, <1>2, <2>2
  <2>3. QED
    BY <1>1, <1>2, <2>1, <2>2
<1>3. SoupKept'
  BY <1>0, <1>1, <1>2 DEF SoupKept, KeptOf, BlobOf
<1>4. OldKept' /\ AddedKept'
  BY <1>1 DEF OldKept, AddedKept, OldCounts
<1>5. QED
  BY <1>3, <1>4 DEF KeptInv

LEMMA CopyTableKept ==
  ASSUME TypeInv, LayoutInv, KeptInv, CopyTable
  PROVE  KeptInv'
<1>1. /\ UNCHANGED <<blobs, blobDir, cache, details, app, torn>>
      /\ alter.pc = "begun" /\ db.status = "REGISTER_SOUP_USING_TABLE_NAME"
      /\ alter.moved = NoRows /\ Loose = torn /\ Loose' = torn /\ torn' = torn
  BY CopyTableCases, NotMoving, NotLoose
<1>2. CASE alter' = NotAltering("idle") /\ db' = db
  <2>1. alter'.moved = NoRows /\ alter'.pc = "idle"
    BY <1>2, NotAlteringEffect DEF AlterPc
  <2>2. QED
    BY <1>1, <1>2, <2>1, StoppedFresh, KeptFrame
<1>3. CASE /\ db' = db
           /\ alter' = [alter EXCEPT !.pc = "blobs", !.todo = DOMAIN db.old.rows]
  <2>1. alter'.moved = alter.moved /\ alter'.resumed = alter.resumed
    BY <1>3, AlterFields DEF TypeInv
  <2>2. Fresh' => Fresh
    BY <1>1, <2>1 DEF Fresh, Running
  <2>3. QED
    BY <1>1, <1>3, <2>1, <2>2, KeptFrame
<1>4. CASE ~Conflict /\ ~MovesBlobs /\ Copies(NoRows)
  <2>1. SameStorage \/ DOMAIN db.old.rows = {}
    BY <1>4, NoRowsOK DEF MovesBlobs, NoRows, SameStorage
  <2>2. ASSUME NEW i \in DOMAIN db.old.rows \ (DOMAIN db.soup.rows \union torn)
        PROVE  db.old.rows[i].kept = KeptOf(Merged(NoRows), i)
    <3>1. /\ db.old.layout = details.from /\ db.soup.layout = details.to
          /\ details.from = details.to
      BY <1>1, <2>1 DEF TypeInv, StepInv, OldCounts, LayoutInv, SameStorage
    <3>2. /\ Merged(NoRows).layout = db.soup.layout
          /\ Merged(NoRows).rows[i].body = IF AnyExternal THEN NoValue ELSE db.old.rows[i].body
      BY NoRowsOK, MergedOK DEF TypeInv
    <3>3. db.old.rows[i].kept = KeptOf(db.old, i)
      BY <1>1, <2>1, NoRowsOK DEF KeptInv, OldKept, OldCounts
    <3>4. QED
      BY <3>1, <3>2, <3>3, Kinds DEF KeptOf, AnyExternal, TypeInv, Layout
  <2>3. QED
    BY <1>1, <1>4, <2>2, NoRowsOK, CopiesKept
<1>5. QED
  BY <1>2, <1>3, <1>4, CopyTableCases

LEMMA MoveToRowKept ==
  ASSUME TypeInv, KeptInv, MoveBlobToRow
  PROVE  KeptInv'
<1>1. /\ UNCHANGED <<db, blobDir, cache, details, app, torn>>
      /\ alter.pc = "blobs" /\ details.to = "internal"
      /\ db.status = "REGISTER_SOUP_USING_TABLE_NAME" /\ ~SameStorage
      /\ Loose = torn /\ Loose' = torn
  BY MoveToRowCases, NotLoose DEF TypeInv, AlterInv, SameStorage
<1>2. CASE alter' = NotAltering("idle") /\ blobs' = blobs
  <2>1. ~Fresh'
    BY <1>2, NotAlteringEffect, StoppedFresh DEF AlterPc
  <2>2. SoupKept' /\ AddedKept'
    BY <1>1, <1>2 DEF KeptInv, SoupKept, AddedKept, KeptOf, BlobOf
  <2>3. OldKept'
    BY <1>1, <2>1 DEF OldKept, SameStorage
  <2>4. QED
    BY <2>2, <2>3 DEF KeptInv
<1>3. ASSUME db.soup.layout = "internal", NEW i \in alter.todo, i \in Ids,
             alter'.moved = With(alter.moved, i, BlobOf(i)),
             blobs' = Restrict(blobs, DOMAIN blobs \ {i})
      PROVE  KeptInv'
  <2>1. /\ db.old.layout = "external" /\ i \in DOMAIN db.old.rows
        /\ DOMAIN alter.moved = DOMAIN db.old.rows \ alter.todo /\ Fresh
    BY <1>1, Kinds DEF TypeInv, AlterInv, StepInv, OldCounts, Layout, Fresh, Running
  <2>2. SoupKept' /\ AddedKept'
    BY <1>1, <1>3 DEF KeptInv, SoupKept, AddedKept, KeptOf
  <2>3. ASSUME NEW j \in DOMAIN db.old.rows \ torn
        PROVE  db.old.rows[j].kept = IF j \in DOMAIN alter'.moved THEN alter'.moved[j]
                                     ELSE KeptOf(db.old, j)'
    <3>1. db.old.rows[j].kept = IF j \in DOMAIN alter.moved THEN alter.moved[j]
                                ELSE KeptOf(db.old, j)
      BY <1>1, <1>3, <2>1 DEF KeptInv, OldKept, OldCounts
    <3>2. CASE j = i
      BY <1>3, <2>1, <3>1, <3>2 DEF KeptOf, With
    <3>3. CASE j # i
      <4>1. BlobOf(j)' = BlobOf(j)
        BY <1>3, <3>3 DEF BlobOf, Restrict
      <4>2. QED
        BY <1>1, <1>3, <3>1, <3>3, <4>1 DEF KeptOf, With
    <3>4. QED
      BY <3>2, <3>3
  <2>4. OldKept'
    BY <1>1, <2>3 DEF OldKept
  <2>5. QED
    BY <2>2, <2>4 DEF KeptInv
<1>4. QED
  BY <1>2, <1>3, MoveToRowCases

LEMMA MoveToBlobKept ==
  ASSUME TypeInv, KeptInv, MoveRowToBlob
  PROVE  KeptInv'
<1>1. /\ UNCHANGED <<db, blobDir, cache, details, app, torn>>
      /\ alter.pc = "blobs" /\ details.to = "external" /\ details.from = "internal"
      /\ alter.moved = NoRows /\ Loose = torn /\ Loose' = torn
  BY MoveToBlobCases, NotMoving, NotLoose
<1>2. PICK i \in alter.todo :
               /\ i \in Ids /\ i \in DOMAIN db.old.rows
               /\ alter'.moved = alter.moved
               /\ \E saved \in BOOLEAN : SaveBlob(i, db.old.rows[i].body, saved)
  BY MoveToBlobCases
<1>3. /\ db.old.layout = "internal"
      /\ DOMAIN db.soup.rows \intersect DOMAIN db.old.rows = {}
      /\ db.status = "REGISTER_SOUP_USING_TABLE_NAME"
  BY <1>1 DEF TypeInv, AlterInv, StepInv, OldCounts
<1>4. \A j \in DOMAIN db.soup.rows : BlobOf(j)' = BlobOf(j)
  <2>1. db.old.rows[i].body \in Values /\ DOMAIN db.soup.rows \subseteq Ids
    BY <1>2, <1>3, DbFields, TableFields DEF TypeInv, RowsInv
  <2>2. QED
    BY <1>2, <1>3, <2>1, SaveEffect
<1>5. SoupKept' /\ AddedKept'
  BY <1>1, <1>3, <1>4 DEF KeptInv, SoupKept, AddedKept, KeptOf
<1>6. OldKept'
  BY <1>1, <1>2, <1>3, NoRowsOK DEF TypeInv, RowsInv, OldKept, KeptOf
<1>7. QED
  BY <1>5, <1>6 DEF KeptInv

LEMMA CommitMoveKept ==
  ASSUME TypeInv, LayoutInv, MovedInv, KeptInv, KeepsThese, CommitMove
  PROVE  KeptInv'
<1>1. /\ UNCHANGED <<blobs, blobDir, cache, details, app, torn>>
      /\ alter.pc = "blobs" /\ alter.todo = {} /\ alter.moved \in Partial(Cell)
      /\ db.status = "REGISTER_SOUP_USING_TABLE_NAME" /\ Copies(alter.moved)
  BY CommitMoveCases
<1>2. details.to = "external" => ~Refills /\ ~MayHappen("unwritable")
  BY <1>1, Kinds, KeepsThis DEF TypeInv, AlterInv, Layout
<1>3. Merged(alter.moved).layout = db.soup.layout /\ Fresh /\ Loose = torn
  BY <1>1, MergedOK, NotLoose DEF TypeInv, AlterInv, Fresh, Running
<1>4. ASSUME NEW i \in DOMAIN db.old.rows \ (DOMAIN db.soup.rows \union torn)
      PROVE  db.old.rows[i].kept = KeptOf(Merged(alter.moved), i)
  <2>1. CASE details.to = "internal"
    <3>1. db.soup.layout = "internal" /\ i \in DOMAIN alter.moved
          /\ Merged(alter.moved).rows[i].body = alter.moved[i]
      BY <1>2, <2>1, MoveEnds
    <3>2. db.old.rows[i].kept = alter.moved[i]
      BY <1>1, <1>3, <1>4, <3>1 DEF KeptInv, OldKept, OldCounts
    <3>3. QED
      BY <1>3, <3>1, <3>2 DEF KeptOf
  <2>2. CASE details.to = "external"
    <3>1. db.soup.layout = "external" /\ db.old.layout = "internal"
          /\ BlobOf(i) = db.old.rows[i].body
      BY <1>2, <2>2, MoveEnds
    <3>2. QED
      BY <1>3, <3>1 DEF KeptOf, TypeInv, RowsInv
  <2>3. QED
    BY <2>1, <2>2, Kinds DEF TypeInv, Layout
<1>5. QED
  BY <1>1, <1>4, CopiesKept

LEMMA ReIndexKept ==
  ASSUME TypeInv, LayoutInv, KeptInv, ReIndexSoup
  PROVE  KeptInv'
<1>1. /\ UNCHANGED <<blobs, blobDir, details, app, torn>>
      /\ alter.pc = "begun" /\ db.status = "COPY_TABLE" /\ db.soup.layout # "none"
      /\ Loose = torn /\ Loose' = torn /\ torn' = torn
  BY ReIndexCases, NotLoose DEF TypeInv, StepInv
<1>2. CASE alter' = NotAltering("idle") /\ db' = db
  <2>1. alter'.pc = "idle"
    BY <1>2, NotAlteringEffect DEF AlterPc
  <2>2. QED
    BY <1>1, <1>2, <2>1, StoppedFresh, KeptFrame DEF OldCounts
<1>3. CASE db'.soup.layout = db.soup.layout /\ db'.soup.rows = ReIndexed
           /\ db'.status = "RE_INDEX_SOUP"
  <2>1. \A i \in DOMAIN db.soup.rows : EltOf(i) = KeptOf(db.soup, i)
    BY <1>1, FeaturesAre, DbFields, TableFields DEF EltOf, KeptOf, TypeInv
  <2>2. SoupKept'
    BY <1>1, <1>3, ReIndexedOK DEF KeptInv, SoupKept, KeptOf, BlobOf
  <2>3. AddedKept'
    BY <1>1, <1>3, <2>1, ReIndexedOK DEF KeptInv, SoupKept, AddedKept
  <2>4. OldKept'
    BY <1>3 DEF OldKept, OldCounts
  <2>5. QED
    BY <2>2, <2>3, <2>4 DEF KeptInv
<1>4. QED
  BY <1>2, <1>3, ReIndexCases

LEMMA DropOldKept ==
  ASSUME TypeInv, KeptInv, DropOldTable
  PROVE  KeptInv'
<1>1. ~Fresh'
  BY DropOldCases, NotAlteringEffect, StoppedFresh DEF AlterPc
<1>2. QED
  BY <1>1, DropOldCases, NotLoose, KeptFrame DEF OldCounts

LEMMA OpenFresh == ASSUME OpenDatabase PROVE ~Fresh'
<1>1. CASE db.status = "none"
  <2>1. alter' = NotAltering("idle")
    BY <1>1 DEF OpenDatabase
  <2>2. QED
    BY <2>1, NotAlteringEffect, StoppedFresh DEF AlterPc
<1>2. CASE db.status # "none"
  <2>1. alter' = [NotAltering("ready") EXCEPT !.resumed = TRUE, !.step = db.status]
    BY <1>2 DEF OpenDatabase
  <2>2. NotAltering("ready") \in Alter
    BY NotAlteringOK DEF AlterPc
  <2>3. alter'.resumed
    BY <2>1, <2>2 DEF Alter
  <2>4. QED
    BY <2>3, StoppedFresh
<1>3. QED
  BY <1>1, <1>2

\* The row of the operation is written before anything is changed.
LEMMA AlterSoupKept ==
  ASSUME TypeInv, KeptInv, AlterSoup
  PROVE  KeptInv'
<1>1. /\ UNCHANGED <<blobs, details>> /\ db'.soup = db.soup /\ db'.status = "STARTING"
      /\ Loose' = Loose
  BY AlterSoupEffect, NotLoose DEF AlterSoup
<1>2. SoupKept'
  BY <1>1 DEF KeptInv, SoupKept, KeptOf, BlobOf
<1>3. OldKept' /\ AddedKept'
  BY <1>1 DEF OldKept, AddedKept, OldCounts
<1>4. QED
  BY <1>2, <1>3 DEF KeptInv

LEMMA DropKept ==
  ASSUME TypeInv, KeptInv, DropOldIndexes
  PROVE  KeptInv'
<1>1. alter.moved = NoRows /\ alter'.moved = NoRows /\ (Fresh' => Fresh)
  BY DropEffect, NotMoving, CommittedFresh
<1>2. QED
  BY <1>1, DropEffect, NotLoose, KeptFrame DEF OldCounts

\* A method that changes a file takes its element out of those that must agree.
LEMMA BodyKept ==
  ASSUME TypeInv, KeptInv, NEW t \in Apps, Body(t)
  PROVE  KeptInv'
<1>1. UNCHANGED <<db, details, alter, torn>> /\ (Fresh' => Fresh)
  BY BodyCases DEF Fresh, Running
<1>2. /\ HalfWritten = {} /\ HalfWritten' = IF Features = "external" THEN InFlight' ELSE {}
      /\ \A j \in Ids \ InFlight' : BlobOf(j)' = BlobOf(j)
      /\ Features # "external" => blobs' = blobs
  BY BodyEffect
<1>3. Loose = torn /\ Loose' = torn \union HalfWritten'
  BY <1>1, <1>2 DEF Loose
<1>4. \A j \in Ids \ Loose' : BlobOf(j)' = BlobOf(j)
  BY <1>2, <1>3 DEF BlobOf
<1>5. DOMAIN db.soup.rows \subseteq Ids /\ DOMAIN db.old.rows \subseteq Ids
  BY DbFields, TableFields DEF TypeInv
<1>6. SoupKept'
  BY <1>1, <1>3, <1>4, <1>5 DEF KeptInv, SoupKept, KeptOf
<1>7. OldKept'
  BY <1>1, <1>3, <1>4, <1>5 DEF KeptInv, OldKept, KeptOf, SameStorage
<1>8. AddedKept'
  BY <1>1 DEF KeptInv, AddedKept
<1>9. QED
  BY <1>6, <1>7, <1>8 DEF KeptInv

\* The end of a call: its row agrees with its element again, or is taken out for good.
LEMMA EndKept ==
  ASSUME TypeInv, LayoutInv, KeptInv, KeepsThese, NEW t \in Apps, EndCall(t)
  PROVE  KeptInv'
<1>1. PICK i \in Ids : i = app[t].id
  BY EndEffect
<1>2. /\ UNCHANGED <<blobs, blobDir, cache, details, alter>> /\ (Fresh' => Fresh)
      /\ InFlight = {i} /\ HalfWritten' = {} /\ Features = cache
      /\ db.specs # "none" /\ db.soup.layout # "none" /\ MayHappen(app[t].op)
  BY <1>1, EndEffect DEF Fresh, Running
<1>3. Loose' = torn' /\ HalfWritten = IF Features = "external" THEN {i} ELSE {}
  BY <1>2 DEF Loose, HalfWritten
<1>4. CASE ~app[t].ok
  <2>1. db' = db /\ torn' = torn \union {i}
    BY <1>1, <1>4, EndEffect
  <2>2. Loose \subseteq Loose' /\ torn \subseteq torn'
    BY <1>3, <2>1 DEF Loose
  <2>3. QED
    BY <1>2, <2>1, <2>2, KeptFrame
<1>5. CASE app[t].ok
  <2>1. PICK rows : rows = RowsAfter(t)
    OBVIOUS
  <2>2. RowsBecome(rows) /\ torn' = torn \ ({i} \ DOMAIN db.old.rows)
    BY <1>1, <1>5, <2>1, EndRows
  <2>3. /\ DOMAIN rows = IF app[t].op = "delete" THEN DOMAIN db.soup.rows \ {i}
                         ELSE DOMAIN db.soup.rows \union {i}
        /\ \A j \in DOMAIN db.soup.rows \ {i} : rows[j] = db.soup.rows[j]
        /\ app[t].op # "delete" => rows[i] = NewRow(app[t].value)
    BY <1>1, <2>1, RowsAfterAre
  <2>4. \A j : j # i /\ j \notin Loose' => j \notin Loose
    BY <1>3, <2>2 DEF Loose
  <2>5. Features = db.soup.layout
    BY <1>2, FeaturesAre
  <2>6. /\ app[t].op # "delete" => app[t].value \in Values
        /\ cache = "external" /\ app[t].op # "delete" => BlobOf(i) = app[t].value
    BY <1>1, <1>5 DEF TypeInv, CallInv, EndCall
  <2>7. app[t].op # "delete" => /\ rows[i].kept = app[t].value
                                /\ Features = "internal" => rows[i].body = app[t].value
                                /\ db.specs = "new" => rows[i].added = app[t].value
    BY <2>3, <2>6, NewRowOK
  <2>8. SoupKept'
    <3>1. ASSUME NEW j \in DOMAIN rows \ Loose'
          PROVE  rows[j].kept = IF db.soup.layout = "internal" THEN rows[j].body ELSE BlobOf(j)
      <4>1. CASE j = i
        BY <1>2, <2>3, <2>5, <2>6, <2>7, <3>1, <4>1, DbFields, TableFields DEF TypeInv
      <4>2. CASE j # i
        BY <2>3, <2>4, <3>1, <4>2 DEF KeptInv, SoupKept, KeptOf
      <4>3. QED
        BY <4>1, <4>2
    <3>2. QED
      BY <1>2, <2>2, <3>1 DEF SoupKept, KeptOf, RowsBecome, BlobOf
  <2>9. OldKept'
    <3>1. SUFFICES ASSUME db.status \in OldCounts,
                          SameStorage \/ (Fresh /\ db.soup.layout # "external"),
                          NEW j \in DOMAIN db.old.rows \ Loose',
                          db.soup.layout = "external" => j \notin DOMAIN rows
                   PROVE  db.old.rows[j].kept = IF j \in DOMAIN alter.moved THEN alter.moved[j]
                                                ELSE KeptOf(db.old, j)
      BY <1>2, <2>2 DEF OldKept, RowsBecome, SameStorage, KeptOf, BlobOf
    <3>2. db.status \in OldCounts => db.specs = "new"
      BY <1>2, NoTableOK DEF TypeInv, StepInv, OldCounts
    <3>3. db.soup.layout = "external" => app[t].op # "delete"
      BY <1>2, <3>1, <3>2, KeepsThis DEF LayoutInv, SameStorage
    <3>4. j \notin Loose
      <4>1. CASE j # i
        BY <2>4, <3>1, <4>1
      <4>2. CASE j = i
        BY <1>3, <2>2, <2>3, <2>5, <3>1, <3>3, <4>2 DEF Loose
      <4>3. QED
        BY <4>1, <4>2
    <3>5. db.soup.layout = "external" => j \notin DOMAIN db.soup.rows
      BY <2>3, <3>1, <3>3
    <3>6. QED
      BY <3>1, <3>4, <3>5 DEF KeptInv, OldKept
  <2>10. AddedKept'
    <3>1. db.status = "RE_INDEX_SOUP" => db.specs = "new"
      BY DEF TypeInv, StepInv
    <3>2. ASSUME db.status = "RE_INDEX_SOUP" \/
                    (db.status = "none" /\ db.specs = "new" /\ details.reIndex),
                 NEW j \in DOMAIN rows \ torn'
          PROVE  rows[j].added = rows[j].kept
      <4>1. CASE j = i
        BY <2>3, <2>7, <3>1, <3>2, <4>1
      <4>2. CASE j # i
        BY <2>2, <2>3, <3>2, <4>2 DEF KeptInv, AddedKept
      <4>3. QED
        BY <4>1, <4>2
    <3>3. QED
      BY <1>2, <2>2, <3>2 DEF AddedKept, RowsBecome
  <2>11. QED
    BY <2>8, <2>9, <2>10 DEF KeptInv
<1>6. QED
  BY <1>4, <1>5

LEMMA CrashKept ==
  ASSUME TypeInv, KeptInv, Crash
  PROVE  KeptInv'
<1>1. UNCHANGED <<db, blobs, details>> /\ alter' = NotAltering("closed")
  BY DEF Crash
<1>0. Loose' = Loose
  <2>1. HalfWritten' = {} /\ torn' = torn \union HalfWritten
    BY CrashType DEF Crash, HalfWritten
  <2>2. QED
    BY <2>1 DEF Loose
<1>2. ~Fresh' /\ alter'.moved = NoRows
  BY <1>1, NotAlteringEffect, StoppedFresh DEF AlterPc
<1>3. SameStorage => alter.moved = NoRows
  BY DEF TypeInv, AlterInv, SameStorage
<1>4. SoupKept' /\ AddedKept'
  BY <1>0, <1>1 DEF KeptInv, SoupKept, AddedKept, KeptOf, BlobOf, Crash
<1>5. OldKept'
  BY <1>0, <1>1, <1>2, <1>3 DEF KeptInv, OldKept, KeptOf, BlobOf, SameStorage
<1>6. QED
  BY <1>4, <1>5 DEF KeptInv

LEMMA AppStepKept ==
  ASSUME TypeInv, LayoutInv, KeptInv, KeepsThese, NEW t \in Apps, AppStep(t)
  PROVE  KeptInv'
BY BodyKept, EndKept DEF AppStep, Body

LEMMA NextKept ==
  ASSUME TypeInv, LayoutInv, MovedInv, KeptInv, KeepsThese, [Next]_vars
  PROVE  KeptInv'
<1>1. CASE OpenDatabase
  <2>1. ~Fresh'
    BY <1>1, OpenFresh
  <2>2. UNCHANGED <<db, cache, app, torn>>
    BY <1>1 DEF OpenDatabase
  <2>3. Loose' = Loose
    BY <2>2 DEF Loose, HalfWritten, Features, InFlight
  <2>4. QED
    BY <1>1, <2>1, <2>2, <2>3, OpenEffect, KeptFrame
<1>2. CASE AlterSoup
  BY <1>2, AlterSoupEffect, AlterSoupKept
<1>3. CASE AlterStep
  <2>1. CASE BeginTransaction
    BY <2>1, BeginEffect, NotLoose, KeptFrame DEF BeginTransaction
  <2>2. CASE DropOldIndexes
    BY <2>2, DropKept
  <2>3. QED
    BY <1>3, <2>1, <2>2, RenameKept, RegisterKept, CopyTableKept, MoveToRowKept,
       MoveToBlobKept, CommitMoveKept, ReIndexKept, DropOldKept DEF AlterStep
<1>4. ASSUME NEW t \in Apps, AppCall(t) PROVE KeptInv'
  <2>1. UNCHANGED <<db, blobs, details, alter, torn>>
    BY <1>4, CallEffect
  <2>2. InFlight' = {} /\ InFlight = {}
    BY <1>4, CallInFlight
  <2>3. Loose' = Loose
    BY <2>1, <2>2 DEF Loose, HalfWritten
  <2>4. QED
    BY <2>1, <2>3, KeptFrame DEF Fresh, Running
<1>5. ASSUME NEW t \in Apps, AppStep(t) PROVE KeptInv'
  BY <1>5, AppStepKept
<1>6. CASE Crash
  BY <1>6, CrashKept
<1>7. CASE UNCHANGED vars
  <2>1. UNCHANGED <<db, blobs, cache, details, alter, app, torn>>
    BY <1>7 DEF vars
  <2>2. Loose' = Loose
    BY <2>1 DEF Loose, HalfWritten, Features, InFlight
  <2>3. QED
    BY <2>1, <2>2, KeptFrame DEF Fresh, Running
<1>8. QED
  BY <1>1, <1>2, <1>3, <1>4, <1>5, <1>6, <1>7 DEF Next

LEMMA InitKept == Init => KeptInv
<1> SUFFICES ASSUME Init PROVE KeptInv
  OBVIOUS
<1>1. PICK a \in DOMAIN Ops, reIndex \in BOOLEAN, present \in SUBSET Ids, seq \in 0 .. MaxId :
         \E elt \in [present -> Values] :
            /\ \A i \in present : i <= seq
            /\ db = [soup |-> [layout |-> a[1], seq |-> seq,
                               rows |-> [i \in present |-> RowOf(elt[i], a[1], "old")]],
                     old |-> NoTable, features |-> a[1], specs |-> "old",
                     status |-> "none"]
            /\ blobs = IF a[1] = "external" THEN elt ELSE [i \in {} |-> NoValue]
            /\ blobDir = (a[1] = "external")
            /\ cache = "none"
            /\ details = [from |-> a[1], to |-> a[2], reIndex |-> reIndex]
            /\ alter = NotAltering("idle")
            /\ app = [t \in Apps |-> IdleApp]
            /\ torn = {}
  BY Zenon DEF Init
<1>2. PICK layout : layout = a[1] /\ layout \in {"internal", "external"}
  BY OpsAssumption DEF Layout
<1>3. PICK elt \in [present -> Values] :
            /\ db = [soup |-> [layout |-> a[1], seq |-> seq,
                               rows |-> [i \in present |-> RowOf(elt[i], a[1], "old")]],
                     old |-> NoTable, features |-> a[1], specs |-> "old",
                     status |-> "none"]
            /\ blobs = IF a[1] = "external" THEN elt ELSE [i \in {} |-> NoValue]
  BY <1>1, Zenon
<1>4. /\ db.soup = [layout |-> layout, seq |-> seq,
                    rows |-> [i \in present |-> RowOf(elt[i], layout, "old")]]
      /\ db.status = "none" /\ db.specs = "old"
      /\ layout # "internal" => blobs = elt
  BY <1>2, <1>3
<1>5. ASSUME NEW i \in present PROVE db.soup.rows[i].kept = KeptOf(db.soup, i)
  <2>1. /\ db.soup.rows[i].kept = elt[i] /\ db.soup.layout = layout
        /\ (layout = "internal" => db.soup.rows[i].body = elt[i])
    BY <1>4 DEF RowOf
  <2>2. layout # "internal" => BlobOf(i) = elt[i]
    BY <1>4 DEF BlobOf
  <2>3. QED
    BY <2>1, <2>2 DEF KeptOf
<1>6. SoupKept
  BY <1>4, <1>5 DEF SoupKept
<1>7. OldKept /\ AddedKept
  BY <1>4 DEF OldKept, AddedKept, OldCounts
<1>8. QED
  BY <1>6, <1>7 DEF KeptInv

LEMMA KeptGivesCurrent ==
  ASSUME TypeInv, KeptInv
  PROVE  IndexesAreCurrent
<1> SUFFICES ASSUME db.status = "none"
             PROVE  /\ db.old = NoTable
                    /\ db.specs = "new" =>
                          /\ db.features = details.to
                          /\ \A i \in DOMAIN db.soup.rows \ (torn \union HalfWritten) :
                                /\ db.soup.rows[i].kept = ValueIn(db.soup, i)
                                /\ details.reIndex =>
                                      db.soup.rows[i].added = ValueIn(db.soup, i)
  BY DEF IndexesAreCurrent
<1>1. db.old = NoTable /\ (db.specs = "new" => db.features = details.to)
  BY DEF TypeInv, StepInv
<1>2. alter.moved = NoRows
  BY DEF TypeInv, AlterInv
<1>3. ASSUME NEW i \in DOMAIN db.soup.rows \ (torn \union HalfWritten)
      PROVE  db.soup.rows[i].kept = ValueIn(db.soup, i)
  BY <1>2, <1>3, NoRowsOK DEF KeptInv, SoupKept, KeptOf, ValueIn, Loose
<1>4. QED
  BY <1>1, <1>3 DEF KeptInv, AddedKept

\* A completed alteration leaves one table, with the features asked for, and each
\* index column, that of the path indexed all along and that of the path added, holds
\* its element as it is now: whatever calls other threads made between the steps and
\* wherever the process died.  What is excluded is what KeepsIndexes names; an element
\* whose file a call has changed and not its row is excepted.
THEOREM IndexesCorrect ==
  ASSUME \A a \in DOMAIN Ops : KeepsIndexes(a, Ops[a])
  PROVE  Spec => []IndexesAreCurrent
<1> DEFINE Inv == TypeInv /\ LayoutInv /\ MovedInv /\ KeptInv
<1>1. Init => Inv
  BY InitType, InitStorage, InitKept
<1>2. TypeInv => KeepsThese
  BY DEF TypeInv, AlterInv, Known, Alteration, KeepsThese
<1>3. Inv /\ [Next]_vars => Inv'
  BY <1>2, KeepsThis, NextType, NextStorage, NextKept
<1>4. Inv => IndexesAreCurrent
  BY KeptGivesCurrent
<1> HIDE DEF Inv
<1>5. QED
  BY <1>1, <1>3, <1>4, PTL DEF Spec
=============================================================================
