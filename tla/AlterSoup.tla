------------------------------- MODULE AlterSoup -------------------------------
(***************************************************************************)
(* The long operation alterSoup of SmartStore: AlterSoupLongOperation.java *)
(* and the calls of SmartStore.java and DBOpenHelper.java it makes or      *)
(* meets.  The operation changes the index specs of a soup, and may move   *)
(* its elements from the database to encrypted files or back, in six       *)
(* steps, each a transaction that also writes the step to the row of       *)
(* long_operations_status.  When the database is opened again the          *)
(* operation goes on after the last step that committed.                   *)
(*                                                                         *)
(* Two locks matter.  Every method of SmartStore is synchronized on the    *)
(* database object (the monitor); beginTransaction() takes the lock of the *)
(* connection until endTransaction().  A method of SmartStore takes them   *)
(* in this order; a step of the operation takes the lock of the connection *)
(* first, and no lock is held between two steps.                           *)
(***************************************************************************)
EXTENDS Naturals, FiniteSets, Functions

CONSTANTS
    Apps,       \* threads that use the soup while it is altered
    Values,     \* contents of a soup element, and of the paths indexed in it
    NoValue,    \* an SQL NULL, or a file that is not there
    MaxId,      \* bound: soup entry ids
    Ops         \* for each alteration asked for, <<storage before, storage after>>,
                \* what may happen during it

\* "unwritable": the content of a file cannot be encrypted or written.
AllOps == {"create", "update", "delete", "retrieve", "unwritable", "crash"}
Layout == {"internal", "external"}

ASSUME MaxIdAssumption   == MaxId \in Nat
ASSUME OpsAssumption     == /\ DOMAIN Ops \subseteq Layout \X Layout
                            /\ \A a \in DOMAIN Ops : Ops[a] \subseteq AllOps
ASSUME NoValueAssumption == NoValue \notin Values

Ids == 1 .. MaxId

\* AlterSoupStep: the last step completed; "none" is the absence of a row in
\* long_operations_status.
Step == {"STARTING", "RENAME_OLD_SOUP_TABLE", "DROP_OLD_INDEXES",
         "REGISTER_SOUP_USING_TABLE_NAME", "COPY_TABLE", "RE_INDEX_SOUP"}

\* A row: the soup column, the column of a path that is indexed before and
\* after the alteration, and that of a path the alteration adds.
Cell  == Values \union {NoValue}
Row   == [body : Cell, kept : Cell, added : Cell]
Rows  == UNION {[S -> Row] : S \in SUBSET Ids}
Table == [layout : Layout \union {"none"}, seq : 0 .. MaxId, rows : Rows]

EmptyTable(layout) == [layout |-> layout, seq |-> 0, rows |-> [i \in {} |-> NoValue]]
NoTable == EmptyTable("none")

\* What the threads are at.  todo, moved: the ids the loop over the elements
\* has still to move, and the elements it has read from their files.
AlterPc == {"closed", "idle", "ready", "begun", "blobs"}
Alter   == [pc : AlterPc, resumed : BOOLEAN, step : Step, todo : SUBSET Ids,
            moved : UNION {[S -> Cell] : S \in SUBSET Ids}]
App     == [pc : {"idle", "entered", "written"}, op : {"create", "update", "delete"},
            id : Ids \union {0}, value : Cell, ok : BOOLEAN]
NotAltering(pc) == [pc |-> pc, resumed |-> FALSE, step |-> "STARTING", todo |-> {},
                    moved |-> [i \in {} |-> NoValue]]
IdleApp == [pc |-> "idle", op |-> "create", id |-> 0, value |-> NoValue, ok |-> FALSE]

VARIABLES
    db,         \* the committed database
    blobs,      \* the files of the soup, by soup entry id
    blobDir,    \* whether their directory exists
    cache,      \* DBHelper.soupNameToFeaturesMap, or "none"
    details,    \* the alteration: storage before and after, reIndexData
    alter,      \* the thread that runs the operation
    app,        \* the other threads
    torn        \* history: the ids whose file a call has changed, and not their row

vars == <<db, blobs, blobDir, cache, details, alter, app, torn>>

\* soup, old: the table of the soup and the renamed one; features: soup_attrs;
\* specs: what soup_index_map holds for the soup; status: the operation's row.
Database == [soup : Table, old : Table, features : Layout,
             specs : {"old", "none", "new"}, status : Step \union {"none"}]
----------------------------------------------------------------------------
TypeOK ==
    /\ db \in Database
    /\ blobs \in UNION {[S -> Values] : S \in SUBSET Ids}
    /\ blobDir \in BOOLEAN
    /\ cache \in Layout \union {"none"}
    /\ details \in [from : Layout, to : Layout, reIndex : BOOLEAN]
    /\ alter \in Alter
    /\ app \in [Apps -> App]
    /\ torn \subseteq Ids

\* The columns of a row whose element is v.
RowOf(v, layout, specs) ==
    [body  |-> IF layout = "internal" THEN v ELSE NoValue,
     kept  |-> v,
     added |-> IF specs = "new" THEN v ELSE NoValue]

With(f, i, v) == [j \in DOMAIN f \union {i} |-> IF j = i THEN v ELSE f[j]]
BlobOf(i)     == IF i \in DOMAIN blobs THEN blobs[i] ELSE NoValue

\* An open store with a soup of any elements whose ids were handed out in order.
Init ==
    \E a \in DOMAIN Ops, reIndex \in BOOLEAN, present \in SUBSET Ids, seq \in 0 .. MaxId :
        \E elt \in [present -> Values] :
            /\ \A i \in present : i <= seq
            /\ db = [soup |-> [layout |-> a[1], seq |-> seq,
                               rows |-> [i \in present |-> RowOf(elt[i], a[1], "old")]],
                     old |-> NoTable, features |-> a[1], specs |-> "old",
                     status |-> "none"]
            /\ blobs = IF a[1] = "external" THEN elt ELSE [i \in {} |-> NoValue]
            /\ blobDir = (a[1] = "external")
            /\ cache = "none"
            /\ details = [from |-> a[1], to |-> a[2], reIndex |-> reIndex]
            /\ alter = NotAltering("idle")
            /\ app = [t \in Apps |-> IdleApp]
            /\ torn = {}
----------------------------------------------------------------------------
(* Locks and caches.                                                       *)

Resuming == alter.resumed

MayHappen(op) == op \in Ops[<<details.from, details.to>>]

\* The connection is free: nobody is between beginTransaction and
\* endTransaction.
ConnectionFree ==
    alter.pc \notin {"begun", "blobs"} /\ \A t \in Apps : app[t].pc # "written"

\* synchronized(db): a thread of Apps is in a method of SmartStore;
\* resumeLongOperations() keeps the monitor for all its steps.
AppInside    == \E t \in Apps : app[t].pc # "idle"
MonitorFree  == ~AppInside /\ ~Resuming
AlterMayEnter == Resuming \/ ~AppInside

\* DBHelper.getFeatures(): the cached features, or those of soup_attrs.
Features == IF cache = "none" THEN db.features ELSE cache

\* saveSoupBlobFromString(): false without the directory; opening the file empties
\* it, and it stays empty when its content cannot be encrypted or written.
SaveBlob(i, v, saved) ==
    /\ IF saved THEN blobDir ELSE ~blobDir \/ MayHappen("unwritable")
    /\ blobs' = IF saved THEN With(blobs, i, v) ELSE Restrict(blobs, DOMAIN blobs \ {i})
----------------------------------------------------------------------------
(* The operation.                                                          *)

\* onOpen(): the operation of a status row goes on, on a SmartStore that has
\* no DBOpenHelper and no encryption key.
OpenDatabase ==
    /\ alter.pc = "closed"
    /\ alter' = IF db.status = "none"
                THEN NotAltering("idle")
                ELSE [NotAltering("ready") EXCEPT !.resumed = TRUE, !.step = db.status]
    /\ UNCHANGED <<db, blobs, blobDir, cache, details, app, torn>>

\* alterSoup(): the constructor creates the status row (one per behaviour).
AlterSoup ==
    /\ alter.pc = "idle"
    /\ db.status = "none"
    /\ db.specs = "old"
    /\ ConnectionFree
    /\ db' = [db EXCEPT !.status = "STARTING"]
    /\ cache' = Features
    /\ alter' = NotAltering("ready")
    /\ UNCHANGED <<blobs, blobDir, details, app, torn>>

BeginTransaction ==
    /\ alter.pc = "ready"
    /\ ConnectionFree
    /\ alter' = [alter EXCEPT !.pc = "begun"]
    /\ UNCHANGED <<db, blobs, blobDir, cache, details, app, torn>>

InStep(steps) == alter.pc = "begun" /\ alter.step \in steps

\* updateLongOperationDbRow(), setTransactionSuccessful(), endTransaction().
Commit(step, d) ==
    /\ db' = [d EXCEPT !.status = step]
    /\ alter' = [NotAltering("ready") EXCEPT !.resumed = alter.resumed, !.step = step]

\* An exception leaves the step: the transaction is rolled back, the caller of
\* alterSoup() gets it, resumeLongOperations() logs it.
Rollback ==
    /\ alter' = NotAltering("idle")
    /\ UNCHANGED db

RenameOldSoupTable ==
    /\ InStep({"STARTING"})
    /\ Commit("RENAME_OLD_SOUP_TABLE", [db EXCEPT !.soup = NoTable, !.old = db.soup])
    /\ UNCHANGED <<blobs, blobDir, cache, details, app, torn>>

\* Also empties soup_index_map and the cache of the soup.
DropOldIndexes ==
    /\ InStep({"RENAME_OLD_SOUP_TABLE"})
    /\ Commit("DROP_OLD_INDEXES", [db EXCEPT !.specs = "none"])
    /\ cache' = "none"
    /\ UNCHANGED <<blobs, blobDir, details, app, torn>>

\* soup_attrs, then the table: its columns follow the cached features.
RegisterSoupUsingTableName ==
    LET d == [db EXCEPT !.features = details.to, !.specs = "new"]
        layout == IF cache = "none" THEN d.features ELSE cache IN
    /\ InStep({"DROP_OLD_INDEXES"})
    /\ AlterMayEnter
    /\ Commit("REGISTER_SOUP_USING_TABLE_NAME", [d EXCEPT !.soup = EmptyTable(layout)])
    /\ cache' = layout
    /\ blobDir' = (blobDir \/ (layout = "external" /\ ~Resuming))
    /\ UNCHANGED <<blobs, details, app, torn>>
----------------------------------------------------------------------------
(* copyTable().                                                            *)

\* INSERT INTO the new table SELECT from the old one: the primary keys must be
\* new, and the soup column is copied when no file is involved.
Conflict == DOMAIN db.soup.rows \intersect DOMAIN db.old.rows # {}

AnyExternal == "external" \in {details.from, details.to}

BugCopied(r) == [r EXCEPT !.body = NoValue, !.added = NoValue]
Copied(r) == [r EXCEPT !.body = IF AnyExternal THEN NoValue ELSE @, !.added = NoValue]

\* The new table, where moved holds what the loop has read from the files.
Merged(moved) ==
    [layout |-> db.soup.layout,
     seq    |-> IF db.old.rows = NoTable.rows THEN db.soup.seq
                ELSE CHOOSE n \in DOMAIN db.old.rows \union {db.soup.seq} :
                        \A m \in DOMAIN db.old.rows \union {db.soup.seq} : m <= n,
     rows   |-> [i \in DOMAIN db.soup.rows \union DOMAIN db.old.rows |->
                    IF i \in DOMAIN db.soup.rows THEN db.soup.rows[i]
                    ELSE IF i \in DOMAIN moved
                         THEN [Copied(db.old.rows[i]) EXCEPT !.body = moved[i]]
                         ELSE Copied(db.old.rows[i])]]

MovesBlobs == details.from # details.to /\ db.old.rows # NoTable.rows

\* Without a DBOpenHelper the first access to a file is a NullPointerException.
CopyTable ==
    /\ InStep({"REGISTER_SOUP_USING_TABLE_NAME"})
    /\ AlterMayEnter
    /\ IF Conflict \/ (MovesBlobs /\ Resuming)
       THEN Rollback
       ELSE IF MovesBlobs
       THEN /\ alter' = [alter EXCEPT !.pc = "blobs", !.todo = DOMAIN db.old.rows]
            /\ UNCHANGED db
       ELSE Commit("COPY_TABLE", [db EXCEPT !.soup = Merged(NoTable.rows)])
    /\ UNCHANGED <<blobs, blobDir, cache, details, app, torn>>

\* External to internal: the element is read, put in its row, and its file is
\* removed; the row is not committed yet.  A table without a soup column
\* refuses the update.
MoveBlobToRow ==
    /\ alter.pc = "blobs"
    /\ details.to = "internal"
    /\ \E i \in alter.todo :
          IF db.soup.layout = "internal"
          THEN /\ alter' = [alter EXCEPT !.todo = @ \ {i}, !.moved = With(@, i, BlobOf(i))]
               /\ blobs' = Restrict(blobs, DOMAIN blobs \ {i})
               /\ UNCHANGED db
          ELSE Rollback /\ UNCHANGED blobs
    /\ UNCHANGED <<blobDir, cache, details, app, torn>>

\* Internal to external: whether the file was saved is not looked at.
MoveRowToBlob ==
    /\ alter.pc = "blobs"
    /\ details.to = "external"
    /\ \E i \in alter.todo, saved \in BOOLEAN :
          /\ alter' = [alter EXCEPT !.todo = @ \ {i}]
          /\ SaveBlob(i, db.old.rows[i].body, saved)
    /\ UNCHANGED <<db, blobDir, cache, details, app, torn>>

CommitMove ==
    /\ alter.pc = "blobs"
    /\ alter.todo = {}
    /\ Commit("COPY_TABLE", [db EXCEPT !.soup = Merged(alter.moved)])
    /\ UNCHANGED <<blobs, blobDir, cache, details, app, torn>>
----------------------------------------------------------------------------
\* store.reIndexSoup() reads each element and updates the columns of the paths
\* that were not indexed before; resumed, it cannot read an external element.
EltOf(i) == IF Features = "external" THEN BlobOf(i) ELSE db.soup.rows[i].body

BugReIndexed == db.soup.rows
ReIndexed == [i \in DOMAIN db.soup.rows |-> [db.soup.rows[i] EXCEPT !.added = EltOf(i)]]

ReIndexSoup ==
    /\ InStep({"COPY_TABLE"})
    /\ details.reIndex
    /\ AlterMayEnter
    /\ IF Features = "external" /\ Resuming /\ db.soup.rows # NoTable.rows
       THEN Rollback
       ELSE Commit("RE_INDEX_SOUP", [db EXCEPT !.soup.rows = ReIndexed])
    /\ cache' = Features
    /\ UNCHANGED <<blobs, blobDir, details, app, torn>>

\* Drops the old table and the status row.
BugDropOldTable ==
    /\ InStep(IF details.reIndex THEN {"RE_INDEX_SOUP"} ELSE {"COPY_TABLE"})
    /\ db' = [db EXCEPT !.old = NoTable]
    /\ alter' = NotAltering("idle")
    /\ UNCHANGED <<blobs, blobDir, cache, details, app, torn>>
DropOldTable ==
    /\ InStep(IF details.reIndex THEN {"RE_INDEX_SOUP"} ELSE {"COPY_TABLE"})
    /\ db' = [db EXCEPT !.old = NoTable, !.status = "none"]
    /\ alter' = NotAltering("idle")
    /\ UNCHANGED <<blobs, blobDir, cache, details, app, torn>>

----------------------------------------------------------------------------
(* The soup as other threads use it: create(), update(), delete() and      *)
(* retrieve().                                                             *)

InUse == alter.pc # "closed" /\ ~Resuming

\* A method takes the monitor; create() reads the index specs before its
\* transaction, and throws when soup_index_map has none.
Enter(t, op, i, v) ==
    /\ MayHappen(op)
    /\ app[t].pc = "idle"
    /\ InUse
    /\ MonitorFree
    /\ op = "create" => db.specs # "none"
    /\ app' = [app EXCEPT ![t] = [pc |-> "entered", op |-> op, id |-> i, value |-> v,
                                  ok |-> FALSE]]
    /\ UNCHANGED <<db, blobs, blobDir, cache, details, alter, torn>>

\* It then waits for the connection.
InCall(t, op) == app[t].pc = "entered" /\ app[t].op = op /\ ConnectionFree

\* A method that throws, or returns null before it touches a file, changes nothing.
CallFails(t) ==
    /\ app' = [app EXCEPT ![t] = IdleApp]
    /\ UNCHANGED blobs

\* The row of an element written with the specs and features of now.
NewRow(v) == RowOf(v, Features, db.specs)

\* A column that the table does not have is an SQL error.
RowFits == IF Features = "external" THEN db.soup.layout # "none"
                                    ELSE db.soup.layout = "internal"

\* The row is written, in a transaction, and then the file of an element that is
\* stored in one.
WriteElt(t, i) ==
    \E saved \in BOOLEAN :
        /\ app' = [app EXCEPT ![t].pc = "written", ![t].id = i, ![t].ok = saved]
        /\ IF Features = "external"
           THEN SaveBlob(i, app[t].value, saved)
           ELSE saved /\ UNCHANGED blobs

\* getNextId(): that of sqlite_sequence plus one.
BugNextId == db.soup.seq
NextId    == db.soup.seq + 1

\* The features are looked up before the insert, which fails without a table.
CreateElt(t) ==
    /\ InCall(t, "create")
    /\ IF RowFits
       THEN /\ db.soup.seq < MaxId
            /\ WriteElt(t, NextId)
       ELSE CallFails(t)
    /\ cache' = Features
    /\ UNCHANGED <<db, blobDir, details, alter, torn>>

UpdateElt(t) ==
    /\ InCall(t, "update")
    /\ IF db.specs # "none" /\ RowFits /\ app[t].id \in DOMAIN db.soup.rows
       THEN WriteElt(t, app[t].id)
       ELSE CallFails(t)
    /\ cache' = IF db.specs = "none" THEN cache ELSE Features
    /\ UNCHANGED <<db, blobDir, details, alter, torn>>

\* delete() of an id that has no row is not an error.
DeleteElt(t) ==
    /\ InCall(t, "delete")
    /\ IF db.specs # "none" /\ db.soup.layout # "none"
       THEN /\ app' = [app EXCEPT ![t].pc = "written", ![t].ok = TRUE]
            /\ blobs' = IF Features = "external" THEN Restrict(blobs, DOMAIN blobs \ {app[t].id})
                        ELSE blobs
            /\ cache' = Features
       ELSE CallFails(t) /\ UNCHANGED cache
    /\ UNCHANGED <<db, blobDir, details, alter, torn>>

\* endTransaction(): the row is committed, or rolled back when the file could not be
\* saved.  A call that completes mends its element, unless the renamed table has
\* another of that id.
EndCall(t) ==
    LET i == app[t].id IN
    /\ app[t].pc = "written"
    /\ app' = [app EXCEPT ![t] = IdleApp]
    /\ IF app[t].ok
       THEN /\ db' = [db EXCEPT
                  !.soup.rows = IF app[t].op = "delete" THEN Restrict(@, DOMAIN @ \ {i})
                                ELSE With(@, i, NewRow(app[t].value)),
                  !.soup.seq = IF app[t].op = "create" THEN i ELSE @]
            /\ torn' = torn \ ({i} \ DOMAIN db.old.rows)
       ELSE torn' = torn \union {i} /\ UNCHANGED db
    /\ UNCHANGED <<blobs, blobDir, cache, details, alter>>

\* retrieve() looks up the features before it reads.
Retrieve ==
    /\ MayHappen("retrieve")
    /\ InUse
    /\ MonitorFree
    /\ cache' = Features
    /\ UNCHANGED <<db, blobs, blobDir, details, alter, app, torn>>

InFlight    == {app[t].id : t \in {u \in Apps : app[u].pc = "written"}}
HalfWritten == IF Features = "external" THEN InFlight ELSE {}

\* The process dies: the open transaction is gone, the files are not.
Crash ==
    /\ MayHappen("crash")
    /\ alter.pc # "closed"
    /\ alter' = NotAltering("closed")
    /\ app' = [t \in Apps |-> IdleApp]
    /\ torn' = torn \union HalfWritten
    /\ cache' = "none"
    /\ UNCHANGED <<db, blobs, blobDir, details>>
----------------------------------------------------------------------------
AlterStep ==
    \/ BeginTransaction
    \/ RenameOldSoupTable \/ DropOldIndexes \/ RegisterSoupUsingTableName
    \/ CopyTable \/ MoveBlobToRow \/ MoveRowToBlob \/ CommitMove
    \/ ReIndexSoup \/ DropOldTable

AppStep(t) == CreateElt(t) \/ UpdateElt(t) \/ DeleteElt(t) \/ EndCall(t)

AppCall(t) ==
    \/ \E v \in Values : Enter(t, "create", 0, v)
    \/ \E i \in Ids, v \in Values : Enter(t, "update", i, v)
    \/ \E i \in Ids : Enter(t, "delete", i, NoValue)
    \/ Retrieve

Next ==
    \/ OpenDatabase \/ AlterSoup \/ AlterStep
    \/ \E t \in Apps : AppCall(t) \/ AppStep(t)
    \/ Crash

Spec == Init /\ [][Next]_vars

\* A thread that runs the operation, or is in a method, goes on when it can.
FairSpec == Spec /\ WF_vars(AlterStep) /\ \A t \in Apps : WF_vars(AppStep(t))
----------------------------------------------------------------------------
(* Properties.                                                             *)

\* The element of id i of a table, in its row, its file, or on its way.
ValueIn(table, i) ==
    IF i \in DOMAIN alter.moved THEN alter.moved[i]
    ELSE IF table.layout = "internal" THEN table.rows[i].body ELSE BlobOf(i)

Elements(table) == {<<i, ValueIn(table, i)>> : i \in DOMAIN table.rows}

\* The elements of the soup: until COPY_TABLE has committed those of the old
\* table count, and those written to the new one meanwhile.
Content ==
    Elements(db.soup) \union
    IF db.status \in {"RENAME_OLD_SOUP_TABLE", "DROP_OLD_INDEXES",
                      "REGISTER_SOUP_USING_TABLE_NAME"}
    THEN Elements(db.old) ELSE {}

\* No step of the operation, no crash in the middle of one and no resumption
\* loses, duplicates or changes an element.  A call changes its own element only,
\* between the change of the file and the end of the transaction, and so does a
\* crash that ends one there.
Holds(i) == {e \in Content : e[1] = i}

ContentChangesOnlyByCalls ==
    [][\A i \in Ids : i \notin InFlight /\ i \notin InFlight' => Holds(i)' = Holds(i)]_vars

\* A completed alteration leaves one table, with the storage and the index
\* columns that were asked for.  Only the element of a call that has changed a file
\* and not its row, for now or for ever, may differ from its columns.
IndexesAreCurrent ==
    db.status = "none" =>
        /\ db.old = NoTable
        /\ db.specs = "new" =>
              /\ db.features = details.to
              /\ \A i \in DOMAIN db.soup.rows \ (torn \union HalfWritten) :
                    /\ db.soup.rows[i].kept = ValueIn(db.soup, i)
                    /\ details.reIndex => db.soup.rows[i].added = ValueIn(db.soup, i)

\* "Finish long operations that were interrupted": an operation that runs, for
\* the first time or resumed, completes unless the process dies.  Calls that
\* write meanwhile may keep it from that (a lock taken in the other order, rows
\* the copy conflicts with), and so may files, when it is resumed.
OperationCompletes ==
    [](\A t \in Apps : app[t].pc = "idle") =>
        (alter.pc \in {"ready", "begun", "blobs"} /\ ~(Resuming /\ AnyExternal)
            ~> db.status = "none" \/ alter.pc = "closed")
=============================================================================
