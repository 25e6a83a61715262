------------------------------- MODULE Records --------------------------------
(***************************************************************************)
(* What a sync up and a sync down share: the records of a soup, the        *)
(* records of the server, and those who change them while a sync runs: the *)
(* application, which edits the soup, and other clients of the server.     *)
(*                                                                         *)
(* The content of a record is the number of the edit that produced it, and *)
(* the number of the edit that created a record is its key, so every value *)
(* can be traced to its author.  The server is external: it is what the    *)
(* targets in src expect of the REST API.                                  *)
(***************************************************************************)
EXTENDS Naturals, FiniteSets, Functions

CONSTANTS
    MaxEntries,     \* bound: soup entry ids
    MaxRecords,     \* bound: record ids of the server
    MaxEdits,       \* bound: edits of the application and of other clients
    MaxClock,       \* bound: modification dates of the server
    Confs           \* the configurations, of which a behaviour has one

\* "ties": other changes of the server may come in the same second.
AllOps == {"app_create", "app_update", "app_delete", "app_purge",
           "other_create", "other_update", "other_delete", "ties"}

ASSUME BoundsAssumption ==
    MaxEntries \in Nat /\ MaxRecords \in Nat /\ MaxEdits \in Nat /\ MaxClock \in Nat \ {0}

\* initial: the records the server, and maybe the soup, has at the start; ops:
\* what the application and other clients may do; entries, edits, clock: what is
\* left of the bounds in this configuration.
ASSUME ConfsAssumption ==
    \A c \in Confs :
        /\ c.initial \in 0 .. MaxEntries
        /\ c.initial <= MaxRecords /\ c.initial <= c.edits
        /\ c.ops \subseteq AllOps
        /\ c.entries \in 0 .. MaxEntries
        /\ c.edits \in 0 .. MaxEdits
        /\ c.clock \in 1 .. MaxClock

Entries == 1 .. MaxEntries
Ids     == 1 .. MaxRecords
Edits   == 1 .. MaxEdits
Dates   == 1 .. MaxClock

\* Id: "local_" and a time, until the server has given one.  LastModifiedDate:
\* missing in a record the server has not sent.
LocalId == 0
NoDate  == 0

\* __locally_created__, __locally_updated__, __locally_deleted__; __local__ is
\* set with any of them.
Flag == {"created", "updated", "deleted"}

Row    == [id : Ids \union {LocalId}, edit : Edits, mod : Dates \union {NoDate},
           key : Edits, flags : SUBSET Flag]
Record == [live : BOOLEAN, edit : Edits, mod : Dates, key : Edits]

VARIABLES
    conf,       \* the configuration, which no step changes
    soup,       \* the elements of the soup, by soup entry id
    nextEntry,  \* the id create() will give
    server,     \* the records of the server, by id
    clock,      \* its latest modification date
    edits,      \* the number of edits so far
    \* What has happened, for the properties:
    latest,     \* the last edit of the application on each element
    settled,    \* the edits of the application that the server has accepted
    exposed     \* those made while a task held a copy of the element

recordVars == <<soup, nextEntry, server, clock, edits, latest, settled, exposed>>

Ops            == conf.ops
InitialRecords == conf.initial

RecordsTypeOK ==
    /\ conf \in Confs
    /\ DOMAIN soup \subseteq Entries /\ \A s \in DOMAIN soup : soup[s] \in Row
    /\ nextEntry \in 1 .. MaxEntries + 1
    /\ DOMAIN server \subseteq Ids /\ \A i \in DOMAIN server : server[i] \in Record
    /\ clock \in Dates
    /\ edits \in 0 .. MaxEdits
    /\ latest \in [Entries -> Edits \union {0}]
    /\ settled \subseteq Edits
    /\ exposed \subseteq Edits
----------------------------------------------------------------------------
With(f, x, v)  == [y \in DOMAIN f \union {x} |-> IF y = x THEN v ELSE f[y]]
Without(f, xs) == [y \in DOMAIN f \ xs |-> f[y]]
Merge(f, g)    == [y \in DOMAIN f \union DOMAIN g |-> IF y \in DOMAIN f THEN f[y] ELSE g[y]]

Live            == {i \in DOMAIN server : server[i].live}
IsDirty(row)    == row.flags # {}
BugDirtyEntries == {s \in DOMAIN soup : IsDirty(soup[s]) /\ "deleted" \notin soup[s].flags}
DirtyEntries    == {s \in DOMAIN soup : IsDirty(soup[s])}
EntriesOf(id)   == {s \in DOMAIN soup : soup[s].id = id}

\* cleanAndSaveInSmartStore() of a record that came from the server.
Downloaded(id, r) == [id |-> id, edit |-> r.edit, mod |-> r.mod, key |-> r.key, flags |-> {}]

\* The server starts with records of any dates, the soup with none of them or
\* with all, as its last sync down left them.
RecordsInit ==
    \E n \in 0 .. InitialRecords, mod \in [1 .. InitialRecords -> Dates], synced \in BOOLEAN :
        /\ server = [i \in 1 .. n |-> [live |-> TRUE, edit |-> i, mod |-> mod[i], key |-> i]]
        /\ \A i \in n + 1 .. InitialRecords : mod[i] = 1
        /\ \A i \in 1 .. n : mod[i] <= 2
        /\ clock = IF \E i \in 1 .. n : mod[i] = 2 THEN 2 ELSE 1
        /\ soup = IF synced THEN [i \in 1 .. n |-> Downloaded(i, server[i])]
                  ELSE [i \in {} |-> 0]
        /\ nextEntry = Cardinality(DOMAIN soup) + 1
        /\ edits = n
        /\ latest = [s \in Entries |-> 0]
        /\ settled = {}
        /\ exposed = {}
----------------------------------------------------------------------------
(* The application (external).  It writes through SmartStore and adds a    *)
(* flag to those the element has, as SObjectDataManager.m of the sample    *)
(* MobileSyncExplorer does; held: the entries a task has a copy of.        *)

NewEdit(op) == op \in Ops /\ edits < conf.edits /\ edits' = edits + 1

AppWrites(s, row, held) ==
    /\ soup' = With(soup, s, [row EXCEPT !.edit = edits'])
    /\ latest' = [latest EXCEPT ![s] = edits']
    /\ exposed' = IF s \in held THEN exposed \union {edits'} ELSE exposed
    /\ UNCHANGED <<server, clock, settled>>

AppCreate ==
    /\ NewEdit("app_create")
    /\ nextEntry <= conf.entries
    /\ AppWrites(nextEntry, [id |-> LocalId, edit |-> edits', mod |-> NoDate, key |-> edits',
                             flags |-> {"created"}], {})
    /\ nextEntry' = nextEntry + 1

AppFlags(flag, op, held) ==
    /\ NewEdit(op)
    /\ \E s \in DOMAIN soup :
          /\ "deleted" \notin soup[s].flags
          /\ AppWrites(s, [soup[s] EXCEPT !.flags = @ \union {flag}], held)
    /\ UNCHANGED nextEntry

AppUpdate(held) == AppFlags("updated", "app_update", held)
AppDelete(held) == AppFlags("deleted", "app_delete", held)

\* The application may also delete the element, not the record: it gives it up.
AppPurge ==
    /\ "app_purge" \in Ops
    /\ \E s \in DOMAIN soup :
          /\ soup' = Without(soup, {s})
          /\ latest' = [latest EXCEPT ![s] = 0]
    /\ UNCHANGED <<nextEntry, server, clock, edits, settled, exposed>>

App(held) == AppCreate \/ AppUpdate(held) \/ AppDelete(held) \/ AppPurge
----------------------------------------------------------------------------
(* The server and its other clients.  Modification dates have seconds.     *)

Ticks == {t \in 1 .. conf.clock : t = clock + 1 \/ (t = clock /\ "ties" \in Ops)}

ServerWrites(i, r, t) == server' = With(server, i, [r EXCEPT !.mod = t]) /\ clock' = t

UnusedId  == {i \in Ids : i = Cardinality(DOMAIN server) + 1}

OtherWrites(op, i, r) ==
    /\ NewEdit(op)
    /\ \E t \in Ticks : ServerWrites(i, r, t)
    /\ UNCHANGED <<soup, nextEntry, latest, settled, exposed>>

OtherCreate ==
    \E i \in UnusedId :
        OtherWrites("other_create", i,
                    [live |-> TRUE, edit |-> edits + 1, mod |-> clock, key |-> edits + 1])
OtherUpdate ==
    \E i \in Live : OtherWrites("other_update", i, [server[i] EXCEPT !.edit = edits + 1])
OtherDelete ==
    \E i \in Live : OtherWrites("other_delete", i, [server[i] EXCEPT !.live = FALSE])

Others == OtherCreate \/ OtherUpdate \/ OtherDelete
----------------------------------------------------------------------------
(* Properties of the records, which every task has to keep.                *)

\* An edit of the application is accepted by the server, or still there and
\* flagged for the next sync up; only an edit made while a task held a copy of
\* the element may be written over.
EditsSurvive ==
    \A s \in Entries :
        latest[s] # 0 =>
            \/ latest[s] \in settled \union exposed
            \/ s \in DOMAIN soup /\ IsDirty(soup[s]) /\ soup[s].edit = latest[s]
=============================================================================
