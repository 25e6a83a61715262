------------------------------ MODULE MobileSync ------------------------------
(***************************************************************************)
(* A soup that is synced both ways: the sync up and the sync down of one   *)
(* SyncManager, whose pool has one thread, so that a run begins when the   *)
(* last one has ended.  Which run comes next is up to the application.     *)
(***************************************************************************)
EXTENDS BatchSyncUp, SyncDown

\* upRuns: whether the application asks for sync ups; crashes: whether the
\* process may die.
ASSUME RunsAssumption == \A c \in Confs : c.upRuns \in BOOLEAN /\ c.crashes \in BOOLEAN

vars == <<conf, recordVars, up, batch, sync, down>>

TypeOK == RecordsTypeOK /\ UpTypeOK /\ BatchTypeOK /\ DownTypeOK

Init == conf \in Confs /\ RecordsInit /\ UpInit /\ BatchInit /\ DownInit

Held == UpHeld \union BatchHeld \union DownHeld

UpIdle == up.pc = "idle" /\ batch.pc = "idle"

\* The worker thread: SyncManager's threadPool is newFixedThreadPool(1).
Worker ==
    \/ /\ down.pc = "idle"
       /\ UpIdle => conf.upRuns
       /\ \/ conf.target = "single" /\ UpStep /\ UNCHANGED batch
          \/ conf.target # "single" /\ BatchStep /\ UNCHANGED up
       /\ UNCHANGED <<sync, down>>
    \/ /\ UpIdle
       /\ DownStep
       /\ UNCHANGED <<up, batch>>

Crash ==
    /\ conf.crashes
    /\ ~UpIdle \/ down.pc # "idle"
    /\ UpEnds
    /\ BatchEnds
    /\ DownCrash
    /\ UNCHANGED recordVars

Next ==
    /\ \/ Worker
       \/ (App(Held) \/ Others) /\ UNCHANGED <<up, batch, sync, down>>
       \/ Crash
    /\ UNCHANGED conf

Spec == Init /\ [][Next]_vars
----------------------------------------------------------------------------
(* Properties.                                                             *)

\* The id of an element is that of the record made from it, whichever answers
\* the requests of a batch got: the element and the record have one key.
IdsMatch ==
    \A s \in DOMAIN soup : soup[s].id # LocalId => soup[s].key = server[soup[s].id].key

\* createOnServer() is to "save locally created record back to server": while no
\* request, answer or process is lost, it is made there once.
CreatedOnce ==
    ~conf.fails /\ ~conf.crashes =>
        \A i, j \in Live : server[i].key = server[j].key => i = j

\* An id of the server belongs to one element: with two, lookupSoupEntryId()
\* throws "There are more than one soup elements" and every sync down that is
\* sent the record fails.
IdsAreUnique == \A i \in Ids : Cardinality(EntriesOf(i)) <= 1
=============================================================================
