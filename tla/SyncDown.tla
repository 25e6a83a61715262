------------------------------- MODULE SyncDown -------------------------------
(***************************************************************************)
(* A sync down of SyncDownTask.java with a SoqlSyncDownTarget, and the     *)
(* removal of ghosts of CleanSyncGhostsTask.java.  A sync down fetches the *)
(* records later than the maxTimeStamp of its row page by page, saves each *)
(* page in a transaction, and moves maxTimeStamp as it goes or at the end. *)
(* It may be stopped or fail between two pages, the process may end        *)
(* anywhere, and reSync() goes on from what the row says.                  *)
(*                                                                         *)
(* The cursor of the server is external and returns, page by page, what    *)
(* matched when the query was made.                                        *)
(***************************************************************************)
EXTENDS Records, FiniteSetsExt

CONSTANT
    PageSize        \* maxBatchSize

\* downMerge: SyncState.MergeMode of the sync; sorted: what
\* isSyncDownSortedByLatestModification() says; downRuns: the runs asked for, a
\* sync down or a removal of ghosts; downEnds: how one may end before its last
\* page.
ASSUME DownAssumption ==
    /\ PageSize \in Nat \ {0}
    /\ \A c \in Confs :
          /\ c.downMerge \in {"OVERWRITE", "LEAVE_IF_CHANGED"}
          /\ c.sorted \in BOOLEAN
          /\ c.downRuns \subseteq {"down", "ghosts"}
          /\ c.downEnds \subseteq {"STOPPED", "FAILED"}

DownMergeMode == conf.downMerge
Sorted        == conf.sorted
DownRuns      == conf.downRuns
DownEnds      == conf.downEnds

VARIABLES
    sync,       \* the row of the sync: status and maxTimeStamp
    down        \* the task on the worker thread

Status  == {"NEW", "RUNNING", "STOPPED", "FAILED", "DONE"}
SyncRow == [status : Status, max : Dates \union {0}]

\* sent: a record as the server sent it; rest: those its cursor has still to
\* send; max: the greatest date so far; syncMax: maxTimeStamp of the SyncState
\* in memory; skip: idsToSkip; ids, remote: those of cleanGhosts().
DownPc == {"idle", "start", "prepare", "save", "saved", "fetch", "list", "ghosts"}
Sent   == [id : Ids, record : Record]
Down   == [pc : DownPc, page : SUBSET Sent, rest : SUBSET Sent, max : Dates \union {0},
           syncMax : Dates \union {0}, skip : SUBSET (Ids \union {LocalId}),
           ids : SUBSET (Ids \union {LocalId}), remote : SUBSET Ids]

IdleDown == [pc |-> "idle", page |-> {}, rest |-> {}, max |-> 0, syncMax |-> 0,
             skip |-> {}, ids |-> {}, remote |-> {}]

DownTypeOK == sync \in SyncRow /\ down \in Down

DownInit == sync = [status |-> "NEW", max |-> 0] /\ down = IdleDown

\* The entries an edit of which this task may not notice any more: those its
\* list of ids to skip, or of ids to check, was made without.
DownHeld ==
    IF down.pc \in {"save", "saved", "fetch"} /\ DownMergeMode = "LEAVE_IF_CHANGED"
    THEN {s \in DOMAIN soup : soup[s].id \in
             {x.id : x \in down.rest \union IF down.pc = "save" THEN down.page ELSE {}}
             \ down.skip}
    ELSE IF down.pc \in {"list", "ghosts"}
    THEN {s \in DOMAIN soup : soup[s].id \in down.ids}
    ELSE {}

\* updateSync() with a final status.
Ends(status) == /\ down' = IdleDown
                /\ sync' = [status |-> status, max |-> down.syncMax]
MayEnd(status) == status \in DownEnds /\ Ends(status)
----------------------------------------------------------------------------
\* reSync(), and the RUNNING that the constructor of the task saves.
BugResumeFrom  == sync.max
BugResumeBelow == IF sync.status = "STOPPED" THEN sync.max - 1 ELSE sync.max
ResumeFrom     == IF sync.status = "STOPPED" /\ sync.max > 0 THEN sync.max - 1 ELSE sync.max

StartSyncDown ==
    /\ "down" \in DownRuns
    /\ down.pc = "idle"
    /\ sync' = [status |-> "RUNNING", max |-> ResumeFrom]
    /\ down' = [IdleDown EXCEPT !.pc = "start", !.max = ResumeFrom, !.syncMax = ResumeFrom]
    /\ UNCHANGED recordVars

\* The next page of a cursor: of the oldest records when the query is ordered.
Pages(rest) ==
    {page \in SUBSET rest :
        /\ Cardinality(page) = Min({PageSize, Cardinality(rest)})
        /\ Sorted => \A x \in page, y \in rest \ page : x.record.mod <= y.record.mod}

Matching(date) == {[id |-> i, record |-> server[i]] : i \in {j \in Live : server[j].mod > date}}

FetchPage(pc, rest) ==
    \E page \in Pages(rest) :
        down' = [down EXCEPT !.pc = pc, !.page = page, !.rest = rest \ page]

\* startFetch(): the records with a later LastModifiedDate.
StartFetch ==
    /\ down.pc = "start"
    /\ \/ FetchPage("prepare", Matching(down.max)) /\ UNCHANGED sync
       \/ MayEnd("STOPPED")
       \/ MayEnd("FAILED")
    /\ UNCHANGED recordVars

\* The progress is saved, and getIdsToSkip() read once for the whole run.
GetIdsToSkip ==
    /\ down.pc = "prepare"
    /\ down' = [down EXCEPT !.pc = "save",
                            !.skip = IF DownMergeMode = "LEAVE_IF_CHANGED"
                                     THEN {soup[s].id : s \in DirtyEntries} ELSE {}]
    /\ sync' = [status |-> "RUNNING", max |-> down.syncMax]
    /\ UNCHANGED recordVars

\* upsert() by id: lookupSoupEntryId() throws when two elements have the id.
ToSave == {x \in down.page : x.id \notin down.skip}
Ambiguous == \E x \in ToSave : Cardinality(EntriesOf(x.id)) > 1

\* New elements get the next ids, in any order of the page.
BugNewOnes == ToSave
NewOnes    == {x \in ToSave : EntriesOf(x.id) = {}}
Upserted(order) ==
    [s \in DOMAIN soup \union nextEntry .. nextEntry + Cardinality(NewOnes) - 1 |->
        IF \E x \in NewOnes : order[x] = s
        THEN LET x == CHOOSE y \in NewOnes : order[y] = s IN Downloaded(x.id, x.record)
        ELSE IF \E x \in ToSave : x.id = soup[s].id
        THEN LET x == CHOOSE y \in ToSave : y.id = soup[s].id IN Downloaded(x.id, x.record)
        ELSE soup[s]]

\* "Updating maxTimeStamp as we go if records are ordered by latest modification".
BugProgress(max) == max
Progress(max)    == IF Sorted THEN max ELSE down.syncMax

\* A page is saved in one transaction.
SavePage ==
    LET n == Cardinality(NewOnes)
        fresh == nextEntry .. nextEntry + n - 1
        newMax == Max({down.max} \union {x.record.mod : x \in down.page}) IN
    /\ down.pc = "save"
    /\ \/ /\ ~Ambiguous
          /\ nextEntry + n - 1 <= MaxEntries
          /\ \E order \in Bijection(NewOnes, fresh) : soup' = Upserted(order)
          /\ nextEntry' = nextEntry + n
          /\ latest' = [s \in Entries |->
                           IF s \in DOMAIN soup /\ \E x \in ToSave : x.id = soup[s].id
                              /\ DownMergeMode = "OVERWRITE"
                           THEN 0 ELSE latest[s]]
          /\ down' = [down EXCEPT !.pc = "saved", !.max = newMax,
                                  !.syncMax = Progress(newMax)]
          /\ UNCHANGED sync
       \/ /\ Ambiguous
          /\ Ends("FAILED")
          /\ UNCHANGED <<soup, nextEntry, latest>>
       \/ MayEnd("STOPPED") /\ UNCHANGED <<soup, nextEntry, latest>>
    /\ UNCHANGED <<server, clock, edits, settled, exposed>>

\* updateSync() after a page that is not the last.
SaveProgress ==
    /\ down.pc = "saved"
    /\ down' = [down EXCEPT !.pc = "fetch", !.page = {}]
    /\ sync' = IF down.rest = {} THEN sync ELSE [status |-> "RUNNING", max |-> down.syncMax]
    /\ UNCHANGED recordVars

ContinueFetch ==
    /\ down.pc = "fetch"
    /\ down.rest # {}
    /\ \/ FetchPage("save", down.rest) /\ UNCHANGED sync
       \/ MayEnd("FAILED")
    /\ UNCHANGED recordVars

EndSyncDown ==
    /\ down.pc = "fetch"
    /\ down.rest = {}
    /\ down' = IdleDown
    /\ sync' = [status |-> "DONE", max |-> down.max]
    /\ UNCHANGED recordVars
----------------------------------------------------------------------------
(* cleanGhosts().                                                          *)

\* getNonDirtyRecordIds(), then the first page of the ids of the server.
StartGhosts ==
    /\ "ghosts" \in DownRuns
    /\ down.pc = "idle"
    /\ down' = [IdleDown EXCEPT !.pc = "list",
                                !.ids = {soup[s].id : s \in DOMAIN soup \ DirtyEntries},
                                !.syncMax = sync.max]
    /\ UNCHANGED <<recordVars, sync>>

BugGetRemoteIds ==
    /\ down.pc = "list"
    /\ \E page \in Pages(Matching(0)) :
          down' = [down EXCEPT !.pc = "ghosts", !.remote = {x.id : x \in page}]
    /\ UNCHANGED <<recordVars, sync>>

\* getRemoteIds(): the pages are one cursor, and a failure or a stop between two
\* of them ends the task, so what counts is the moment of the query.
GetRemoteIds ==
    /\ down.pc = "list"
    /\ \/ down' = [down EXCEPT !.pc = "ghosts", !.remote = Live]
       \/ DownEnds # {} /\ down' = IdleDown
    /\ UNCHANGED <<recordVars, sync>>

\* deleteRecordsFromLocalStore(): the elements with these ids, whatever their
\* flags are now.
DeleteGhosts ==
    /\ down.pc = "ghosts"
    /\ soup' = Without(soup, UNION {EntriesOf(i) : i \in down.ids \ down.remote})
    /\ down' = IdleDown
    /\ UNCHANGED <<nextEntry, server, clock, edits, latest, settled, exposed, sync>>
----------------------------------------------------------------------------
DownStep ==
    \/ StartSyncDown \/ StartFetch \/ GetIdsToSkip \/ SavePage \/ SaveProgress
    \/ ContinueFetch \/ EndSyncDown
    \/ StartGhosts \/ GetRemoteIds \/ DeleteGhosts

\* The process dies; the next SyncManager makes of a RUNNING row a STOPPED one.
DownCrash ==
    /\ down' = IdleDown
    /\ sync' = IF sync.status = "RUNNING" THEN [sync EXCEPT !.status = "STOPPED"] ELSE sync
----------------------------------------------------------------------------
(* Properties.                                                             *)

\* The soup has record i as the server has it, or a change of it to send.
Has(i) == \E s \in EntriesOf(i) : IsDirty(soup[s]) \/ soup[s].edit = server[i].edit

\* "Sync was interrupted, refetch records including those with maxTimeStamp":
\* a record of the server that the next reSync() will not ask for is in the soup
\* as the server has it, or changed there.
NothingMissed ==
    down.pc = "idle" =>
        \A i \in Live : server[i].mod <= ResumeFrom => Has(i)

\* Only records that the server has deleted are removed as ghosts.
GhostsAreDeleted ==
    [][down.pc = "ghosts" /\ down' # down =>
          \A s \in DOMAIN soup \ DOMAIN soup' : soup[s].id \notin Live]_<<down, soup>>
=============================================================================
