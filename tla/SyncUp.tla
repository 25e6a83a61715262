-------------------------------- MODULE SyncUp --------------------------------
(***************************************************************************)
(* A sync up of SyncUpTask.java with a SyncUpTarget: the records with      *)
(* flags are read one after the other and created, updated or deleted on   *)
(* the server, and the copy that was sent is saved without its flags.      *)
(* Reading, asking the server, and saving are steps of their own: the      *)
(* application, other clients, a failure or the end of the process may     *)
(* come between any two.                                                   *)
(***************************************************************************)
EXTENDS Records, FiniteSetsExt

\* upMerge: SyncState.MergeMode of the sync; externalIds: whether the target has
\* an externalIdFieldName; fails: whether requests and answers may be lost or
\* refused.
MergeMode == {"OVERWRITE", "LEAVE_IF_CHANGED"}

ASSUME UpAssumption ==
    \A c \in Confs :
        c.upMerge \in MergeMode /\ c.externalIds \in BOOLEAN /\ c.fails \in BOOLEAN

UpMergeMode  == conf.upMerge
ExternalIds  == conf.externalIds
NetworkFails == conf.fails

VARIABLE up     \* the task on the worker thread

\* left: the dirty ids still to go through; entry, row: the record in hand;
\* answer, id: how the server answered, and the id it gave; seen: its edit of
\* the record when the dates were compared, 0 if they were not (for LeavesChanged).
UpPc   == {"idle", "next", "check", "send", "recreate", "save"}
Answer == {"ok", "gone", "refused"}
Up     == [pc : UpPc, left : SUBSET Entries, entry : Entries \union {0},
           row : Row \union {[flags |-> {}]}, answer : Answer, id : Ids \union {LocalId},
           seen : Edits \union {0}]

IdleUp == [pc |-> "idle", left |-> {}, entry |-> 0, row |-> [flags |-> {}],
           answer |-> "ok", id |-> LocalId, seen |-> 0]

UpTypeOK == up \in Up

UpInit == up = IdleUp

UpHeld == IF up.pc \in {"check", "send", "recreate", "save"} THEN {up.entry} ELSE {}

Rest(left) == [IdleUp EXCEPT !.pc = "next", !.left = left]
UpNextRecord == up' = Rest(up.left)
UpEnds       == up' = IdleUp
----------------------------------------------------------------------------
\* runSync(): getIdsOfRecordsToSyncUp().
StartSyncUp ==
    /\ up.pc = "idle"
    /\ up' = Rest(DirtyEntries)
    /\ UNCHANGED recordVars

\* The loop is through, or checkIfStopRequested() throws.
EndSyncUp ==
    /\ up.pc = "next"
    /\ UpEnds
    /\ UNCHANGED recordVars

\* getFromLocalStore() and, with LEAVE_IF_CHANGED, what isNewerThanServer()
\* decides without the server.  A record that is not there any more is a
\* JSONException, which fails the sync.
ReadRecord ==
    /\ up.pc = "next"
    /\ up.left # {}
    /\ LET s == Min(up.left) IN
          up' = IF s \notin DOMAIN soup THEN IdleUp
                ELSE [up EXCEPT
                        !.pc    = IF UpMergeMode = "LEAVE_IF_CHANGED"
                                     /\ "created" \notin soup[s].flags
                                  THEN "check" ELSE "send",
                        !.left  = @ \ {s},
                        !.entry = s,
                        !.row   = soup[s]]
    /\ UNCHANGED recordVars

\* isNewerThanServer(): the date of the record, or that it is gone, against
\* those of the copy.
BugIsNewer(row, r) == TRUE
IsNewer(row, r) ==
    \/ r.live /\ row.mod >= r.mod
    \/ ~r.live /\ "deleted" \in row.flags
    \/ row.mod = NoDate

\* An error other than 404 counts as a record with no date.
CheckModDate ==
    /\ up.pc = "check"
    /\ \/ IF IsNewer(up.row, server[up.row.id])
          THEN up' = [up EXCEPT !.pc = "send", !.seen = server[up.row.id].edit]
          ELSE UpNextRecord
       \/ /\ NetworkFails
          /\ up.row.mod # NoDate
          /\ UpNextRecord
       \/ NetworkFails /\ UpEnds
    /\ UNCHANGED recordVars
----------------------------------------------------------------------------
(* Requests.  The answer to one that the server has carried out may be     *)
(* lost: sendSync() throws an IOException, which fails the sync.           *)

Answered(answer, id) == up' = [up EXCEPT !.pc = "save", !.answer = answer, !.id = id]

\* The server carries out the request and answers, or the answer is lost.
Accepted(id) ==
    /\ settled' = settled \union {up.row.edit}
    /\ Answered("ok", id) \/ (NetworkFails /\ UpEnds)

Unchanged == UNCHANGED <<server, clock, settled>>

\* It refuses, or never gets the request.
Refused == NetworkFails /\ Unchanged /\ (Answered("refused", LocalId) \/ UpEnds)

\* createOnServer(), upsertOnServer(): a POST makes a new record, an upsert the
\* one with the external id if there is one.
BugCreated(row) == UnusedId
Created(row) ==
    LET found == {i \in Live : ExternalIds /\ server[i].key = row.key} IN
    IF found # {} THEN found ELSE UnusedId

Wants(row, action) ==
    action = IF "deleted" \in row.flags THEN "delete"
             ELSE IF "created" \in row.flags THEN "create" ELSE "update"

CreateOnServer ==
    /\ \/ up.pc = "send" /\ Wants(up.row, "create")
       \/ up.pc = "recreate"
    /\ \/ \E i \in Created(up.row), t \in Ticks :
             /\ ServerWrites(i, [live |-> TRUE, edit |-> up.row.edit, mod |-> t,
                                 key |-> up.row.key], t)
             /\ Accepted(i)
       \/ /\ up.pc = "send"
          /\ Refused
       \* A refused creation of a record that was gone is ignored.
       \/ /\ up.pc = "recreate"
          /\ NetworkFails
          /\ Unchanged
          /\ UpNextRecord \/ UpEnds
    /\ UNCHANGED <<soup, nextEntry, edits, latest, exposed>>

\* updateOnServer().  A record that is gone is created anew with OVERWRITE,
\* left alone with LEAVE_IF_CHANGED.
UpdateOnServer ==
    LET i == up.row.id IN
    /\ up.pc = "send"
    /\ Wants(up.row, "update")
    /\ \/ /\ server[i].live
          /\ \E t \in Ticks : ServerWrites(i, [server[i] EXCEPT !.edit = up.row.edit], t)
          /\ Accepted(i)
       \/ /\ ~server[i].live
          /\ IF UpMergeMode = "OVERWRITE" THEN up' = [up EXCEPT !.pc = "recreate"]
             ELSE UpNextRecord
          /\ Unchanged
       \/ Refused
    /\ UNCHANGED <<soup, nextEntry, edits, latest, exposed>>

\* deleteOnServer(), which is not called for a record that was created here:
\* "if locally created it can't exist on the server".
DeleteOnServer ==
    LET i == up.row.id IN
    /\ up.pc = "send"
    /\ Wants(up.row, "delete")
    /\ IF "created" \in up.row.flags
       THEN /\ settled' = settled \union {up.row.edit}
            /\ Answered("gone", LocalId)
            /\ UNCHANGED <<server, clock>>
       ELSE \/ /\ server[i].live
               /\ \E t \in Ticks :
                     ServerWrites(i, [server[i] EXCEPT !.live = FALSE], t)
               /\ Accepted(i)
            \/ /\ ~server[i].live
               /\ settled' = settled \union {up.row.edit}
               /\ Answered("gone", LocalId)
               /\ UNCHANGED <<server, clock>>
            \/ Refused
    /\ UNCHANGED <<soup, nextEntry, edits, latest, exposed>>
----------------------------------------------------------------------------
\* cleanAndSaveInLocalStore() of the copy, which update() ignores when the
\* element is not there; saveRecordToLocalStoreWithLastError() of the copy with
\* its flags; deleteFromLocalStore().
BugSaved ==
    LET s == up.entry IN
    IF s \notin DOMAIN soup THEN soup
    ELSE With(soup, s, [up.row EXCEPT !.flags = {},
                                      !.id = IF Wants(up.row, "create") THEN up.id ELSE @])
Saved ==
    LET s == up.entry IN
    IF s \notin DOMAIN soup THEN soup
    ELSE IF up.answer = "refused" THEN With(soup, s, up.row)
    ELSE IF Wants(up.row, "delete") THEN Without(soup, {s})
    ELSE With(soup, s, [up.row EXCEPT !.flags = {}, !.id = up.id])

SaveRecord ==
    /\ up.pc = "save"
    /\ soup' = Saved
    /\ UpNextRecord
    /\ UNCHANGED <<nextEntry, server, clock, edits, latest, settled, exposed>>
----------------------------------------------------------------------------
UpStep ==
    \/ StartSyncUp \/ ReadRecord \/ CheckModDate
    \/ CreateOnServer \/ UpdateOnServer \/ DeleteOnServer
    \/ SaveRecord \/ EndSyncUp
----------------------------------------------------------------------------
(* Properties.                                                             *)

\* A sync up with an external id field never makes two records of one: neither
\* a lost answer nor a crash before the id is saved makes the next run create
\* the record again.
OneRecordPerKey ==
    ExternalIds => \A i, j \in Live : server[i].key = server[j].key => i = j

\* LEAVE_IF_CHANGED: an update or a delete of this client replaces no edit that
\* is later than the date the client knows, unless that edit came after this run
\* had compared the dates.
LeavesChanged ==
    [][UpMergeMode = "LEAVE_IF_CHANGED" /\ up.pc = "send" /\ up' # up /\ server' # server
          /\ up.row.flags \intersect {"created"} = {} /\ up.row.mod # NoDate =>
             LET r == server[up.row.id] IN
             r.edit = up.seen => r.mod <= up.row.mod]_<<up, server>>
=============================================================================
