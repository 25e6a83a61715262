------------------------ MODULE MobileSyncDatesProofs ------------------------
(***************************************************************************)
(* The dates of MobileSync: what a task that compared some has seen stays  *)
(* true until it acts on it.                                               *)
(*                                                                         *)
(* GhostsAreDeleted, LeavesChanged and BatchLeavesChanged are about a step *)
(* of the server that rests on what was read some steps before: the ids    *)
(* that the server did not have, the date of the record in hand, the dates *)
(* of the records of a batch.                                              *)
(*                                                                         *)
(* NothingMissed is about the date from which the next sync down goes on.  *)
(* ResumeInv says that this date is never later than what the soup has     *)
(* (RunInv): in a run, each record is in the soup, in a page still to be   *)
(* saved, or later than all dates of the run (Late).  It holds as long as  *)
(* what is removed from the soup, or saved over without its flags, is gone *)
(* from the server or later than that date (UpDates, BatchDates), and what *)
(* a page leaves alone has a change to send (SkipInv).                     *)
(***************************************************************************)
EXTENDS MobileSyncKeysProofs

Leaves == UpMergeMode = "LEAVE_IF_CHANGED"

\* The record of a row is not later than the row, unless it was edited since the
\* edit that was seen when their dates were compared.
SeenIn(row, seen, known) ==
    row.mod # NoDate /\ known[row.id].live /\ known[row.id].edit = seen
        => known[row.id].mod <= row.mod

UpSeen ==
    Leaves /\ up.pc = "send" /\ "created" \notin up.row.flags =>
        up.seen <= edits /\ SeenIn(up.row, up.seen, server)

\* The rows of a batch whose requests are still to be sent.
Unsent(s) ==
    \/ s \in batch.todo
    \/ /\ batch.pc = "send" /\ s \in batch.sending
       /\ \E k \in batch.kinds + 1 .. Len(RequestType) : KindOf(Rows[s]) = RequestType[k]

\* Ids that the server does not have when the ghosts are removed are gone for
\* good: it gives none twice.
GhostInv ==
    /\ down.pc \in {"list", "ghosts"} => down.ids \subseteq DOMAIN server \union {LocalId}
    /\ down.pc = "ghosts" => (down.ids \ down.remote) \intersect Live = {}
----------------------------------------------------------------------------
\* What another client does to the records: it makes one, edits one, or deletes
\* one, with a new date and a new edit.
LEMMA OthersEffect ==
  ASSUME TypeInv, KeyInv, Others
  PROVE  /\ UNCHANGED <<soup, nextEntry, latest, settled, exposed>> /\ edits' = edits + 1
         /\ clock' \in Ticks
         /\ \A i \in DOMAIN server' :
               \/ i \in DOMAIN server /\ server'[i] = server[i]
               \/ /\ i \in UnusedId /\ i \notin DOMAIN server
                  /\ server'[i].edit = edits' /\ server'[i].mod = clock'
               \/ /\ i \in Live /\ server'[i].mod = clock' /\ server'[i].key = server[i].key
                  /\ server'[i].live => server'[i].edit = edits'
         /\ DOMAIN server \subseteq DOMAIN server'
<1>1. \A i \in Live : i \in Ids /\ i \in DOMAIN server /\ server[i] \in Record
  BY DEF Live, TypeInv, TypeOK, RecordsTypeOK
<1>2. CASE OtherCreate
  <2> DEFINE r == [live |-> TRUE, edit |-> edits + 1, mod |-> clock, key |-> edits + 1]
  <2>1. PICK i \in UnusedId : OtherWrites("other_create", i, r)
    BY <1>2 DEF OtherCreate
  <2>2. edits + 1 \in Edits /\ clock \in Dates /\ i \in Ids
    BY <2>1, NewEditOK DEF OtherWrites, UnusedId, TypeInv, TypeOK, RecordsTypeOK
  <2>3. r \in Record /\ r.edit = edits + 1
    BY <2>2, EditsNat DEF Record
  <2> HIDE DEF r
  <2>4. UNCHANGED <<soup, nextEntry, latest, settled, exposed>> /\ edits' = edits + 1
    BY <2>1 DEF OtherWrites, NewEdit
  <2>5. PICK t \in Ticks : ServerWrites(i, r, t)
    BY <2>1 DEF OtherWrites
  <2>6. /\ DOMAIN server' = DOMAIN server \union {i}
        /\ \A j \in DOMAIN server : j # i => server'[j] = server[j]
        /\ server'[i] = [r EXCEPT !.mod = t] /\ clock' = t
    BY <2>2, <2>3, <2>5, ServerWritesOK DEF TypeInv, TypeOK
  <2>7. server'[i].edit = edits' /\ server'[i].mod = t
    BY <2>3, <2>4, <2>6 DEF Record
  <2>8. i \notin DOMAIN server
    BY UnusedIds DEF KeyInv
  <2>9. QED
    BY <2>4, <2>5, <2>6, <2>7, <2>8
<1>3. CASE OtherUpdate
  <2>1. PICK i \in Live : OtherWrites("other_update", i, [server[i] EXCEPT !.edit = edits + 1])
    BY <1>3 DEF OtherUpdate
  <2> DEFINE r == [server[i] EXCEPT !.edit = edits + 1]
  <2>2. edits + 1 \in Edits
    BY <2>1, NewEditOK DEF OtherWrites, TypeInv, TypeOK
  <2>3. r \in Record /\ r.edit = edits + 1 /\ r.key = server[i].key
    BY <1>1, <2>2 DEF Record
  <2> HIDE DEF r
  <2>4. OtherWrites("other_update", i, r)
    BY <2>1 DEF r
  <2>5. UNCHANGED <<soup, nextEntry, latest, settled, exposed>> /\ edits' = edits + 1
    BY <2>4 DEF OtherWrites, NewEdit
  <2>6. PICK t \in Ticks : ServerWrites(i, r, t)
    BY <2>4 DEF OtherWrites
  <2>7. /\ DOMAIN server' = DOMAIN server \union {i}
        /\ \A j \in DOMAIN server : j # i => server'[j] = server[j]
        /\ server'[i] = [r EXCEPT !.mod = t] /\ clock' = t
    BY <1>1, <2>3, <2>6, ServerWritesOK, ZenonT(30) DEF TypeInv, TypeOK
  <2>8. server'[i].edit = edits' /\ server'[i].mod = t /\ server'[i].key = server[i].key
    BY <2>3, <2>5, <2>7 DEF Record
  <2>9. QED
    BY <1>1, <2>5, <2>6, <2>7, <2>8
<1>4. CASE OtherDelete
  <2>1. PICK i \in Live : OtherWrites("other_delete", i, [server[i] EXCEPT !.live = FALSE])
    BY <1>4 DEF OtherDelete
  <2> DEFINE r == [server[i] EXCEPT !.live = FALSE]
  <2>2. r \in Record /\ r.live = FALSE /\ r.key = server[i].key
    BY <1>1 DEF Record
  <2> HIDE DEF r
  <2>3. OtherWrites("other_delete", i, r)
    BY <2>1 DEF r
  <2>4. UNCHANGED <<soup, nextEntry, latest, settled, exposed>> /\ edits' = edits + 1
    BY <2>3 DEF OtherWrites, NewEdit
  <2>5. PICK t \in Ticks : ServerWrites(i, r, t)
    BY <2>3 DEF OtherWrites
  <2>6. /\ DOMAIN server' = DOMAIN server \union {i}
        /\ \A j \in DOMAIN server : j # i => server'[j] = server[j]
        /\ server'[i] = [r EXCEPT !.mod = t] /\ clock' = t
    BY <1>1, <2>2, <2>5, ServerWritesOK DEF TypeInv, TypeOK
  <2>7. server'[i].live = FALSE /\ server'[i].mod = t /\ server'[i].key = server[i].key
    BY <2>2, <2>6 DEF Record
  <2>8. QED
    BY <1>1, <2>4, <2>5, <2>6, <2>7
<1>5. QED
  BY <1>2, <1>3, <1>4 DEF Others

\* The application leaves the server alone.
LEMMA AppEffect ==
  ASSUME TypeInv, NEW held, App(held)
  PROVE  UNCHANGED <<server, clock>> /\ edits' \in Nat /\ edits <= edits'
<1>1. UNCHANGED <<server, clock>> /\ (edits' = edits + 1 \/ edits' = edits)
  BY DEF App, AppCreate, AppUpdate, AppDelete, AppFlags, AppWrites, AppPurge, NewEdit
<1>2. QED
  BY <1>1, EditsNat

\* What was seen of a record stays true while the task waits.
LEMMA SeenStays ==
  ASSUME TypeInv, KeyInv, NEW held, App(held) \/ Others,
         NEW row, row.id \in DOMAIN server, NEW seen \in Nat, seen <= edits,
         SeenIn(row, seen, server)
  PROVE  seen <= edits' /\ SeenIn(row, seen, server')
<1>1. CASE App(held)
  BY <1>1, AppEffect, EditsNat
<1>2. CASE Others
  <2>1. edits' = edits + 1 /\ row.id \in DOMAIN server'
    BY <1>2, OthersEffect
  <2>2. \/ server'[row.id] = server[row.id]
        \/ server'[row.id].live => server'[row.id].edit = edits'
    BY <1>2, <2>1, OthersEffect
  <2>3. seen # edits' /\ seen <= edits'
    BY <2>1, EditsNat
  <2>4. QED
    BY <2>2, <2>3 DEF SeenIn
<1>3. QED
  BY <1>1, <1>2
----------------------------------------------------------------------------
\* LEAVE_IF_CHANGED, the records one by one.

LEMMA UpSeenStep ==
  ASSUME TypeInv, KeyInv, UpStep, conf' = conf
  PROVE  UpSeen'
<1> SUFFICES ASSUME Leaves, up'.pc = "send", "created" \notin up'.row.flags
             PROVE  up'.seen <= edits' /\ SeenIn(up'.row, up'.seen, server')
  BY DEF UpSeen, Leaves, UpMergeMode
<1>1. up'.pc \in InHand
  BY DEF InHand
<1>2. ~(UpNextRecord \/ UpEnds)
  BY <1>1, UpFreePc
<1>3. ~StartSyncUp /\ ~EndSyncUp /\ ~SaveRecord
  BY <1>1, <1>2, RestPc DEF StartSyncUp, EndSyncUp, SaveRecord, InHand
<1>4. \A answer, id : ~Answered(answer, id)
  BY DEF Answered, TypeInv, TypeOK, UpTypeOK, Up
<1>5. ~CreateOnServer /\ ~UpdateOnServer /\ ~DeleteOnServer
  <2>1. up' # [up EXCEPT !.pc = "recreate"]
    BY DEF TypeInv, TypeOK, UpTypeOK, Up
  <2>2. QED
    BY <1>2, <1>4, <2>1 DEF CreateOnServer, UpdateOnServer, DeleteOnServer, Accepted, Refused
<1>6. ~ReadRecord
  <2>1. ASSUME ReadRecord PROVE FALSE
    <3> DEFINE s == Min(up.left)
               pc == IF UpMergeMode = "LEAVE_IF_CHANGED" /\ "created" \notin soup[s].flags
                     THEN "check" ELSE "send"
    <3>1. up' = IdleUp
          \/ up' = [up EXCEPT !.pc = pc, !.left = @ \ {s}, !.entry = s, !.row = soup[s]]
      BY <2>1 DEF ReadRecord
    <3>2. up' # IdleUp
      BY DEF IdleUp
    <3>3. pc = "send" => "created" \in soup[s].flags
      BY DEF Leaves
    <3> HIDE DEF pc, s
    <3>4. up'.pc = pc /\ up'.row = soup[s]
      BY <3>1, <3>2 DEF TypeInv, TypeOK, UpTypeOK, Up
    <3>5. QED
      BY <3>3, <3>4
  <2>2. QED
    BY <2>1
<1>7. CASE CheckModDate
  <2>1. /\ up.pc = "check" /\ IsNewer(up.row, server[up.row.id]) /\ UNCHANGED recordVars
        /\ up' = [up EXCEPT !.pc = "send", !.seen = server[up.row.id].edit]
    BY <1>2, <1>7 DEF CheckModDate
  <2>2. up'.row = up.row /\ up'.seen = server[up.row.id].edit
    BY <2>1 DEF TypeInv, TypeOK, UpTypeOK, Up
  <2>3. up.row.id \in DOMAIN server /\ RowOK(up.row, DOMAIN server)
    BY <2>1, KnownId DEF TypeInv, UpInv, InHand
  <2>4. up.row.mod \in Nat /\ server[up.row.id].mod \in Nat
    BY <2>3, ServerRecordOK DEF RowOK, Row, Record, Dates, NoDate
  <2>5. SeenIn(up.row, up'.seen, server)
    BY <2>1, <2>4 DEF IsNewer, SeenIn
  <2>6. up'.seen <= edits
    BY <2>2, <2>3 DEF KeyInv, ServerKeys, Numbered
  <2>7. UNCHANGED <<server, edits>>
    BY <2>1 DEF recordVars
  <2>8. QED
    BY <2>2, <2>5, <2>6, <2>7
<1>8. QED
  BY <1>3, <1>5, <1>6, <1>7 DEF UpStep

LEMMA UpSeenNext ==
  ASSUME TypeInv, KeyInv, UpSeen, [Next]_vars
  PROVE  UpSeen'
<1>1. CASE UNCHANGED vars
  BY <1>1 DEF vars, recordVars, UpSeen, Leaves, UpMergeMode
<1>2. CASE Next
  <2>1. conf' = conf
    BY <1>2 DEF Next
  <2>2. CASE UpStep
    BY <2>1, <2>2, UpSeenStep
  <2>3. CASE (App(Held) \/ Others) /\ UNCHANGED <<up, batch, sync, down>>
    <3> SUFFICES ASSUME Leaves, up.pc = "send", "created" \notin up.row.flags
                 PROVE  up.seen <= edits' /\ SeenIn(up.row, up.seen, server')
      BY <2>1, <2>3 DEF UpSeen, Leaves, UpMergeMode
    <3>1. up.seen <= edits /\ SeenIn(up.row, up.seen, server)
      BY DEF UpSeen
    <3>2. up.row.id \in DOMAIN server
      BY WantedId
    <3>3. up.seen \in Nat
      BY DEF TypeInv, TypeOK, UpTypeOK, Up, Edits
    <3>4. QED
      BY <2>3, <3>1, <3>2, <3>3, SeenStays
  <2>4. CASE up'.pc # "send"
    BY <2>4 DEF UpSeen
  <2>5. CASE UNCHANGED up /\ (conf.target # "single" \/ UpIdle)
    <3>1. up.pc = "idle"
      BY <2>5 DEF TypeInv, TargetInv, IdleUp, UpIdle
    <3>2. QED
      BY <2>4, <2>5, <3>1
  <2>6. Crash => up'.pc # "send"
    BY DEF Crash, UpEnds, IdleUp
  <2>7. QED
    BY <1>2, <2>2, <2>3, <2>4, <2>5, <2>6 DEF Next, Worker
<1>3. QED
  BY <1>1, <1>2

\* LEAVE_IF_CHANGED: whatever the application, other clients and failures do, an
\* update or a delete replaces no edit of the server that is later than the date
\* the client knows, except one made after the run had compared their dates.
THEOREM LeavesChangedCorrect == Spec => LeavesChanged
<1> DEFINE Inv == TypeInv /\ KeyInv /\ UpSeen
           Step == UpMergeMode = "LEAVE_IF_CHANGED" /\ up.pc = "send" /\ up' # up
                   /\ server' # server
                   /\ up.row.flags \intersect {"created"} = {} /\ up.row.mod # NoDate =>
                      LET r == server[up.row.id] IN r.edit = up.seen => r.mod <= up.row.mod
<1>1. Init => Inv
  <2>1. Init => UpSeen
    BY DEF Init, UpInit, UpSeen, IdleUp
  <2>2. QED
    BY <2>1, InitInv, KeysInit
<1>2. Inv /\ [Next]_vars => Inv'
  BY NextInv, KeysNext, UpSeenNext
<1>3. Inv /\ [Next]_vars => [Step]_<<up, server>>
  <2> SUFFICES ASSUME Inv, [Next]_vars, Leaves, up.pc = "send", up' # up, server' # server,
                      "created" \notin up.row.flags, up.row.mod # NoDate,
                      server[up.row.id].edit = up.seen
               PROVE  server[up.row.id].mod <= up.row.mod
    BY DEF Leaves
  <2>1. SeenIn(up.row, up.seen, server)
    BY DEF UpSeen
  <2>2. UpStep
    <3>1. ~Crash
      BY DEF Crash, recordVars
    <3>2. ~UpIdle
      BY DEF UpIdle
    <3>3. QED
      BY <3>1, <3>2 DEF Next, Worker, vars
  <2>3. server[up.row.id].live
    <3>1. ~CreateOnServer
      BY DEF CreateOnServer, Wants
    <3>2. UpdateOnServer \/ DeleteOnServer
      BY <2>2, <3>1 DEF UpStep, StartSyncUp, ReadRecord, CheckModDate, SaveRecord, EndSyncUp,
                        recordVars
    <3>3. UpdateOnServer => server[up.row.id].live
      BY DEF UpdateOnServer, Refused, Unchanged
    <3>4. DeleteOnServer => server[up.row.id].live
      BY DEF DeleteOnServer, Refused, Unchanged
    <3>5. QED
      BY <3>2, <3>3, <3>4
  <2>4. QED
    BY <2>1, <2>3 DEF SeenIn
<1> HIDE DEF Inv
<1>4. QED
  BY <1>1, <1>2, <1>3, PTL DEF Spec, LeavesChanged
----------------------------------------------------------------------------
\* The removal of ghosts.

LEMMA GhostStep ==
  ASSUME TypeInv, KeyInv, GhostInv, DownStep, Keeps
  PROVE  GhostInv'
<1>1. CASE StartGhosts
  <2>1. down'.pc = "list" /\ down'.ids = {soup[s].id : s \in DOMAIN soup \ DirtyEntries}
    BY <1>1 DEF StartGhosts, IdleDown
  <2>2. DOMAIN server' = DOMAIN server
    BY <1>1 DEF StartGhosts, recordVars
  <2>3. down'.ids \subseteq DOMAIN server \union {LocalId}
    BY <2>1 DEF TypeInv, SoupInv, RowOK
  <2>4. QED
    BY <2>1, <2>2, <2>3 DEF GhostInv
<1>2. CASE GetRemoteIds
  <2>1. CASE down' = IdleDown
    BY <2>1 DEF GhostInv, IdleDown
  <2>2. CASE down' # IdleDown
    <3>1. down.pc = "list" /\ down' = [down EXCEPT !.pc = "ghosts", !.remote = Live]
          /\ server' = server
      BY <1>2, <2>2 DEF GetRemoteIds, recordVars
    <3>2. down'.pc = "ghosts" /\ down'.ids = down.ids /\ down'.remote = Live
      BY <3>1 DEF TypeInv, TypeOK, DownTypeOK, Down
    <3>3. QED
      BY <3>1, <3>2 DEF GhostInv, Live
  <2>3. QED
    BY <2>1, <2>2
<1>3. CASE ~StartGhosts /\ ~GetRemoteIds
  <2>1. IdleDown.pc = "idle" /\ [IdleDown EXCEPT !.pc = "start", !.max = ResumeFrom, !.syncMax = ResumeFrom].pc = "start"
    BY DEF IdleDown
  <2>2. \A pc, rest : FetchPage(pc, rest) => down'.pc = pc
    BY DEF FetchPage, TypeInv, TypeOK, DownTypeOK, Down
  <2>3. \A status : Ends(status) \/ MayEnd(status) => down'.pc = "idle"
    BY <2>1 DEF Ends, MayEnd
  <2>4. GetIdsToSkip => down'.pc = "save"
    BY DEF GetIdsToSkip, TypeInv, TypeOK, DownTypeOK, Down
  <2>5. SavePage => down'.pc \in {"saved", "idle"}
    <3>1. \A max, date : [down EXCEPT !.pc = "saved", !.max = max, !.syncMax = date].pc = "saved"
      BY DEF TypeInv, TypeOK, DownTypeOK, Down
    <3> DEFINE newMax == Max({down.max} \union {x.record.mod : x \in down.page})
    <3>2. SavePage =>
             \/ down' = [down EXCEPT !.pc = "saved", !.max = newMax, !.syncMax = Progress(newMax)]
             \/ Ends("FAILED") \/ MayEnd("STOPPED")
      BY Zenon DEF SavePage
    <3> HIDE DEF newMax
    <3>3. QED
      BY <2>3, <3>1, <3>2
  <2>6. SaveProgress => down'.pc = "fetch"
    BY DEF SaveProgress, TypeInv, TypeOK, DownTypeOK, Down
  <2>7. StartSyncDown => down'.pc = "start"
    BY <2>1 DEF StartSyncDown
  <2>8. StartFetch \/ ContinueFetch => down'.pc \in {"prepare", "save", "idle"}
    BY <2>2, <2>3 DEF StartFetch, ContinueFetch
  <2>9. EndSyncDown \/ DeleteGhosts => down'.pc = "idle"
    BY <2>1 DEF EndSyncDown, DeleteGhosts
  <2>10. down'.pc \notin {"list", "ghosts"}
    BY <1>3, <2>4, <2>5, <2>6, <2>7, <2>8, <2>9 DEF DownStep
  <2>11. QED
    BY <2>10 DEF GhostInv
<1>4. QED
  BY <1>1, <1>2, <1>3

LEMMA GhostNext ==
  ASSUME TypeInv, KeyInv, GhostInv, [Next]_vars
  PROVE  GhostInv'
<1>1. Keeps
  BY KeysNext
<1>2. CASE DownStep
  BY <1>1, <1>2, GhostStep
<1>3. CASE down' = down /\ (down.pc = "ghosts" => DOMAIN server' \intersect down.ids \subseteq DOMAIN server)
  BY <1>1, <1>3 DEF GhostInv, Live, Keeps, KeysKept
<1>4. CASE Crash
  BY <1>4 DEF Crash, DownCrash, IdleDown, GhostInv
<1>5. CASE down' = down /\ down.pc \in {"list", "ghosts"}
  <2>1. down.ids \subseteq DOMAIN server \union {LocalId}
    BY <1>5 DEF GhostInv
  <2>2. LocalId \notin DOMAIN server'
    BY NextInv DEF TypeInv, TypeOK, RecordsTypeOK, Ids, LocalId
  <2>3. QED
    BY <1>3, <1>5, <2>1, <2>2
<1>6. CASE down' = down /\ down.pc \notin {"list", "ghosts"}
  BY <1>6 DEF GhostInv
<1>7. QED
  BY <1>2, <1>4, <1>5, <1>6 DEF Next, Worker, vars

\* The elements removed as ghosts are of records that the server has deleted: not
\* of one it has made, or has got from this client, since it was asked for its ids.
THEOREM GhostsAreDeletedCorrect == Spec => GhostsAreDeleted
<1> DEFINE Inv == TypeInv /\ KeyInv /\ GhostInv
           Step == down.pc = "ghosts" /\ down' # down =>
                      \A s \in DOMAIN soup \ DOMAIN soup' : soup[s].id \notin Live
<1>1. Init => Inv
  <2>1. Init => GhostInv
    BY DEF Init, DownInit, GhostInv, IdleDown
  <2>2. QED
    BY <2>1, InitInv, KeysInit
<1>2. Inv /\ [Next]_vars => Inv'
  BY NextInv, KeysNext, GhostNext
<1>3. Inv /\ [Next]_vars => [Step]_<<down, soup>>
  <2> SUFFICES ASSUME Inv, [Next]_vars, down.pc = "ghosts", down' # down,
                      NEW s \in DOMAIN soup \ DOMAIN soup'
               PROVE  soup[s].id \notin Live
    OBVIOUS
  <2>1. DeleteGhosts
    <3>1. ~Crash
      BY DEF Crash, recordVars
    <3>2. DownStep
      BY <3>1 DEF Next, Worker, vars
    <3>3. QED
      BY <3>2 DEF DownStep, StartSyncDown, StartFetch, GetIdsToSkip, SavePage, SaveProgress,
                  ContinueFetch, EndSyncDown, StartGhosts, GetRemoteIds
  <2>2. s \in UNION {EntriesOf(i) : i \in down.ids \ down.remote}
    BY <2>1 DEF DeleteGhosts, Without
  <2>3. soup[s].id \in down.ids \ down.remote
    BY <2>2 DEF EntriesOf
  <2>4. QED
    BY <2>3 DEF GhostInv
<1> HIDE DEF Inv
<1>4. QED
  BY <1>1, <1>2, <1>3, PTL DEF Spec, GhostsAreDeleted
----------------------------------------------------------------------------
\* LEAVE_IF_CHANGED, the records in batches.

\* An id of the server belongs to one of the rows of a batch.
OneWriter == ~ExternalIds \/ "down" \notin DownRuns

BatchSeen ==
    Leaves =>
        /\ batch.todo \intersect batch.sending = {}
        /\ batch.check \intersect DOMAIN batch.seen = {}
        /\ batch.pc \in {"idle", "read"} => batch.seen = None
        /\ batch.pc = "send" => batch.kinds < Len(RequestType)
        /\ batch.pc \in {"read", "check", "fill"} \/ (batch.pc = "send" /\ ~Collection)
              => batch.kinds = 0
        /\ \A s \in DOMAIN batch.seen :
              /\ s \in DOMAIN batch.rows /\ "created" \notin batch.rows[s].flags
              /\ batch.seen[s] <= edits
              /\ OneWriter /\ Unsent(s) => SeenIn(batch.rows[s], batch.seen[s], server)

\* BatchSeen in the next state, with the rows, the dates and the server of that state.
LEMMA BatchSeenAfter ==
  ASSUME conf' = conf,
         Leaves =>
            /\ batch'.todo \intersect batch'.sending = {}
            /\ batch'.check \intersect DOMAIN batch'.seen = {}
            /\ batch'.pc \in {"idle", "read"} => batch'.seen = None
            /\ batch'.pc = "send" => batch'.kinds < Len(RequestType)
            /\ batch'.pc \in {"read", "check", "fill"} \/ (batch'.pc = "send" /\ ~Collection)
                  => batch'.kinds = 0,
         Leaves => \A s \in DOMAIN batch'.seen :
            /\ s \in DOMAIN batch'.rows /\ "created" \notin batch'.rows[s].flags
            /\ batch'.seen[s] <= edits'
            /\ /\ OneWriter
               /\ \/ s \in batch'.todo
                  \/ /\ batch'.pc = "send" /\ s \in batch'.sending
                     /\ \E k \in batch'.kinds + 1 .. Len(RequestType) :
                           KindOf(batch'.rows[s]) = RequestType[k]
               => SeenIn(batch'.rows[s], batch'.seen[s], server')
  PROVE  BatchSeen'
<1>1. Leaves' => Leaves
  BY DEF Leaves, UpMergeMode
<1>2. Collection' = Collection /\ OneWriter' = OneWriter
  BY DEF Collection, OneWriter, ExternalIds, DownRuns
<1>3. ASSUME NEW s, Unsent(s)'
      PROVE  \/ s \in batch'.todo
             \/ /\ batch'.pc = "send" /\ s \in batch'.sending
                /\ \E k \in batch'.kinds + 1 .. Len(RequestType) :
                      KindOf(batch'.rows[s]) = RequestType[k]
  BY <1>3 DEF Unsent, KindOf, Wants, Rows, ExternalIds
<1>4. QED
  BY <1>1, <1>2, <1>3 DEF BatchSeen, Rows

LEMMA BatchSeenFree ==
  ASSUME conf' = conf,
         batch' = IdleBatch \/ \E left : batch' = [IdleBatch EXCEPT !.pc = "read", !.left = left]
  PROVE  BatchSeen'
<1>1. /\ batch'.todo = {} /\ batch'.sending = {} /\ batch'.check = {} /\ batch'.seen = None
      /\ batch'.kinds = 0 /\ batch'.pc \in {"idle", "read"}
  BY IdleBatchFields
<1>2. DOMAIN batch'.seen = {}
  BY <1>1, EmptyPartial
<1>3. QED
  BY <1>1, <1>2, Kinds, BatchSeenAfter

\* The record of a row is there, and its id is that of the server.
LEMMA SeenRows ==
  ASSUME TypeInv, BatchSeen, Leaves, NEW s \in DOMAIN batch.seen
  PROVE  /\ s \in DOMAIN batch.rows /\ s \in Entries /\ Rows[s].id \in DOMAIN server
         /\ batch.seen[s] \in Nat /\ batch.seen[s] <= edits
         /\ RowOK(Rows[s], DOMAIN server)
<1>1. s \in DOMAIN batch.rows /\ "created" \notin Rows[s].flags /\ batch.seen[s] <= edits
  BY DEF BatchSeen, Rows
<1>2. RowOK(Rows[s], DOMAIN server) /\ s \in Entries
  BY <1>1, BatchFields DEF TypeInv, BatchInv, Rows
<1>3. batch.seen[s] \in Edits
  BY BatchFields DEF PartialTo, Range
<1>4. QED
  BY <1>1, <1>2, <1>3, KnownId DEF Edits

LEMMA BatchSeenWaits ==
  ASSUME TypeInv, KeyInv, BatchSeen, NEW held, App(held) \/ Others, UNCHANGED <<conf, batch>>
  PROVE  BatchSeen'
<1>1. ASSUME Leaves, NEW s \in DOMAIN batch.seen
      PROVE  /\ batch.seen[s] <= edits'
             /\ SeenIn(batch.rows[s], batch.seen[s], server)
                   => SeenIn(batch.rows[s], batch.seen[s], server')
  <2>1. batch.rows[s].id \in DOMAIN server /\ batch.seen[s] \in Nat /\ batch.seen[s] <= edits
    BY <1>1, SeenRows DEF Rows
  <2>2. batch.seen[s] <= edits'
    <3>1. edits <= edits' /\ edits \in Nat /\ edits' \in Nat
      BY EditsNat, AppEffect, OthersEffect
    <3>2. QED
      BY <2>1, <3>1
  <2>3. QED
    BY <2>1, <2>2, SeenStays
<1>2. QED
  BY <1>1, BatchSeenAfter DEF BatchSeen, Unsent, Rows

\* A request that is carried out on the record of a row is that of the row.
LEMMA OneWriterOK ==
  ASSUME TypeInv, KeyInv, IdInv, OneElementPerKey, OneWriter, NEW done \in SUBSET Requested,
         NEW r \in done, NEW s \in DOMAIN batch.rows, "created" \notin Rows[s].flags,
         ServerId(r, done) = Rows[s].id
  PROVE  r = s
<1>1. RowOK(Rows[s], DOMAIN server) /\ s \in Entries
  BY BatchFields DEF TypeInv, BatchInv, Rows
<1>2. Rows[s].id \in DOMAIN server /\ Rows[s].id \in Ids /\ Rows[s].id # LocalId
  BY <1>1, KnownId DEF TypeInv, TypeOK, RecordsTypeOK, Ids, LocalId
<1>3. ~IsNew(r)
  BY <1>2, NewIsUnknown DEF New
<1>4. server[Rows[s].id].key = Rows[r].key /\ r \in DOMAIN batch.rows /\ r \in Entries
  BY <1>3, KnownIds, RequestedOK, BatchFields
<1>5. Rows[s].key = server[Rows[s].id].key
  BY <1>2 DEF KeyInv, BatchKeys, Keyed, Rows
<1>6. CASE "down" \notin DownRuns
  BY <1>4, <1>5, <1>6 DEF OneElementPerKey, Rows
<1>7. CASE ~ExternalIds
  <2>1. ~Wants(Rows[r], "create")
    BY <1>3, <1>7 DEF IsNew, Created
  <2>2. Rows[r].id = Rows[s].id
    BY <1>3, <2>1, KnownIds
  <2>3. Holds(s, Rows[s].id) /\ Holds(r, Rows[s].id)
    BY <1>2, <1>4, <2>2 DEF Holds, Rows
  <2>4. QED
    BY <1>1, <1>2, <1>4, <1>7, <2>3 DEF IdInv
<1>8. QED
  BY <1>6, <1>7 DEF OneWriter

\* The kinds of a collection request go out in order: what is sent is of a kind
\* that was still to go out.
LEMMA RequestedKind ==
  ASSUME TypeInv, BatchSeen, Leaves, batch.pc = "send", NEW s \in Requested
  PROVE  /\ s \in batch.sending /\ Unsent(s)
         /\ Collection => NextKind \in 1 .. Len(RequestType)
                          /\ KindOf(Rows[s]) = RequestType[NextKind]
<1>1. s \in batch.sending /\ (Collection => KindOf(Rows[s]) = RequestType[NextKind])
  BY DEF Requested
<1>2. batch.kinds \in Nat /\ batch.kinds < Len(RequestType) /\ Len(RequestType) = 4
  BY BatchFields, Kinds DEF BatchSeen
<1>3. CASE Collection
  <2>1. KindsLeft \subseteq batch.kinds + 1 .. Len(RequestType)
    BY DEF KindsLeft
  <2>2. NextKind \in batch.kinds + 1 .. Len(RequestType)
    <3>1. CASE KindsLeft # {}
      <4>1. KindsLeft \in SUBSET Nat
        BY <1>2, <2>1
      <4>2. Min(KindsLeft) \in KindsLeft
        BY <3>1, <4>1, MinOf
      <4>3. QED
        BY <1>3, <2>1, <3>1, <4>2 DEF NextKind
    <3>2. CASE KindsLeft = {}
      BY <1>2, <3>2 DEF NextKind
    <3>3. QED
      BY <3>1, <3>2
  <2>3. QED
    BY <1>1, <1>2, <1>3, <2>2 DEF Unsent
<1>4. CASE ~Collection
  <2>1. batch.kinds = 0
    BY <1>4 DEF BatchSeen
  <2>2. KindOf(Rows[s]) \in {"create", "update", "upsert", "delete"}
    BY DEF KindOf
  <2>3. \E k \in 1 .. 4 : KindOf(Rows[s]) = RequestType[k]
    <3>1. RequestType[1] = "create" /\ RequestType[2] = "update" /\ RequestType[3] = "upsert"
          /\ RequestType[4] = "delete"
      BY DEF RequestType
    <3>2. 1 \in 1 .. 4 /\ 2 \in 1 .. 4 /\ 3 \in 1 .. 4 /\ 4 \in 1 .. 4
      OBVIOUS
    <3>3. QED
      BY <2>2, <3>1, <3>2
  <2>4. QED
    BY <1>1, <1>2, <1>4, <2>1, <2>3 DEF Unsent
<1>5. QED
  BY <1>3, <1>4

\* A request changes the records of its own rows, and those are not sent again.
LEMMA SendRequestsSeen ==
  ASSUME TypeInv, KeyInv, IdInv, OneElementPerKey, BatchSeen, SendRequests, conf' = conf
  PROVE  BatchSeen'
<1>1. CASE BatchEnds
  BY <1>1, BatchSeenFree DEF BatchEnds
<1>2. CASE ~BatchEnds /\ Leaves
  <2>1. PICK refused \in SUBSET Requested :
           CarriesOut(DoneOf(refused)) /\ AnswerSaved(refused)
    BY <1>2, SendRequestsEffect
  <2> DEFINE done == DoneOf(refused)
  <2>2. done \in SUBSET Requested /\ CarriesOut(done)
    BY <2>1, DoneRequested
  <2> HIDE DEF done
  <2>3. /\ batch'.rows = batch.rows /\ batch'.sending = batch.sending /\ batch'.todo = batch.todo
        /\ batch'.check = batch.check /\ batch'.seen = batch.seen /\ batch'.kinds = NextKind
        /\ batch'.pc \in {"send", "save"}
        /\ batch'.pc = "send" => Collection /\ \E k \in KindsLeft : k > NextKind
    BY <2>1 DEF AnswerSaved
  <2>4. batch.pc = "send" /\ edits' = edits
    BY SendRequestsEffect
  <2>5. NextKind \in 0 .. 4 /\ batch.kinds \in Nat /\ Len(RequestType) = 4
    BY NextKindOK, Kinds, BatchFields
  <2>6. batch'.pc = "send" => NextKind < 4
    <3>1. KindsLeft \subseteq batch.kinds + 1 .. 4
      BY <2>5 DEF KindsLeft
    <3>2. QED
      BY <2>3, <2>5, <3>1
  <2>7. ASSUME NEW s \in DOMAIN batch.seen, OneWriter,
               \/ s \in batch'.todo
               \/ /\ batch'.pc = "send" /\ s \in batch'.sending
                  /\ \E k \in batch'.kinds + 1 .. Len(RequestType) :
                        KindOf(batch'.rows[s]) = RequestType[k]
        PROVE  SeenIn(batch.rows[s], batch.seen[s], server')
    <3>1. s \in DOMAIN batch.rows /\ Rows[s].id \in DOMAIN server /\ "created" \notin Rows[s].flags
      BY <1>2, SeenRows DEF BatchSeen, Rows
    <3>2. s \notin done
      <4>1. CASE s \in batch.todo
        BY <1>2, <2>2, <4>1, RequestedOK DEF BatchSeen
      <4>2. CASE batch'.pc = "send" /\ \E k \in NextKind + 1 .. 4 : KindOf(Rows[s]) = RequestType[k]
        <5>1. PICK k \in NextKind + 1 .. 4 : KindOf(Rows[s]) = RequestType[k]
          BY <4>2
        <5>2. s \in Requested => RequestType[NextKind] = RequestType[k] /\ NextKind \in 1 .. 4
          BY <1>2, <2>3, <2>4, <2>5, <4>2, <5>1, RequestedKind
        <5>3. \A i, j \in 1 .. 4 : i < j => RequestType[i] # RequestType[j]
          BY DEF RequestType
        <5>4. QED
          BY <2>2, <2>5, <5>1, <5>2, <5>3
      <4>3. QED
        BY <2>3, <2>5, <2>7, <4>1, <4>2 DEF Rows
    <3>3. \A r \in done : ServerId(r, done) # Rows[s].id
      BY <2>2, <2>7, <3>1, <3>2, OneWriterOK
    <3>4. server'[Rows[s].id] = server[Rows[s].id]
      BY <2>2, <3>1, <3>3, CarriesOutEffect
    <3>5. SeenIn(batch.rows[s], batch.seen[s], server)
      <4>1. Unsent(s)
        <5>1. CASE s \in batch.todo
          BY <5>1 DEF Unsent
        <5>2. CASE /\ batch'.pc = "send" /\ s \in batch.sending
                   /\ \E k \in NextKind + 1 .. 4 : KindOf(Rows[s]) = RequestType[k]
          <6>1. KindsLeft \subseteq batch.kinds + 1 .. 4 /\ KindsLeft # {}
            BY <2>3, <2>5, <5>2 DEF KindsLeft
          <6>2. NextKind \in KindsLeft
            <7>1. KindsLeft \in SUBSET Nat
              BY <2>5, <6>1
            <7>2. QED
              BY <2>3, <5>2, <6>1, <7>1, MinOf DEF NextKind
          <6>3. QED
            BY <2>4, <2>5, <5>2, <6>1, <6>2 DEF Unsent
        <5>3. QED
          BY <2>3, <2>5, <2>7, <5>1, <5>2 DEF Rows
      <4>2. QED
        BY <1>2, <2>7, <4>1 DEF BatchSeen
    <3>6. QED
      BY <3>4, <3>5 DEF SeenIn, Rows
  <2>8. QED
    BY <1>2, <2>3, <2>4, <2>5, <2>6, <2>7, BatchSeenAfter DEF BatchSeen
<1>3. CASE ~Leaves
  BY <1>3, BatchSeenAfter
<1>4. QED
  BY <1>1, <1>2, <1>3

\* With LEAVE_IF_CHANGED no record is created anew, and what is saved keeps or loses
\* its flags.
LEMMA SaveAnswerSeen ==
  ASSUME TypeInv, BatchSeen, SaveAnswer, conf' = conf
  PROVE  BatchSeen'
<1>1. CASE Leaves
  <2>1. UNCHANGED <<server, edits>> /\ batch.pc = "save"
    BY SaveAnswerEffect
  <2>2. PICK s \in batch.unsaved :
           /\ s \in batch.sending /\ s \in DOMAIN batch.rows /\ Rows[s] \in Row
           /\ RowSaved(s, Rows[s]) \/ RowSaved(s, CleanRow(s))
    <3>1. \A s : ~Recreates(s)
      BY <1>1 DEF Recreates, Leaves
    <3>2. QED
      BY <3>1, SaveAnswerEffect
  <2>3. PICK row : RowSaved(s, row) /\ row \in {Rows[s], CleanRow(s)}
    BY <2>2
  <2>4. row.flags \subseteq Rows[s].flags
    <3>1. CleanRow(s).flags = {}
      BY <2>2 DEF CleanRow, Row
    <3>2. QED
      BY <2>3, <3>1
  <2>5. /\ batch'.sending = batch.sending /\ batch'.todo = batch.todo /\ batch'.pc = "save"
        /\ batch'.check = batch.check /\ batch'.seen = batch.seen
        /\ batch'.rows = [batch.rows EXCEPT ![s] = row]
    BY <2>1, <2>3 DEF RowSaved
  <2>6. ASSUME NEW r \in DOMAIN batch.seen
        PROVE  /\ r \in DOMAIN batch'.rows /\ "created" \notin batch'.rows[r].flags
               /\ batch.seen[r] <= edits'
               /\ OneWriter /\ r \in batch.todo => SeenIn(batch'.rows[r], batch.seen[r], server')
    <3>1. /\ r \in DOMAIN batch.rows /\ "created" \notin batch.rows[r].flags
          /\ batch.seen[r] <= edits
          /\ OneWriter /\ r \in batch.todo => SeenIn(batch.rows[r], batch.seen[r], server)
      BY <1>1 DEF BatchSeen, Unsent
    <3>2. r \in DOMAIN batch'.rows /\ "created" \notin batch'.rows[r].flags
      BY <2>4, <2>5, <3>1 DEF Rows
    <3>3. r \in batch.todo => batch'.rows[r] = batch.rows[r]
      BY <1>1, <2>2, <2>5, <3>1 DEF BatchSeen
    <3>4. QED
      BY <2>1, <3>1, <3>2, <3>3
  <2>7. QED
    BY <1>1, <2>1, <2>5, <2>6, BatchSeenAfter DEF BatchSeen
<1>2. CASE ~Leaves
  BY <1>2, BatchSeenAfter
<1>3. QED
  BY <1>1, <1>2

\* The dates that are compared are those of rows that were not seen before.
LEMMA CheckModDatesSeen ==
  ASSUME TypeInv, KeyInv, BatchSeen, CheckModDates, conf' = conf
  PROVE  BatchSeen'
<1> DEFINE asked == IF Collection THEN batch.check ELSE {Min(batch.check)}
           dates(result) == [s \in result |-> server[Rows[s].id].edit]
<1>1. UNCHANGED <<edits, server>> /\ batch.pc = "check"
  BY DEF CheckModDates, recordVars
<1>2. asked \subseteq batch.check
  <2>1. batch.check \in SUBSET Nat /\ batch.check # {}
    BY BatchFields DEF CheckModDates, Entries
  <2>2. QED
    BY <2>1, MinOf
<1>3. ASSUME Leaves, NEW result \in SUBSET asked,
             batch' = [batch EXCEPT !.check = @ \ asked, !.todo = @ \union result,
                                    !.seen = Merge(@, dates(result))],
             \A s \in result : SeenIn(Rows[s], server[Rows[s].id].edit, server)
      PROVE  BatchSeen'
  <2>1. \A s \in result : s \in DOMAIN batch.rows /\ "created" \notin batch.rows[s].flags
                          /\ s \in batch.check /\ Rows[s].id \in DOMAIN server
    <3>1. \A s \in result : s \in DOMAIN batch.rows /\ RowOK(batch.rows[s], DOMAIN server)
                            /\ "created" \notin batch.rows[s].flags /\ s \in batch.check
      BY <1>2 DEF TypeInv, BatchInv, Pending
    <3>2. QED
      BY <3>1, KnownId DEF Rows
  <2> DEFINE seen == Merge(batch.seen, dates(result))
  <2> HIDE DEF asked
  <2>2. /\ DOMAIN seen = DOMAIN batch.seen \union result
        /\ \A s \in DOMAIN batch.seen : seen[s] = batch.seen[s]
        /\ \A s \in result \ DOMAIN batch.seen : seen[s] = server[Rows[s].id].edit
    <3>1. DOMAIN dates(result) = result
          /\ \A s \in result : dates(result)[s] = server[Rows[s].id].edit
      OBVIOUS
    <3>2. QED
      BY <3>1 DEF Merge
  <2> HIDE DEF dates, seen
  <2>3. /\ batch'.check = batch.check \ asked /\ batch'.todo = batch.todo \union result
        /\ batch'.seen = seen /\ batch'.pc = "check" /\ batch'.rows = batch.rows
        /\ batch'.sending = {} /\ batch'.kinds = 0
    <3>1. batch.sending = {} /\ batch.kinds = 0
      BY <1>1, <1>3 DEF TypeInv, BatchInv, BatchSeen
    <3>2. batch' = [batch EXCEPT !.check = @ \ asked, !.todo = @ \union result, !.seen = seen]
      BY <1>3 DEF seen
    <3>3. QED
      BY <1>1, <3>1, <3>2, BatchFields
  <2>4. batch.check \intersect DOMAIN batch.seen = {}
    BY <1>3 DEF BatchSeen
  <2>5. batch'.check \intersect DOMAIN seen = {}
    BY <1>2, <1>3, <2>2, <2>3, <2>4
  <2>6. ASSUME NEW s \in DOMAIN seen
        PROVE  /\ s \in DOMAIN batch.rows /\ "created" \notin batch.rows[s].flags
               /\ seen[s] <= edits
               /\ OneWriter /\ s \in batch'.todo => SeenIn(batch.rows[s], seen[s], server)
    <3>1. CASE s \in result
      <4>1. seen[s] = server[Rows[s].id].edit
        BY <2>1, <2>2, <2>4, <3>1
      <4>2. server[Rows[s].id].edit <= edits
        BY <2>1, <3>1 DEF KeyInv, ServerKeys, Numbered
      <4>3. QED
        BY <1>3, <2>1, <3>1, <4>1, <4>2 DEF Rows
    <3>2. CASE s \in DOMAIN batch.seen /\ s \notin result
      <4>1. seen[s] = batch.seen[s] /\ (s \in batch'.todo => s \in batch.todo)
        BY <2>2, <2>3, <3>2
      <4>2. QED
        BY <1>3, <3>2, <4>1 DEF BatchSeen, Unsent
    <3>3. QED
      BY <2>2, <3>1, <3>2
  <2>7. \A s \in DOMAIN batch'.seen :
            /\ s \in DOMAIN batch'.rows /\ "created" \notin batch'.rows[s].flags
            /\ batch'.seen[s] <= edits'
            /\ OneWriter /\ s \in batch'.todo => SeenIn(batch'.rows[s], batch'.seen[s], server')
    BY <1>1, <2>3, <2>6
  <2>8. QED
    BY <2>3, <2>5, <2>7, BatchSeenAfter
<1>4. ASSUME NEW s \in asked
      PROVE  /\ IsNewer(Rows[s], server[Rows[s].id])
                   => SeenIn(Rows[s], server[Rows[s].id].edit, server)
             /\ Rows[s].mod = NoDate => SeenIn(Rows[s], server[Rows[s].id].edit, server)
  <2>1. RowOK(Rows[s], DOMAIN server) /\ Rows[s].id \in DOMAIN server
    <3>1. s \in DOMAIN batch.rows /\ RowOK(batch.rows[s], DOMAIN server)
          /\ "created" \notin batch.rows[s].flags
      BY <1>2 DEF TypeInv, BatchInv, Pending
    <3>2. QED
      BY <3>1, KnownId DEF Rows
  <2>2. Rows[s].mod \in Nat /\ server[Rows[s].id].mod \in Nat
    BY <2>1, ServerRecordOK DEF RowOK, Row, Record, Dates, NoDate
  <2>3. QED
    BY <2>2 DEF IsNewer, SeenIn
<1>5. CASE BatchEnds
  BY <1>5, BatchSeenFree DEF BatchEnds
<1>6. CASE ~Leaves
  BY <1>6, BatchSeenAfter
<1>7. CASE Leaves /\ ~BatchEnds
  <2> DEFINE newer == {s \in asked : IsNewer(Rows[s], server[Rows[s].id])}
             undated == {s \in asked : Rows[s].mod = NoDate}
  <2>1. PICK result \in {newer, undated} :
             batch' = [batch EXCEPT !.check = @ \ asked, !.todo = @ \union result,
                                    !.seen = Merge(@, dates(result))]
    BY <1>7 DEF CheckModDates
  <2>2. result \in SUBSET asked
    BY <2>1
  <2>3. \A s \in result : SeenIn(Rows[s], server[Rows[s].id].edit, server)
    BY <1>4, <2>1
  <2>4. QED
    BY <1>3, <1>7, <2>1, <2>2, <2>3
<1>8. QED
  BY <1>5, <1>6, <1>7

LEMMA BatchReadsSeen ==
  ASSUME TypeInv, KeyInv, BatchSeen, conf' = conf,
         \/ StartBatchSyncUp \/ ReadRecords \/ CheckModDates \/ CheckedModDates
         \/ FillBatch \/ NextBatch \/ EndBatchSyncUp
  PROVE  BatchSeen'
<1>1. UNCHANGED recordVars /\ server' = server /\ edits' = edits
  BY BatchReadsKeys DEF recordVars
<1>2. CASE StartBatchSyncUp \/ BatchEnds
  BY <1>2, BatchSeenFree DEF StartBatchSyncUp, BatchEnds
<1>3. CASE ~Leaves
  BY <1>3, BatchSeenAfter
<1>4. CASE Leaves /\ ReadRecords
  <2> DEFINE found == batch.left \intersect DOMAIN soup
             asked == {s \in found : UpMergeMode = "LEAVE_IF_CHANGED"
                                     /\ "created" \notin soup[s].flags}
             rows == Restrict(soup, found)
             missing == found # batch.left
  <2>1. /\ batch.pc = "read"
        /\ batch' = [batch EXCEPT !.pc = "check", !.left = {}, !.rows = rows,
                                  !.missing = missing,
                                  !.check = asked, !.todo = found \ asked]
    BY <1>4 DEF ReadRecords
  <2> HIDE DEF found, asked, rows, missing
  <2>2. batch.seen = None /\ batch.sending = {} /\ batch.kinds = 0
    BY <1>4, <2>1 DEF BatchSeen, TypeInv, BatchInv
  <2>3. batch'.pc = "check" /\ batch'.seen = None /\ batch'.sending = {} /\ batch'.kinds = 0
    BY <2>1, <2>2, BatchFields
  <2>4. QED
    BY <2>3, EmptyPartial, BatchSeenAfter
<1>5. CASE Leaves /\ CheckModDates
  BY <1>5, CheckModDatesSeen
<1>6. CASE Leaves /\ CheckedModDates
  <2>1. batch.pc = "check" /\ batch' = [batch EXCEPT !.pc = "fill"]
    BY <1>6 DEF CheckedModDates
  <2>2. /\ batch'.pc = "fill" /\ batch'.todo = batch.todo /\ batch'.sending = batch.sending
        /\ batch'.check = batch.check /\ batch'.seen = batch.seen /\ batch'.kinds = batch.kinds
        /\ batch'.rows = batch.rows
    BY <2>1, BatchFields
  <2>3. \A s \in DOMAIN batch'.seen :
            /\ s \in DOMAIN batch'.rows /\ "created" \notin batch'.rows[s].flags
            /\ batch'.seen[s] <= edits'
            /\ OneWriter /\ s \in batch'.todo => SeenIn(batch'.rows[s], batch'.seen[s], server')
    BY <1>1, <1>6, <2>2 DEF BatchSeen, Unsent
  <2>4. QED
    BY <1>6, <2>1, <2>2, <2>3, BatchSeenAfter DEF BatchSeen
<1>7. CASE Leaves /\ FillBatch /\ ~BatchEnds
  <2> DEFINE next == FirstOf(batch.todo)
  <2>1. /\ batch.pc = "fill"
        /\ batch' = [batch EXCEPT !.pc = "send", !.todo = @ \ next, !.sending = next]
    BY <1>7 DEF FillBatch
  <2>2. next \subseteq batch.todo
    BY DEF FirstOf
  <2> HIDE DEF next
  <2>3. /\ batch'.pc = "send" /\ batch'.todo = batch.todo \ next /\ batch'.sending = next
        /\ batch'.check = batch.check /\ batch'.seen = batch.seen /\ batch'.kinds = batch.kinds
        /\ batch'.rows = batch.rows
    BY <2>1, BatchFields
  <2>4. \A s \in DOMAIN batch'.seen :
            /\ s \in DOMAIN batch'.rows /\ "created" \notin batch'.rows[s].flags
            /\ batch'.seen[s] <= edits'
            /\ OneWriter /\ s \in batch'.todo \union batch'.sending
                  => SeenIn(batch'.rows[s], batch'.seen[s], server')
    BY <1>1, <1>7, <2>2, <2>3 DEF BatchSeen, Unsent
  <2>5. batch.kinds = 0
    BY <1>7, <2>1 DEF BatchSeen
  <2>6. QED
    BY <1>7, <2>2, <2>3, <2>4, <2>5, Kinds, BatchSeenAfter DEF BatchSeen
<1>8. CASE Leaves /\ NextBatch
  <2> DEFINE rows == Restrict(batch.rows, batch.todo)
             seen == Restrict(batch.seen, DOMAIN batch.seen \intersect batch.todo)
  <2>1. /\ batch.pc = "save"
        /\ batch' = [batch EXCEPT !.pc = "fill", !.rows = rows, !.sending = {},
                              !.kinds = 0, !.answers = None, !.ids = None, !.reRun = FALSE,
                              !.seen = seen]
    BY <1>8 DEF NextBatch
  <2>2. /\ DOMAIN rows = batch.todo /\ \A s \in batch.todo : rows[s] = batch.rows[s]
        /\ DOMAIN seen = DOMAIN batch.seen \intersect batch.todo
        /\ \A s \in DOMAIN seen : seen[s] = batch.seen[s]
    BY DEF Restrict
  <2> HIDE DEF rows, seen
  <2>3. /\ batch'.pc = "fill" /\ batch'.todo = batch.todo /\ batch'.sending = {}
        /\ batch'.check = batch.check /\ batch'.seen = seen /\ batch'.kinds = 0
        /\ batch'.rows = rows
    BY <2>1, BatchFields
  <2>4. batch.check = {}
    BY <2>1 DEF TypeInv, BatchInv
  <2>5. \A s \in DOMAIN batch'.seen :
            /\ s \in DOMAIN batch'.rows /\ "created" \notin batch'.rows[s].flags
            /\ batch'.seen[s] <= edits'
            /\ OneWriter /\ s \in batch'.todo => SeenIn(batch'.rows[s], batch'.seen[s], server')
    BY <1>1, <1>8, <2>2, <2>3 DEF BatchSeen, Unsent
  <2>6. QED
    BY <2>3, <2>4, <2>5, BatchSeenAfter
<1>9. QED
  BY <1>2, <1>3, <1>4, <1>5, <1>6, <1>7, <1>8 DEF EndBatchSyncUp

LEMMA BatchSeenNext ==
  ASSUME TypeInv, KeyInv, IdInv, OneElementPerKey, BatchSeen, [Next]_vars
  PROVE  BatchSeen'
<1>1. CASE UNCHANGED vars
  BY <1>1, BatchSeenAfter DEF vars, recordVars, BatchSeen, Unsent, Rows
<1>2. CASE Next
  <2>1. conf' = conf
    BY <1>2 DEF Next
  <2>2. CASE BatchStep
    BY <2>1, <2>2, BatchReadsSeen, SendRequestsSeen, SaveAnswerSeen DEF BatchStep
  <2>3. CASE (App(Held) \/ Others) /\ UNCHANGED <<up, batch, sync, down>>
    BY <2>1, <2>3, BatchSeenWaits
  <2>4. CASE batch' = IdleBatch
    BY <2>1, <2>4, BatchSeenFree
  <2>5. CASE UNCHANGED batch /\ (conf.target = "single" \/ UpIdle)
    <3>1. batch.pc = "idle"
      BY <2>5, IdleBatchFields DEF TypeInv, TargetInv, UpIdle
    <3>2. CASE Leaves
      <4>1. batch.seen = None /\ DOMAIN None = {}
        BY <3>1, <3>2, EmptyPartial DEF BatchSeen
      <4>2. QED
        BY <2>1, <2>5, <3>1, <3>2, <4>1, BatchSeenAfter DEF BatchSeen
    <3>3. QED
      BY <2>1, <3>2, BatchSeenAfter
  <2>6. QED
    BY <1>2, <2>2, <2>3, <2>4, <2>5 DEF Next, Worker, Crash, BatchEnds
<1>3. QED
  BY <1>1, <1>2

\* As LeavesChangedCorrect, for records that are sent in batches, when an id of the
\* server belongs to one element.  (With an external id field and sync downs two rows
\* of a batch may have one key, and the request for the one replaces what the other
\* has seen.)
THEOREM BatchLeavesChangedCorrect ==
    Spec => (~ExternalIds \/ "down" \notin DownRuns => BatchLeavesChanged)
<1> DEFINE Inv == TypeInv /\ KeyInv /\ IdInv /\ OneElementPerKey /\ BatchSeen
           Step == UpMergeMode = "LEAVE_IF_CHANGED" /\ batch.pc = "send" /\ batch' # batch =>
                      \A s \in batch.sending \intersect DOMAIN batch.seen :
                         LET r == server[Rows[s].id] IN
                         server'[Rows[s].id] # r /\ Rows[s].mod # NoDate
                            /\ r.edit = batch.seen[s] => r.mod <= Rows[s].mod
<1>1. Init => Inv
  <2>1. Init => BatchSeen
    BY IdleBatchFields, EmptyPartial, Kinds DEF Init, BatchInit, BatchSeen
  <2>2. QED
    BY <2>1, InitInv, KeysInit, IdsInit, ElementsInit
<1>2. Inv /\ [Next]_vars => Inv'
  BY NextInv, KeysNext, IdsNext, ElementsNext, BatchSeenNext
<1>3. Inv /\ OneWriter /\ [Next]_vars => [Step]_<<batch, server>>
  <2> SUFFICES ASSUME Inv, OneWriter, [Next]_vars, Leaves, batch.pc = "send", batch' # batch,
                      NEW s \in batch.sending \intersect DOMAIN batch.seen,
                      server'[Rows[s].id] # server[Rows[s].id], Rows[s].mod # NoDate,
                      server[Rows[s].id].edit = batch.seen[s]
               PROVE  server[Rows[s].id].mod <= Rows[s].mod
    BY DEF Leaves
  <2>1. SendRequests
    <3>1. ~Crash
      BY DEF Crash, recordVars
    <3>2. ~UpIdle
      BY DEF UpIdle
    <3>3. BatchStep
      BY <3>1, <3>2 DEF Next, Worker, vars
    <3>4. QED
      BY <3>3 DEF BatchStep, StartBatchSyncUp, ReadRecords, CheckModDates, CheckedModDates,
                  FillBatch, SaveAnswer, NextBatch, EndBatchSyncUp
  <2>2. PICK refused \in SUBSET Requested : CarriesOut(DoneOf(refused))
    BY <2>1, SendRequestsEffect DEF Unchanged
  <2>3. s \in DOMAIN batch.rows /\ Rows[s].id \in DOMAIN server /\ "created" \notin Rows[s].flags
    BY SeenRows DEF BatchSeen, Rows
  <2>4. DoneOf(refused) \in SUBSET Requested
    BY DoneRequested
  <2>5. s \in DoneOf(refused)
    <3>1. Rows[s].id \in DOMAIN server'
      BY <2>3, KeysNext DEF Keeps, KeysKept
    <3>2. PICK r \in DoneOf(refused) : Rows[s].id = ServerId(r, DoneOf(refused))
      BY <2>2, <2>4, <3>1, CarriesOutEffect
    <3>3. QED
      BY <2>3, <2>4, <3>2, OneWriterOK
  <2>6. server[Rows[s].id].live
    BY <2>3, <2>5 DEF DoneOf, GoneOf, Gone, Wants
  <2>7. Unsent(s)
    BY <2>4, <2>5, RequestedKind
  <2>8. SeenIn(Rows[s], batch.seen[s], server)
    BY <2>7 DEF BatchSeen, Rows
  <2>9. QED
    BY <2>6, <2>8 DEF SeenIn
<1>4. OneWriter /\ [Next]_vars => OneWriter'
  BY DEF Next, vars, OneWriter, ExternalIds, DownRuns
<1> HIDE DEF Inv
<1>5. Spec => (OneWriter => BatchLeavesChanged)
  BY <1>1, <1>2, <1>3, <1>4, PTL DEF Spec, BatchLeavesChanged
<1>6. QED
  BY <1>5 DEF OneWriter
----------------------------------------------------------------------------
\* What the next sync down may rely on, when every change has a date of its own.

\* Changes in one second have one date; an element the application has given up is
\* not fetched again; a sorted sync down that fails goes on after its last date, of
\* which it may have had only some records.
Resumes ==
    /\ "ties" \notin Ops /\ "app_purge" \notin Ops
    /\ Sorted => ~ExternalIds /\ "FAILED" \notin DownEnds

\* A record that has been deleted, or was never there; one whose change is later
\* than a date.
Dead(i, known)      == i \in DOMAIN known => ~known[i].live
Safe(i, known, max) == i \in DOMAIN known /\ known[i].live => known[i].mod > max

\* No date is later than the clock of the server.
DatesInv ==
    /\ \A i \in DOMAIN server : server[i].mod <= clock
    /\ sync.max <= clock /\ down.max <= clock /\ down.syncMax <= clock
    /\ \A x \in down.page \union down.rest : x.record.mod <= clock

\* An element to be created has no record, or one that was deleted.
SoupDates == \A s \in DOMAIN soup : "created" \in soup[s].flags => Dead(soup[s].id, server)

\* The element in hand has the id of the copy, and when it has been sent, the record
\* with that id is gone or later than the last sync down.
UpDates ==
    /\ up.pc = "idle" => up.left = {}
    /\ \A s \in up.left : s \in DOMAIN soup => IsDirty(soup[s])
    /\ up.pc \in InHand =>
          /\ up.entry \notin up.left /\ IsDirty(up.row)
          /\ up.entry \in DOMAIN soup => soup[up.entry].id = up.row.id
          /\ "created" \in up.row.flags \/ up.pc = "recreate" => Dead(up.row.id, server)
    /\ up.pc = "save" /\ up.answer # "refused" => Safe(up.row.id, server, sync.max)

BatchDates ==
    /\ \A s \in DOMAIN batch.rows :
          /\ s \in DOMAIN soup => soup[s].id = batch.rows[s].id
          /\ "created" \in batch.rows[s].flags => Dead(batch.rows[s].id, server)
    /\ \A s \in batch.unsaved : IsDirty(batch.rows[s])
    /\ \A s \in DOMAIN batch.answers :
          /\ s \in DOMAIN batch.rows
          /\ batch.answers[s] = "ok" => Safe(batch.rows[s].id, server, sync.max)
          /\ batch.answers[s] = "gone" => Dead(batch.rows[s].id, server)
    /\ \A s \in DOMAIN batch.ids : Safe(batch.ids[s], server, sync.max)

BatchIdle == batch.pc = "idle" => batch = IdleBatch

\* The soup has all the records up to a date.
HasUpTo(date) == \A i \in Live : server[i].mod <= date => Has(i)

\* What a sync down has fetched and not saved; a record that was changed after that.
Fetching == {"prepare", "save", "saved", "fetch"}
Unsaved  == down.rest \union IF down.pc \in {"prepare", "save"} THEN down.page ELSE {}
Late(i)  == server[i].mod > down.max /\ \A x \in Unsaved : server[i].mod > x.record.mod

\* The dates of a run, and its pages, the older first when they are sorted.
RunDates ==
    /\ down.pc \in Fetching \union {"start"} =>
          /\ sync.status = "RUNNING"
          /\ sync.max <= down.syncMax /\ down.syncMax <= down.max
          /\ Sorted => down.syncMax = down.max
    /\ down.pc \in Fetching =>
          \A x \in Unsaved :
             x.record.mod > down.syncMax \/ (Sorted /\ x.record.mod >= down.max)
    /\ Sorted /\ down.pc \in {"prepare", "save"} =>
          \A x \in down.page, y \in down.rest : x.record.mod <= y.record.mod

\* A record that is skipped has a change to send.
SkipInv ==
    down.pc \in {"save", "saved", "fetch"} =>
        \A i \in down.skip \ {LocalId} : \E s \in EntriesOf(i) : IsDirty(soup[s])

\* A record of the server is in the soup, or on its way there, or too late for this
\* run and its date.
RunInv ==
    /\ down.pc = "start" => \A date \in Nat : date <= down.max => HasUpTo(date)
    /\ down.pc \in {"idle", "list", "ghosts"} =>
          \A date \in Nat : date <= ResumeFrom => HasUpTo(date)
    /\ down.pc \in Fetching =>
          /\ \A x \in Unsaved : x.id \in Live => x.record = server[x.id] \/ Late(x.id)
          /\ \A i \in Live : (\E x \in Unsaved : x.id = i) \/ Has(i) \/ Late(i)

ResumeInv ==
    Resumes => /\ DatesInv /\ SoupDates /\ UpDates /\ BatchDates /\ BatchIdle
               /\ RunDates /\ SkipInv /\ RunInv
----------------------------------------------------------------------------
\* What a step does to the records of the server: the date of a change is later
\* than all dates so far.
Dated ==
    /\ clock \in Nat /\ clock' \in Nat /\ clock <= clock'
    /\ \A i \in DOMAIN server' :
          \/ i \in DOMAIN server /\ server'[i] = server[i]
          \/ clock < clock' /\ server'[i].mod = clock'

LEMMA NotDated ==
  ASSUME TypeInv, UNCHANGED <<server, clock>>
  PROVE  Dated
BY DEF Dated, TypeInv, TypeOK, RecordsTypeOK, Dates

LEMMA NoTies ==
  ASSUME TypeInv, "ties" \notin Ops, NEW t \in Ticks
  PROVE  clock \in Nat /\ t \in Nat /\ clock < t
BY DEF Ticks, TypeInv, TypeOK, RecordsTypeOK, Dates

LEMMA WriteIsDated ==
  ASSUME TypeInv, "ties" \notin Ops, NEW i \in Ids, NEW r \in Record, NEW t \in Ticks,
         ServerWrites(i, r, t)
  PROVE  /\ Dated /\ clock < clock' /\ DOMAIN server' = DOMAIN server \union {i}
         /\ server'[i].mod = clock' /\ server'[i].live = r.live
<1>1. /\ DOMAIN server' = DOMAIN server \union {i}
      /\ \A j \in DOMAIN server : j # i => server'[j] = server[j]
      /\ server'[i] = [r EXCEPT !.mod = t] /\ clock' = t
  BY ServerWritesOK DEF TypeInv, TypeOK
<1>2. server'[i].mod = t /\ server'[i].live = r.live
  BY <1>1 DEF Record
<1>3. clock \in Nat /\ t \in Nat /\ clock < t
  BY NoTies
<1>4. clock < clock' /\ server'[i].mod = clock' /\ server'[i].live = r.live
  BY <1>1, <1>2, <1>3
<1>5. \A j \in DOMAIN server' :
         \/ j \in DOMAIN server /\ server'[j] = server[j]
         \/ clock < clock' /\ server'[j].mod = clock'
  BY <1>1, <1>4
<1>6. clock' \in Nat /\ clock <= clock'
  BY <1>1, <1>3
<1>7. QED
  BY <1>1, <1>3, <1>4, <1>5, <1>6 DEF Dated

LEMMA OthersDated ==
  ASSUME TypeInv, KeyInv, "ties" \notin Ops, Others
  PROVE  Dated
<1>1. clock \in Nat /\ clock' \in Nat /\ clock < clock'
  BY OthersEffect, NoTies
<1>2. QED
  BY <1>1, OthersEffect DEF Dated

\* The record in hand has been answered for: it was to be created, or the server has
\* just written or deleted it.
AnsweredFor(id) ==
    \/ "created" \in up.row.flags \/ up.pc = "recreate"
    \/ /\ id \in DOMAIN server'
       /\ server'[id].live => server'[id].mod = clock' /\ clock < clock'

LEMMA CreateDates ==
  ASSUME TypeInv, KeyInv, "ties" \notin Ops, CreateOnServer
  PROVE  /\ Dated /\ soup' = soup
         /\ \/ UpNextRecord \/ UpEnds
            \/ /\ up.pc \in {"send", "recreate"}
               /\ \E answer \in Answer : \E id :
                     Answered(answer, id) /\ (answer # "refused" => AnsweredFor(up.row.id))
<1>1. up.pc \in {"send", "recreate"} /\ up.pc \in InHand /\ soup' = soup
  BY DEF CreateOnServer, InHand
<1>2. up.row \in Row
  BY <1>1, UpRecordOK
<1>3. up.pc = "recreate" \/ "created" \in up.row.flags
  BY DEF CreateOnServer, Wants
<1>4. ASSUME NEW i \in Created(up.row), NEW t \in Ticks,
             ServerWrites(i, [live |-> TRUE, edit |-> up.row.edit, mod |-> t,
                              key |-> up.row.key], t),
             Accepted(i)
      PROVE  Dated /\ (Answered("ok", i) \/ UpEnds)
  <2> DEFINE r == [live |-> TRUE, edit |-> up.row.edit, mod |-> t, key |-> up.row.key]
  <2>1. t \in Dates /\ i \in Ids
    BY Bounds DEF Ticks, Dates, Created, UnusedId, Live, TypeInv, TypeOK, RecordsTypeOK
  <2>2. r \in Record
    BY <1>2, <2>1 DEF Record, Row
  <2> HIDE DEF r
  <2>3. ServerWrites(i, r, t)
    BY <1>4 DEF r
  <2>4. QED
    BY <1>4, <2>1, <2>2, <2>3, WriteIsDated DEF Accepted
<1>5. CASE UNCHANGED <<server, clock>> /\ (Answered("refused", LocalId) \/ UpNextRecord \/ UpEnds)
  BY <1>1, <1>5, NotDated DEF Answer
<1>6. QED
  BY <1>1, <1>3, <1>4, <1>5 DEF CreateOnServer, Refused, Unchanged, Answer, AnsweredFor

LEMMA UpdateDates ==
  ASSUME TypeInv, KeyInv, "ties" \notin Ops, UpdateOnServer
  PROVE  /\ Dated /\ soup' = soup
         /\ \/ UpNextRecord \/ UpEnds
            \/ /\ up' = [up EXCEPT !.pc = "recreate"] /\ up.pc = "send" /\ server' = server
               /\ ~server[up.row.id].live
            \/ /\ up.pc = "send"
               /\ \E answer \in Answer : \E id :
                     Answered(answer, id) /\ (answer # "refused" => AnsweredFor(up.row.id))
<1> DEFINE i == up.row.id
<1>1. soup' = soup /\ up.pc = "send" /\ up.pc \in InHand /\ Wants(up.row, "update")
  BY DEF UpdateOnServer, InHand
<1>2. i \in DOMAIN server
  BY <1>1, WantedId DEF Wants
<1>3. up.row \in Row
  BY <1>1, UpRecordOK
<1>4. ASSUME NEW t \in Ticks, ServerWrites(i, [server[i] EXCEPT !.edit = up.row.edit], t),
             Accepted(i)
      PROVE  /\ Dated /\ (Answered("ok", i) \/ UpEnds)
             /\ i \in DOMAIN server' /\ server'[i].mod = clock' /\ clock < clock'
  <2> DEFINE r == [server[i] EXCEPT !.edit = up.row.edit]
  <2>1. i \in Ids /\ server[i] \in Record
    BY <1>2, ServerRecordOK
  <2> HIDE DEF i
  <2>2. r \in Record
    BY <1>3, <2>1 DEF Record, Row
  <2> HIDE DEF r
  <2>3. ServerWrites(i, r, t)
    BY <1>4 DEF r
  <2>4. QED
    BY <1>4, <2>1, <2>2, <2>3, WriteIsDated DEF Accepted
<1>5. CASE UNCHANGED <<server, clock>> /\ (Answered("refused", LocalId) \/ UpNextRecord \/ UpEnds)
  BY <1>1, <1>5, NotDated DEF Answer
<1>6. CASE UNCHANGED <<server, clock>> /\ up' = [up EXCEPT !.pc = "recreate"]
           /\ ~server[up.row.id].live
  BY <1>1, <1>6, NotDated
<1>7. QED
  BY <1>1, <1>4, <1>5, <1>6 DEF UpdateOnServer, Refused, Unchanged, Answer, AnsweredFor

LEMMA DeleteDates ==
  ASSUME TypeInv, KeyInv, "ties" \notin Ops, DeleteOnServer
  PROVE  /\ Dated /\ soup' = soup
         /\ \/ UpNextRecord \/ UpEnds
            \/ /\ up.pc = "send"
               /\ \E answer \in Answer : \E id :
                     Answered(answer, id) /\ (answer # "refused" => AnsweredFor(up.row.id))
<1> DEFINE i == up.row.id
<1>1. soup' = soup /\ up.pc = "send" /\ up.pc \in InHand
  BY DEF DeleteOnServer, InHand
<1>2. "created" \notin up.row.flags => i \in DOMAIN server
  BY <1>1, WantedId
<1>3. ASSUME "created" \notin up.row.flags,
             NEW t \in Ticks, ServerWrites(i, [server[i] EXCEPT !.live = FALSE], t),
             Accepted(i)
      PROVE  /\ Dated /\ (Answered("ok", i) \/ UpEnds)
             /\ i \in DOMAIN server' /\ server'[i].mod = clock' /\ clock < clock'
  <2> DEFINE r == [server[i] EXCEPT !.live = FALSE]
  <2>1. i \in Ids /\ server[i] \in Record
    BY <1>2, <1>3, ServerRecordOK
  <2> HIDE DEF i
  <2>2. r \in Record
    BY <2>1 DEF Record
  <2> HIDE DEF r
  <2>3. ServerWrites(i, r, t)
    BY <1>3 DEF r
  <2>4. QED
    BY <1>3, <2>1, <2>2, <2>3, WriteIsDated DEF Accepted
<1>4. CASE UNCHANGED <<server, clock>> /\ (Answered("refused", LocalId) \/ UpNextRecord \/ UpEnds)
  BY <1>1, <1>4, NotDated DEF Answer
<1>5. CASE UNCHANGED <<server, clock>> /\ "created" \in up.row.flags /\ Answered("gone", LocalId)
  BY <1>1, <1>5, NotDated DEF Answer, AnsweredFor
<1>6. CASE UNCHANGED <<server, clock>> /\ "created" \notin up.row.flags /\ ~server[i].live
           /\ Answered("gone", LocalId)
  BY <1>1, <1>2, <1>6, NotDated DEF Answer, AnsweredFor
<1>7. QED
  BY <1>1, <1>3, <1>4, <1>5, <1>6 DEF DeleteOnServer, Refused, Unchanged, Answer, AnsweredFor

LEMMA CarriesOutDated ==
  ASSUME TypeInv, "ties" \notin Ops, NEW done \in SUBSET Requested, CarriesOut(done)
  PROVE  /\ Dated
         /\ \A s \in done : /\ ServerId(s, done) \in DOMAIN server'
                            /\ clock < clock' /\ server'[ServerId(s, done)].mod = clock'
<1>1. PICK t \in Dates :
         /\ clock' = t
         /\ done # {} => t \in Ticks
         /\ done = {} => t = clock
         /\ \A i \in DOMAIN server' :
               \/ /\ i \in DOMAIN server /\ server'[i] = server[i]
                  /\ \A s \in done : i # ServerId(s, done)
               \/ \E s \in done : i = ServerId(s, done) /\ server'[i] = ServerRecord(s, t)
  BY CarriesOutEffect
<1>2. ASSUME NEW s \in done PROVE ServerRecord(s, t).mod = t
  <2>1. CASE Wants(Rows[s], "create")
    BY <2>1 DEF ServerRecord
  <2>2. CASE ~Wants(Rows[s], "create")
    <3>1. Rows[s].id \in DOMAIN server
      BY <1>2, <2>2, RequestedOK
    <3>2. server[Rows[s].id] \in Record
      BY <3>1, ServerRecordOK
    <3>3. QED
      BY <2>2, <3>2 DEF ServerRecord, Record
  <2>3. QED
    BY <2>1, <2>2
<1>3. clock \in Nat /\ t \in Nat /\ clock <= t /\ (done # {} => clock < t)
  BY <1>1, NoTies DEF TypeInv, TypeOK, RecordsTypeOK, Dates
<1>4. ASSUME NEW i \in DOMAIN server'
      PROVE  \/ i \in DOMAIN server /\ server'[i] = server[i]
             \/ clock < clock' /\ server'[i].mod = clock'
  BY <1>1, <1>2, <1>3
<1>5. ASSUME NEW s \in done
      PROVE  /\ ServerId(s, done) \in DOMAIN server'
             /\ clock < clock' /\ server'[ServerId(s, done)].mod = clock'
  <2>1. PICK i \in DOMAIN server' : i = ServerId(s, done)
    BY CarriesOutEffect
  <2>2. PICK r \in done : server'[i] = ServerRecord(r, t)
    BY <1>1, <2>1
  <2>3. server'[i].mod = t /\ clock < clock'
    BY <1>1, <1>2, <1>3, <2>2
  <2>4. QED
    BY <1>1, <2>1, <2>3
<1>6. QED
  BY <1>1, <1>3, <1>4, <1>5 DEF Dated

LEMMA DownLeavesServer ==
  ASSUME TypeInv, KeyInv, DownStep, conf' = conf
  PROVE  UNCHANGED <<server, clock, edits>>
<1>1. SavePage \/ DeleteGhosts => UNCHANGED <<server, clock, edits>>
  BY DEF SavePage, DeleteGhosts
<1>2. QED
  BY <1>1, DownReadsKeys DEF DownStep, recordVars

LEMMA DatedStep ==
  ASSUME TypeInv, KeyInv, "ties" \notin Ops, [Next]_vars
  PROVE  Dated
<1>1. CASE UNCHANGED <<server, clock>>
  BY <1>1, NotDated
<1>2. CASE Others
  BY <1>2, OthersDated
<1>3. CASE UpStep
  <2>1. StartSyncUp \/ EndSyncUp \/ ReadRecord \/ CheckModDate \/ SaveRecord
           => UNCHANGED <<server, clock>>
    BY UpReadsKeys DEF SaveRecord, recordVars
  <2>2. QED
    BY <1>1, <1>3, <2>1, CreateDates, UpdateDates, DeleteDates DEF UpStep
<1>4. CASE BatchStep
  <2>1. CASE SendRequests
    BY <1>1, <2>1, SendRequestsEffect, CarriesOutDated, DoneRequested DEF Unchanged
  <2>2. SaveAnswer => UNCHANGED <<server, clock>>
    BY SaveAnswerEffect
  <2>3. CASE ~SendRequests /\ ~SaveAnswer
    BY <1>1, <1>4, <2>3, BatchReadsKeys DEF BatchStep, recordVars
  <2>4. QED
    BY <1>1, <2>1, <2>2, <2>3
<1>5. CASE UNCHANGED vars \/ Crash
  BY <1>1, <1>5 DEF vars, recordVars, Crash
<1>6. CASE \E held : App(held)
  BY <1>1, <1>6, AppEffect
<1>7. CASE DownStep /\ conf' = conf
  BY <1>1, <1>7, DownLeavesServer
<1>8. QED
  BY <1>2, <1>3, <1>4, <1>5, <1>6, <1>7 DEF Next, Worker
----------------------------------------------------------------------------
\* What the dates say of the elements, while the application, other clients and a
\* sync up that takes its records one by one change them.

LEMMA DateNumbers ==
  ASSUME TypeInv
  PROVE  /\ clock \in Nat /\ sync.max \in Nat /\ down.max \in Nat /\ down.syncMax \in Nat
         /\ \A i \in DOMAIN server : server[i].mod \in Nat /\ server[i].mod > 0
         /\ \A x \in down.page \union down.rest :
               x.id \in Ids /\ x.record.mod \in Nat /\ x.record.mod > 0
<1>1. MaxClock \in Nat
  BY Bounds DEF TypeInv, TypeOK
<1>2. sync \in SyncRow /\ down \in Down /\ clock \in Dates
      /\ \A i \in DOMAIN server : server[i] \in Record
  BY DEF TypeInv, TypeOK, RecordsTypeOK, DownTypeOK
<1>3. sync.max \in Nat /\ down.max \in Nat /\ down.syncMax \in Nat /\ clock \in Nat
  BY <1>1, <1>2 DEF SyncRow, Down, Dates
<1>4. \A i \in DOMAIN server : server[i].mod \in Nat /\ server[i].mod > 0
  BY <1>1, <1>2 DEF Record, Dates
<1>5. \A x \in down.page \union down.rest : x \in Sent
  BY <1>2 DEF Down
<1>6. \A x \in down.page \union down.rest :
         x.id \in Ids /\ x.record.mod \in Nat /\ x.record.mod > 0
  BY <1>1, <1>5 DEF Sent, Record, Dates
<1>7. QED
  BY <1>3, <1>4, <1>6

LEMMA DeadIsSafe ==
  ASSUME NEW i, NEW known, NEW max, Dead(i, known)
  PROVE  Safe(i, known, max)
BY DEF Dead, Safe

LEMMA SafeStays ==
  ASSUME Dated, NEW i, NEW max \in Nat, max <= clock, Safe(i, server, max)
  PROVE  Safe(i, server', max)
BY DEF Dated, Safe

LEMMA DeadStays ==
  ASSUME TypeInv', KeysKept, NEW i \in DOMAIN server \union {LocalId}, Dead(i, server)
  PROVE  Dead(i, server')
<1>1. LocalId \notin DOMAIN server'
  BY DEF LocalId, Ids, TypeInv, TypeOK, RecordsTypeOK
<1>2. QED
  BY <1>1 DEF Dead, KeysKept

\* The elements that are to be created have been, or have their record no more.
LEMMA SoupDatesStep ==
  ASSUME TypeInv, TypeInv', KeysKept, SoupDates,
         \A s \in DOMAIN soup' : "created" \in soup'[s].flags =>
            \/ soup'[s].id = LocalId
            \/ s \in DOMAIN soup /\ soup'[s].id = soup[s].id /\ "created" \in soup[s].flags
            \/ soup'[s].id \in DOMAIN server \union {LocalId} /\ Dead(soup'[s].id, server)
  PROVE  SoupDates'
<1>1. ASSUME NEW s \in DOMAIN soup', "created" \in soup'[s].flags
      PROVE  Dead(soup'[s].id, server')
  <2>1. CASE soup'[s].id = LocalId
    BY <2>1 DEF Dead, LocalId, Ids, TypeInv, TypeOK, RecordsTypeOK
  <2>2. CASE s \in DOMAIN soup /\ soup'[s].id = soup[s].id /\ "created" \in soup[s].flags
    <3>1. soup[s].id \in DOMAIN server \union {LocalId} /\ Dead(soup[s].id, server)
      BY <2>2 DEF SoupDates, TypeInv, SoupInv, RowOK
    <3>2. QED
      BY <2>2, <3>1, DeadStays
  <2>3. CASE soup'[s].id \in DOMAIN server \union {LocalId} /\ Dead(soup'[s].id, server)
    BY <2>3, DeadStays
  <2>4. QED
    BY <1>1, <2>1, <2>2, <2>3
<1>2. QED
  BY <1>1 DEF SoupDates

\* An element that the application changes is changed here; it gives none up.
LEMMA AppElements ==
  ASSUME TypeInv, "app_purge" \notin Ops, NEW held, App(held)
  PROVE  /\ DOMAIN soup \subseteq DOMAIN soup'
         /\ \A s \in DOMAIN soup :
               /\ soup'[s].id = soup[s].id
               /\ soup'[s] = soup[s] \/ IsDirty(soup'[s])
               /\ "created" \in soup'[s].flags => "created" \in soup[s].flags
         /\ \A s \in DOMAIN soup' \ DOMAIN soup :
               s = nextEntry /\ soup'[s].id = LocalId /\ IsDirty(soup'[s])
<1>1. CASE AppCreate
  <2> DEFINE row == [id |-> LocalId, edit |-> edits', mod |-> NoDate, key |-> edits',
                     flags |-> {"created"}]
  <2>1. soup' = With(soup, nextEntry, [row EXCEPT !.edit = edits'])
    BY <1>1 DEF AppCreate, AppWrites
  <2>2. nextEntry \notin DOMAIN soup
    BY EditsNat DEF TypeInv, SoupInv, TypeOK, RecordsTypeOK, Entries
  <2>3. PICK new : new = [row EXCEPT !.edit = edits']
    OBVIOUS
  <2>4. new.id = LocalId /\ new.flags = {"created"}
    BY <2>3
  <2>5. soup' = With(soup, nextEntry, new)
    BY <2>1, <2>3
  <2> HIDE DEF row
  <2>6. QED
    BY <2>2, <2>4, <2>5 DEF With, IsDirty
<1>2. ASSUME NEW flag \in {"updated", "deleted"}, NEW op, AppFlags(flag, op, held)
      PROVE  /\ DOMAIN soup' = DOMAIN soup
             /\ \A s \in DOMAIN soup :
                   /\ soup'[s].id = soup[s].id
                   /\ soup'[s] = soup[s] \/ IsDirty(soup'[s])
                   /\ "created" \in soup'[s].flags => "created" \in soup[s].flags
  <2>1. PICK s \in DOMAIN soup : AppWrites(s, [soup[s] EXCEPT !.flags = @ \union {flag}], held)
    BY <1>2 DEF AppFlags
  <2>2. soup[s] \in Row
    BY DEF TypeInv, TypeOK, RecordsTypeOK
  <2>3. PICK new : new = [[soup[s] EXCEPT !.flags = @ \union {flag}] EXCEPT !.edit = edits']
    OBVIOUS
  <2>4. new.id = soup[s].id /\ new.flags = soup[s].flags \union {flag}
    BY <2>2, <2>3 DEF Row
  <2>5. soup' = With(soup, s, new)
    BY <2>1, <2>3 DEF AppWrites
  <2>6. QED
    BY <2>4, <2>5 DEF With, IsDirty
<1>3. CASE AppUpdate(held) \/ AppDelete(held)
  BY <1>2, <1>3 DEF AppUpdate, AppDelete
<1>4. QED
  BY <1>1, <1>3 DEF App, AppPurge

\* A step that leaves the task alone, and its elements their ids and their changes.
LEMMA UpDatesFrame ==
  ASSUME TypeInv, TypeInv', KeysKept, Dated, DatesInv, UpDates, UNCHANGED <<up, sync>>,
         \A s \in DOMAIN soup' :
            \/ /\ s \in DOMAIN soup /\ soup'[s].id = soup[s].id
               /\ IsDirty(soup[s]) => IsDirty(soup'[s])
            \/ s >= nextEntry /\ IsDirty(soup'[s])
  PROVE  UpDates'
<1>1. /\ up.pc = "idle" => up.left = {}
      /\ \A s \in up.left : s \in DOMAIN soup' => IsDirty(soup'[s])
  <2>1. \A s \in up.left : s \in DOMAIN soup' => IsDirty(soup'[s])
    BY DEF UpDates
  <2>2. QED
    BY <2>1 DEF UpDates
<1>2. ASSUME up.pc \in InHand
      PROVE  /\ up.entry \notin up.left /\ IsDirty(up.row)
             /\ up.entry \in DOMAIN soup' => soup'[up.entry].id = up.row.id
             /\ "created" \in up.row.flags \/ up.pc = "recreate" => Dead(up.row.id, server')
  <2>1. up.entry < nextEntry /\ up.entry \in Nat /\ nextEntry \in Nat
        /\ up.row.id \in DOMAIN server \union {LocalId}
    BY <1>2, EditsNat DEF TypeInv, UpInv, RowOK, Entries
  <2>2. up.entry \in DOMAIN soup' => soup'[up.entry].id = up.row.id
    BY <1>2, <2>1 DEF UpDates
  <2>3. "created" \in up.row.flags \/ up.pc = "recreate" => Dead(up.row.id, server')
    BY <1>2, <2>1, DeadStays DEF UpDates
  <2>4. QED
    BY <1>2, <2>2, <2>3 DEF UpDates
<1>3. up.pc = "save" /\ up.answer # "refused" => Safe(up.row.id, server', sync.max)
  BY SafeStays, DateNumbers DEF UpDates, DatesInv
<1>4. QED
  BY <1>1, <1>2, <1>3 DEF UpDates

LEMMA UpDatesFree ==
  ASSUME NEW left, up' = Rest(left), \A s \in left : s \in DOMAIN soup' => IsDirty(soup'[s])
  PROVE  UpDates'
<1>1. up'.pc = "next" /\ up'.left = left
  BY DEF Rest, IdleUp
<1>2. QED
  BY <1>1 DEF UpDates, InHand

LEMMA UpDatesIdle ==
  ASSUME up' = IdleUp
  PROVE  UpDates'
BY DEF UpDates, IdleUp, InHand

LEMMA UpDatesStarts ==
  ASSUME TypeInv, TypeInv', KeyInv, SoupDates, UpDates,
         StartSyncUp \/ EndSyncUp \/ ReadRecord \/ CheckModDate
  PROVE  UpDates'
<1>1. UNCHANGED recordVars
  BY UpReadsKeys
<1>2. CASE StartSyncUp
  BY <1>1, <1>2, UpDatesFree DEF StartSyncUp, DirtyEntries, recordVars
<1>3. CASE EndSyncUp
  BY <1>3, UpDatesIdle DEF EndSyncUp, UpEnds
<1>4. CASE ReadRecord
  <2> DEFINE s == Min(up.left)
  <2>1. /\ up.left # {} /\ up.left \subseteq Nat
    BY <1>4 DEF ReadRecord, TypeInv, TypeOK, UpTypeOK, Up, Entries
  <2>2. s \in up.left
    BY <2>1, MinOf
  <2>3. PICK pc \in {"check", "send"} :
           \/ up' = IdleUp
           \/ s \in DOMAIN soup
              /\ up' = [up EXCEPT !.pc = pc, !.left = @ \ {s}, !.entry = s, !.row = soup[s]]
    BY <1>4 DEF ReadRecord
  <2> HIDE DEF s
  <2>4. CASE up' = IdleUp
    BY <2>4, UpDatesIdle
  <2>5. CASE s \in DOMAIN soup
             /\ up' = [up EXCEPT !.pc = pc, !.left = @ \ {s}, !.entry = s, !.row = soup[s]]
    <3>1. up \in Up
      BY DEF TypeInv, TypeOK, UpTypeOK
    <3>2. up'.pc = pc /\ up'.left = up.left \ {s} /\ up'.entry = s /\ up'.row = soup[s]
      BY <2>5, <3>1 DEF Up
    <3>3. soup' = soup /\ server' = server
      BY <1>1 DEF recordVars
    <3>4. \A e \in up'.left : e \in DOMAIN soup' => IsDirty(soup'[e])
      BY <3>2, <3>3 DEF UpDates
    <3>5. IsDirty(up'.row) /\ up'.entry \notin up'.left
      BY <2>2, <2>5, <3>2 DEF UpDates
    <3>6. up'.entry \in DOMAIN soup' => soup'[up'.entry].id = up'.row.id
      BY <3>2, <3>3
    <3>7. "created" \in up'.row.flags => Dead(up'.row.id, server')
      BY <2>5, <3>2, <3>3 DEF SoupDates
    <3>8. QED
      BY <3>2, <3>4, <3>5, <3>6, <3>7 DEF UpDates
  <2>6. QED
    BY <2>3, <2>4, <2>5
<1>5. CASE CheckModDate
  <2>1. CASE UpEnds
    BY <2>1, UpDatesIdle DEF UpEnds
  <2>2. CASE UpNextRecord
    BY <1>1, <2>2, UpDatesFree DEF UpNextRecord, UpDates, recordVars
  <2>3. CASE \E seen : up' = [up EXCEPT !.pc = "send", !.seen = seen]
    <3>1. /\ up'.pc = "send" /\ up'.left = up.left /\ up'.entry = up.entry /\ up'.row = up.row
      BY <2>3 DEF TypeInv, TypeOK, UpTypeOK, Up
    <3>2. soup' = soup /\ server' = server
      BY <1>1 DEF recordVars
    <3>3. up.pc \in InHand
      BY <1>5 DEF CheckModDate, InHand
    <3>4. QED
      BY <3>1, <3>2, <3>3 DEF UpDates, InHand
  <2>4. QED
    BY <1>5, <2>1, <2>2, <2>3 DEF CheckModDate
<1>6. QED
  BY <1>2, <1>3, <1>4, <1>5

LEMMA RequestDates ==
  ASSUME TypeInv, TypeInv', KeysKept, Dated, DatesInv, UpDates, UNCHANGED <<soup, sync>>,
         \/ UpNextRecord \/ UpEnds
         \/ /\ up' = [up EXCEPT !.pc = "recreate"] /\ up.pc = "send" /\ server' = server
            /\ ~server[up.row.id].live
         \/ /\ up.pc \in {"send", "recreate"}
            /\ \E answer \in Answer : \E id :
                  Answered(answer, id) /\ (answer # "refused" => AnsweredFor(up.row.id))
  PROVE  UpDates'
<1>1. CASE UpEnds
  BY <1>1, UpDatesIdle DEF UpEnds
<1>2. CASE UpNextRecord
  BY <1>2, UpDatesFree DEF UpNextRecord, UpDates
<1>3. up \in Up
  BY DEF TypeInv, TypeOK, UpTypeOK
<1>4. CASE up' = [up EXCEPT !.pc = "recreate"] /\ up.pc = "send" /\ server' = server
           /\ ~server[up.row.id].live
  <2>1. /\ up'.pc = "recreate" /\ up'.left = up.left /\ up'.entry = up.entry /\ up'.row = up.row
    BY <1>3, <1>4 DEF Up
  <2>2. Dead(up.row.id, server')
    BY <1>4 DEF Dead
  <2>3. up.pc \in InHand
    BY <1>4 DEF InHand
  <2>4. QED
    BY <2>1, <2>2, <2>3 DEF UpDates
<1>5. CASE /\ up.pc \in {"send", "recreate"}
           /\ \E answer \in Answer : \E id :
                 Answered(answer, id) /\ (answer # "refused" => AnsweredFor(up.row.id))
  <2>1. PICK answer \in Answer : \E id :
           Answered(answer, id) /\ (answer # "refused" => AnsweredFor(up.row.id))
    BY <1>5
  <2>2. /\ up'.pc = "save" /\ up'.answer = answer
        /\ up'.left = up.left /\ up'.entry = up.entry /\ up'.row = up.row
    BY <1>3, <2>1 DEF Answered, Up
  <2>3. up.pc \in InHand
    BY <1>5 DEF InHand
  <2>4. up.row.id \in DOMAIN server \union {LocalId}
    BY <2>3 DEF TypeInv, UpInv, RowOK
  <2>5. "created" \in up.row.flags \/ up.pc = "recreate" => Dead(up.row.id, server')
    BY <2>3, <2>4, DeadStays DEF UpDates
  <2>6. answer # "refused" => Safe(up.row.id, server', sync.max)
    <3>1. CASE "created" \in up.row.flags \/ up.pc = "recreate"
      BY <2>5, <3>1, DeadIsSafe
    <3>2. CASE /\ up.row.id \in DOMAIN server'
               /\ server'[up.row.id].live => server'[up.row.id].mod = clock' /\ clock < clock'
      BY <3>2, DateNumbers DEF Safe, DatesInv, Dated
    <3>3. QED
      BY <2>1, <3>1, <3>2 DEF AnsweredFor
  <2>7. QED
    BY <2>2, <2>3, <2>5, <2>6 DEF UpDates
<1>6. QED
  BY <1>1, <1>2, <1>4, <1>5

\* What saving an answer makes of the elements.
LEMMA SavedElements ==
  ASSUME TypeInv, SaveRecord
  PROVE  /\ up' = Rest(up.left) /\ UNCHANGED <<server, clock>> /\ up.pc = "save"
         /\ DOMAIN soup' \subseteq DOMAIN soup
         /\ \A s \in DOMAIN soup : s # up.entry => s \in DOMAIN soup' /\ soup'[s] = soup[s]
         /\ up.answer = "refused" =>
               /\ DOMAIN soup' = DOMAIN soup
               /\ up.entry \in DOMAIN soup => soup'[up.entry] = up.row
         /\ up.answer # "refused" /\ up.entry \in DOMAIN soup' => soup'[up.entry].flags = {}
<1> DEFINE s == up.entry
<1>1. up' = Rest(up.left) /\ UNCHANGED <<server, clock>> /\ up.pc = "save" /\ soup' = Saved
  BY DEF SaveRecord, UpNextRecord
<1>2. up.row \in Row
  BY <1>1, UpRecordOK DEF InHand
<1>3. PICK clean : clean = [up.row EXCEPT !.flags = {}, !.id = up.id]
  OBVIOUS
<1>4. clean.flags = {}
  BY <1>2, <1>3 DEF Row
<1>5. \/ s \notin DOMAIN soup /\ soup' = soup
      \/ s \in DOMAIN soup /\ up.answer = "refused" /\ soup' = With(soup, s, up.row)
      \/ s \in DOMAIN soup /\ up.answer # "refused" /\ soup' = Without(soup, {s})
      \/ s \in DOMAIN soup /\ up.answer # "refused" /\ soup' = With(soup, s, clean)
  BY <1>1, <1>3 DEF Saved
<1> HIDE DEF s
<1>6. CASE s \in DOMAIN soup /\ up.answer # "refused" /\ soup' = Without(soup, {s})
  BY <1>1, <1>6 DEF Without, s
<1>7. CASE s \in DOMAIN soup /\ up.answer = "refused" /\ soup' = With(soup, s, up.row)
  BY <1>1, <1>7 DEF With, s
<1>8. CASE s \in DOMAIN soup /\ up.answer # "refused" /\ soup' = With(soup, s, clean)
  BY <1>1, <1>4, <1>8 DEF With, s
<1>9. CASE s \notin DOMAIN soup /\ soup' = soup
  BY <1>1, <1>9 DEF s
<1>10. QED
  BY <1>5, <1>6, <1>7, <1>8, <1>9

LEMMA UpStepDates ==
  ASSUME TypeInv, TypeInv', KeyInv, KeysKept, "ties" \notin Ops, Dated, DatesInv,
         SoupDates, UpDates, UpStep, sync' = sync
  PROVE  SoupDates' /\ UpDates'
<1>1. CASE StartSyncUp \/ EndSyncUp \/ ReadRecord \/ CheckModDate
  BY <1>1, UpReadsKeys, UpDatesStarts, SoupDatesStep DEF recordVars
<1>2. CASE CreateOnServer
  BY <1>2, CreateDates, RequestDates, SoupDatesStep
<1>3. CASE UpdateOnServer
  BY <1>3, UpdateDates, RequestDates, SoupDatesStep
<1>4. CASE DeleteOnServer
  BY <1>4, DeleteDates, RequestDates, SoupDatesStep
<1>5. CASE SaveRecord
  <2>1. up.pc \in InHand /\ up.pc = "save"
    BY <1>5 DEF SaveRecord, InHand
  <2>2. UpDates'
    <3>1. \A s \in up.left : s # up.entry
      BY <2>1 DEF UpDates
    <3>2. \A s \in up.left : s \in DOMAIN soup' => IsDirty(soup'[s])
      BY <1>5, <3>1, SavedElements DEF UpDates
    <3>3. QED
      BY <1>5, <3>2, SavedElements, UpDatesFree
  <2>3. ASSUME NEW s \in DOMAIN soup', "created" \in soup'[s].flags
        PROVE  \/ s \in DOMAIN soup /\ soup'[s].id = soup[s].id /\ "created" \in soup[s].flags
               \/ soup'[s].id \in DOMAIN server \union {LocalId} /\ Dead(soup'[s].id, server)
    <3>1. s \in DOMAIN soup
      BY <1>5, SavedElements
    <3>2. CASE s # up.entry
      BY <1>5, <2>3, <3>1, <3>2, SavedElements
    <3>3. CASE s = up.entry
      <4>1. up.answer = "refused" /\ soup'[s] = up.row
        BY <1>5, <2>3, <3>1, <3>3, SavedElements
      <4>2. up.row.id \in DOMAIN server \union {LocalId}
        BY <2>1 DEF TypeInv, UpInv, RowOK
      <4>3. Dead(up.row.id, server)
        BY <2>1, <2>3, <4>1 DEF UpDates
      <4>4. QED
        BY <4>1, <4>2, <4>3
    <3>4. QED
      BY <3>2, <3>3
  <2>4. SoupDates'
    BY <2>3, SoupDatesStep
  <2>5. QED
    BY <2>2, <2>4
<1>6. QED
  BY <1>1, <1>2, <1>3, <1>4, <1>5 DEF UpStep

\* The soup goes on having the records up to a date when the elements it changes are
\* changed here, or of records that are gone or later.
LEMMA HasUpToStays ==
  ASSUME TypeInv, TypeInv', Dated, NEW date \in Nat, date <= clock, HasUpTo(date),
         \A s \in DOMAIN soup :
            \/ s \in DOMAIN soup' /\ soup'[s].id = soup[s].id
               /\ (soup'[s] = soup[s] \/ IsDirty(soup'[s]))
            \/ Safe(soup[s].id, server', date)
  PROVE  HasUpTo(date)'
<1>1. ASSUME NEW i \in DOMAIN server', server'[i].live, server'[i].mod <= date
      PROVE  \E s \in DOMAIN soup' : /\ soup'[s].id = i
                                     /\ IsDirty(soup'[s]) \/ soup'[s].edit = server'[i].edit
  <2>1. i \in DOMAIN server /\ server'[i] = server[i]
    <3>1. clock < clock' /\ server'[i].mod = clock' => FALSE
      BY <1>1 DEF Dated
    <3>2. QED
      BY <1>1, <3>1 DEF Dated
  <2>2. Has(i)
    BY <1>1, <2>1 DEF HasUpTo, Live
  <2>3. PICK s \in DOMAIN soup :
           soup[s].id = i /\ (IsDirty(soup[s]) \/ soup[s].edit = server[i].edit)
    BY <2>2 DEF Has, EntriesOf
  <2>4. ~Safe(i, server', date)
    BY <1>1, <2>1, DateNumbers DEF Safe
  <2>5. s \in DOMAIN soup' /\ soup'[s].id = i /\ (soup'[s] = soup[s] \/ IsDirty(soup'[s]))
    BY <2>3, <2>4
  <2>6. QED
    BY <2>1, <2>3, <2>5
<1>2. QED
  BY <1>1 DEF HasUpTo, Has, EntriesOf, Live

LEMMA UpStepHas ==
  ASSUME TypeInv, TypeInv', KeyInv, "ties" \notin Ops, Dated, DatesInv, UpDates, UpStep,
         NEW date \in Nat, date <= sync.max, HasUpTo(date)
  PROVE  HasUpTo(date)'
<1>1. date <= clock
  BY DateNumbers DEF DatesInv
<1>2. CASE soup' = soup
  BY <1>1, <1>2, HasUpToStays
<1>3. CASE SaveRecord
  <2>1. up.pc = "save" /\ up.pc \in InHand
    BY <1>3 DEF SaveRecord, InHand
  <2>2. ASSUME NEW s \in DOMAIN soup
        PROVE  \/ s \in DOMAIN soup' /\ soup'[s].id = soup[s].id
                  /\ (soup'[s] = soup[s] \/ IsDirty(soup'[s]))
               \/ Safe(soup[s].id, server', date)
    <3>1. CASE s # up.entry
      BY <1>3, <3>1, SavedElements
    <3>2. CASE s = up.entry /\ up.answer = "refused"
      BY <1>3, <2>1, <3>2, SavedElements DEF UpDates
    <3>3. CASE s = up.entry /\ up.answer # "refused"
      <4>1. Safe(soup[s].id, server, sync.max)
        BY <2>1, <3>3 DEF UpDates
      <4>2. server' = server
        BY <1>3, SavedElements
      <4>3. QED
        BY <4>1, <4>2, DateNumbers DEF Safe
    <3>4. QED
      BY <3>1, <3>2, <3>3
  <2>3. QED
    BY <1>1, <2>2, HasUpToStays
<1>4. StartSyncUp \/ EndSyncUp \/ ReadRecord \/ CheckModDate => soup' = soup
  BY UpReadsKeys DEF recordVars
<1>5. QED
  BY <1>2, <1>3, <1>4, CreateDates, UpdateDates, DeleteDates DEF UpStep
----------------------------------------------------------------------------
\* What the dates say of a batch.

LEMMA BatchDatesFrame ==
  ASSUME TypeInv, TypeInv', KeysKept, Dated, DatesInv, BatchDates, UNCHANGED <<batch, sync>>,
         \A s \in DOMAIN soup' :
            (s \in DOMAIN soup /\ soup'[s].id = soup[s].id) \/ s >= nextEntry
  PROVE  BatchDates'
<1>1. ASSUME NEW s \in DOMAIN batch.rows
      PROVE  /\ s \in DOMAIN soup' => soup'[s].id = batch.rows[s].id
             /\ "created" \in batch.rows[s].flags => Dead(batch.rows[s].id, server')
             /\ Dead(batch.rows[s].id, server) => Dead(batch.rows[s].id, server')
  <2>1. /\ s < nextEntry /\ s \in Nat /\ nextEntry \in Nat
        /\ batch.rows[s].id \in DOMAIN server \union {LocalId}
    BY BatchFields, EditsNat DEF TypeInv, BatchInv, RowOK, Entries
  <2>2. s \in DOMAIN soup' => soup'[s].id = batch.rows[s].id
    BY <2>1 DEF BatchDates
  <2>3. QED
    BY <2>1, <2>2, DeadStays DEF BatchDates
<1>2. \A i : Safe(i, server, sync.max) => Safe(i, server', sync.max)
  BY SafeStays, DateNumbers DEF DatesInv
<1>3. ASSUME NEW s \in DOMAIN batch.answers
      PROVE  /\ s \in DOMAIN batch.rows
             /\ batch.answers[s] = "ok" => Safe(batch.rows[s].id, server', sync.max)
             /\ batch.answers[s] = "gone" => Dead(batch.rows[s].id, server')
  BY <1>1, <1>2 DEF BatchDates
<1>4. \A s \in DOMAIN batch.ids : Safe(batch.ids[s], server', sync.max)
  BY <1>2 DEF BatchDates
<1>5. \A s \in batch.unsaved : IsDirty(batch.rows[s])
  BY DEF BatchDates
<1>6. QED
  BY <1>1, <1>3, <1>4, <1>5 DEF BatchDates

LEMMA BatchDatesFree ==
  ASSUME batch' = IdleBatch \/ \E left : batch' = [IdleBatch EXCEPT !.pc = "read", !.left = left]
  PROVE  BatchDates'
<1>1. batch'.rows = None /\ batch'.ids = None /\ batch'.answers = None /\ batch'.unsaved = {}
  <2>1. CASE batch' = IdleBatch
    BY <2>1, IdleBatchFields
  <2>2. ASSUME NEW left, batch' = [IdleBatch EXCEPT !.pc = "read", !.left = left]
        PROVE  batch'.rows = None /\ batch'.ids = None /\ batch'.answers = None
               /\ batch'.unsaved = {}
    BY <2>2, IdleBatchFields
  <2>3. QED
    BY <2>1, <2>2
<1>2. DOMAIN batch'.rows = {} /\ DOMAIN batch'.ids = {} /\ DOMAIN batch'.answers = {}
  BY <1>1, EmptyPartial
<1>3. QED
  BY <1>1, <1>2 DEF BatchDates

\* Rows that stay as they are, or some of them.
LEMMA BatchDatesSame ==
  ASSUME BatchDates, UNCHANGED <<soup, server, sync>>,
         DOMAIN batch'.rows \subseteq DOMAIN batch.rows,
         \A s \in DOMAIN batch'.rows : batch'.rows[s] = batch.rows[s],
         \/ batch'.rows = batch.rows /\ UNCHANGED <<batch.answers, batch.ids, batch.unsaved>>
         \/ batch'.answers = None /\ batch'.ids = None /\ batch'.unsaved = {}
  PROVE  BatchDates'
<1>1. CASE batch'.rows = batch.rows /\ UNCHANGED <<batch.answers, batch.ids, batch.unsaved>>
  BY <1>1 DEF BatchDates
<1>2. CASE batch'.answers = None /\ batch'.ids = None /\ batch'.unsaved = {}
  <2>1. DOMAIN batch'.ids = {} /\ DOMAIN batch'.answers = {}
    BY <1>2, EmptyPartial
  <2>2. QED
    BY <1>2, <2>1 DEF BatchDates
<1>3. QED
  BY <1>1, <1>2

LEMMA BatchReadsDates ==
  ASSUME TypeInv, TypeInv', KeyInv, SoupDates, BatchDates, sync' = sync,
         \/ StartBatchSyncUp \/ ReadRecords \/ CheckModDates \/ CheckedModDates
         \/ FillBatch \/ NextBatch \/ EndBatchSyncUp
  PROVE  BatchDates'
<1>1. UNCHANGED <<soup, server>>
  BY BatchReadsKeys DEF recordVars
<1>2. batch.pc \in {"read", "check", "fill"} => batch.unsaved = {}
  BY DEF TypeInv, BatchInv
<1>3. CASE StartBatchSyncUp \/ BatchEnds
  BY <1>3, BatchDatesFree DEF StartBatchSyncUp, BatchEnds
<1>4. CASE ReadRecords
  <2> DEFINE found == batch.left \intersect DOMAIN soup
  <2>1. /\ batch'.rows = Restrict(soup, found) /\ batch'.ids = batch.ids
        /\ batch'.answers = batch.answers /\ batch'.unsaved = batch.unsaved /\ batch.pc = "read"
    BY <1>4, BatchFields DEF ReadRecords
  <2>2. DOMAIN batch'.rows = found /\ \A s \in found : batch'.rows[s] = soup[s]
    BY <2>1 DEF Restrict
  <2>3. DOMAIN batch'.ids = {} /\ DOMAIN batch'.answers = {} /\ batch'.unsaved = {}
    BY <1>2, <2>1, EmptyPartial DEF TypeInv, BatchInv
  <2>4. QED
    BY <1>1, <2>2, <2>3 DEF BatchDates, SoupDates
<1>5. ASSUME batch'.rows = batch.rows, batch'.ids = batch.ids, batch'.answers = batch.answers,
             batch'.unsaved = batch.unsaved
      PROVE  BatchDates'
  BY <1>1, <1>5, BatchDatesSame
<1>6. CASE CheckModDates
  <2>1. ASSUME NEW check, NEW todo, NEW seen,
               batch' = [batch EXCEPT !.check = check, !.todo = todo, !.seen = seen]
        PROVE  BatchDates'
    BY <1>5, <2>1, BatchFields
  <2>2. QED
    BY <1>3, <1>6, <2>1 DEF CheckModDates
<1>7. CASE CheckedModDates
  BY <1>5, <1>7, BatchFields DEF CheckedModDates
<1>8. CASE FillBatch
  <2>1. CASE batch' = [batch EXCEPT !.pc = "send", !.todo = @ \ FirstOf(batch.todo),
                                    !.sending = FirstOf(batch.todo)]
    BY <1>5, <2>1, BatchFields
  <2>2. QED
    BY <1>3, <1>8, <2>1 DEF FillBatch
<1>9. CASE NextBatch
  <2>1. batch'.rows = Restrict(batch.rows, batch.todo) /\ batch'.ids = None
        /\ batch'.answers = None /\ batch'.unsaved = {}
    BY <1>9, BatchFields DEF NextBatch
  <2>2. batch.todo \subseteq DOMAIN batch.rows
    BY DEF TypeInv, BatchInv, Pending
  <2>3. DOMAIN batch'.rows = batch.todo /\ \A s \in batch.todo : batch'.rows[s] = batch.rows[s]
    BY <2>1 DEF Restrict
  <2>4. QED
    BY <1>1, <2>1, <2>2, <2>3, BatchDatesSame
<1>10. QED
  BY <1>3, <1>4, <1>6, <1>7, <1>8, <1>9 DEF EndBatchSyncUp

\* What the server has answered of a row: it has written the record of the row, or
\* made one, or the record is gone.
LEMMA AnsweredDates ==
  ASSUME TypeInv, TypeInv', KeyInv, KeysKept, "ties" \notin Ops, DatesInv, BatchDates,
         NEW refused \in SUBSET Requested, CarriesOut(DoneOf(refused)), NEW s \in Requested
  PROVE  /\ s \in DOMAIN batch.rows
         /\ s \in DoneOf(refused) => /\ Safe(Rows[s].id, server', sync.max)
                                     /\ Safe(ServerId(s, DoneOf(refused)), server', sync.max)
         /\ s \in GoneOf(refused) => Dead(Rows[s].id, server')
<1> DEFINE done == DoneOf(refused)
<1>1. s \in DOMAIN batch.rows
  BY RequestedOK
<1>2. Rows[s].id \in DOMAIN server \union {LocalId}
  BY <1>1 DEF TypeInv, BatchInv, RowOK, Rows
<1>3. done \in SUBSET Requested
  BY DoneRequested
<1> HIDE DEF done
<1>4. CarriesOut(done)
  BY DEF done
<1>5. ASSUME s \in done
      PROVE  Safe(ServerId(s, done), server', sync.max)
  <2>1. clock < clock' /\ server'[ServerId(s, done)].mod = clock' /\ Dated
    BY <1>3, <1>4, <1>5, CarriesOutDated
  <2>2. QED
    BY <2>1, DateNumbers DEF Safe, DatesInv, Dated
<1>6. ASSUME s \in done
      PROVE  Safe(Rows[s].id, server', sync.max)
  <2>1. CASE ~Wants(Rows[s], "create")
    BY <1>5, <1>6, <2>1 DEF ServerId
  <2>2. CASE Wants(Rows[s], "create")
    <3>1. "created" \in batch.rows[s].flags
      BY <2>2 DEF Wants, Rows
    <3>2. Dead(Rows[s].id, server)
      BY <1>1, <3>1 DEF BatchDates, Rows
    <3>3. QED
      BY <1>2, <3>2, DeadStays, DeadIsSafe
  <2>3. QED
    BY <2>1, <2>2
<1>7. ASSUME s \in GoneOf(refused)
      PROVE  Dead(Rows[s].id, server')
  <2>1. Dead(Rows[s].id, server)
    BY <1>7 DEF GoneOf, Gone, Dead
  <2>2. QED
    BY <1>2, <2>1, DeadStays
<1>8. QED
  BY <1>1, <1>5, <1>6, <1>7 DEF done

LEMMA SendRequestsDates ==
  ASSUME TypeInv, TypeInv', KeyInv, KeysKept, "ties" \notin Ops, DatesInv, BatchDates,
         SendRequests, sync' = sync
  PROVE  BatchDates'
<1>1. CASE BatchEnds
  BY <1>1, BatchDatesFree DEF BatchEnds
<1>2. ASSUME NEW refused \in SUBSET Requested, CarriesOut(DoneOf(refused)), AnswerSaved(refused)
      PROVE  BatchDates'
  <2> DEFINE done == DoneOf(refused)
             gone == GoneOf(refused)
             new == [s \in done \union gone \union refused |->
                       IF s \in done THEN "ok" ELSE IF s \in gone THEN "gone" ELSE "refused"]
             ids == AnsweredIds(done)
  <2>1. /\ batch'.answers = Merge(batch.answers, new) /\ batch'.ids = Merge(batch.ids, ids)
        /\ batch'.unsaved = {s \in batch.sending : IsDirty(Rows[s])}
        /\ batch'.rows = batch.rows /\ soup' = soup
    BY <1>2, SendRequestsEffect DEF AnswerSaved, Answers
  <2>2. done \subseteq Requested /\ gone \subseteq Requested
    BY DoneRequested DEF GoneOf
  <2>3. Dated
    BY <1>2, DoneRequested, CarriesOutDated
  <2>4. \A s \in done : ids[s] = ServerId(s, done)
    BY DEF AnsweredIds
  <2>5. DOMAIN ids = done
    BY DEF AnsweredIds
  <2> HIDE DEF done, gone, ids
  <2>6. DOMAIN new = done \union gone \union refused
        /\ \A s \in DOMAIN new :
              /\ new[s] = "ok" => s \in done
              /\ new[s] = "gone" => s \in gone
    OBVIOUS
  <2> HIDE DEF new
  <2>7. \A i : Safe(i, server, sync.max) => Safe(i, server', sync.max)
    BY <2>3, SafeStays, DateNumbers DEF DatesInv
  <2>8. ASSUME NEW s \in DOMAIN batch.rows
        PROVE  Dead(batch.rows[s].id, server) => Dead(batch.rows[s].id, server')
    <3>1. batch.rows[s].id \in DOMAIN server \union {LocalId}
      BY DEF TypeInv, BatchInv, RowOK
    <3>2. QED
      BY <3>1, DeadStays
  <2>9. ASSUME NEW s \in DOMAIN batch'.answers
        PROVE  /\ s \in DOMAIN batch.rows
               /\ batch'.answers[s] = "ok" => Safe(batch.rows[s].id, server', sync.max)
               /\ batch'.answers[s] = "gone" => Dead(batch.rows[s].id, server')
    <3>1. CASE s \in DOMAIN batch.answers
      <4>1. batch'.answers[s] = batch.answers[s]
        BY <2>1, <3>1 DEF Merge
      <4>2. QED
        BY <2>7, <2>8, <3>1, <4>1 DEF BatchDates
    <3>2. CASE s \in DOMAIN new /\ s \notin DOMAIN batch.answers
      <4>1. batch'.answers[s] = new[s]
        BY <2>1, <3>2 DEF Merge
      <4>2. s \in Requested
        BY <2>2, <2>6, <3>2
      <4>3. QED
        BY <1>2, <2>6, <3>2, <4>1, <4>2, AnsweredDates DEF done, gone, Rows
    <3>3. QED
      BY <2>1, <3>1, <3>2 DEF Merge
  <2>10. ASSUME NEW s \in DOMAIN batch'.ids
         PROVE  Safe(batch'.ids[s], server', sync.max)
    <3>1. CASE s \in DOMAIN batch.ids
      <4>1. batch'.ids[s] = batch.ids[s]
        BY <2>1, <3>1 DEF Merge
      <4>2. QED
        BY <2>7, <3>1, <4>1 DEF BatchDates
    <3>2. CASE s \in done /\ s \notin DOMAIN batch.ids
      <4>1. batch'.ids[s] = ServerId(s, done)
        BY <2>1, <2>4, <2>5, <3>2 DEF Merge
      <4>2. QED
        BY <1>2, <2>2, <3>2, <4>1, AnsweredDates DEF done
    <3>3. QED
      BY <2>1, <2>5, <3>1, <3>2 DEF Merge
  <2>11. \A s \in DOMAIN batch.rows :
            /\ s \in DOMAIN soup' => soup'[s].id = batch.rows[s].id
            /\ "created" \in batch.rows[s].flags => Dead(batch.rows[s].id, server')
    BY <2>1, <2>8 DEF BatchDates
  <2>12. \A s \in batch'.unsaved : IsDirty(batch'.rows[s])
    BY <2>1 DEF Rows
  <2>13. QED
    BY <2>1, <2>9, <2>10, <2>11, <2>12 DEF BatchDates
<1>3. QED
  BY <1>1, <1>2, SendRequestsEffect

\* What saving an answer makes of the elements: the one of the row is changed here,
\* saved, or removed, and if it is not to be sent again its record is gone or later.
LEMMA SaveAnswerElements ==
  ASSUME TypeInv, KeyInv, SoupDates, BatchDates, SaveAnswer
  PROVE  /\ DOMAIN soup' \subseteq DOMAIN soup
         /\ \A s \in DOMAIN soup :
               \/ s \in DOMAIN soup' /\ soup'[s].id = soup[s].id
                  /\ (soup'[s] = soup[s] \/ IsDirty(soup'[s]))
               \/ Safe(soup[s].id, server, sync.max)
         /\ \A s \in DOMAIN soup' : "created" \in soup'[s].flags => Dead(soup'[s].id, server)
<1>1. PICK s \in batch.unsaved :
         /\ s \in DOMAIN batch.rows /\ Rows[s] \in Row
         /\ \/ Removes(s) /\ soup' = Without(soup, {s})
            \/ Cleans(s) /\ Save(s, CleanRow(s))
            \/ soup' = soup
            \/ Save(s, Rows[s])
  BY SaveAnswerEffect
<1>2. /\ IsDirty(Rows[s])
      /\ s \in DOMAIN soup => soup[s].id = Rows[s].id
      /\ "created" \in Rows[s].flags => Dead(Rows[s].id, server)
      /\ Got(s, {"ok"}) => Safe(Rows[s].id, server, sync.max)
      /\ Got(s, {"gone"}) => Dead(Rows[s].id, server)
  BY <1>1 DEF BatchDates, Rows, Got
<1>3. \A r \in DOMAIN soup : "created" \in soup[r].flags => Dead(soup[r].id, server)
  BY DEF SoupDates
<1>4. CASE Removes(s) /\ soup' = Without(soup, {s})
  <2>1. "created" \in Rows[s].flags \/ Got(s, {"ok"}) \/ Got(s, {"gone"})
    BY <1>4 DEF Removes, Got
  <2>2. Safe(Rows[s].id, server, sync.max)
    BY <1>2, <2>1, DeadIsSafe
  <2>3. DOMAIN soup' = DOMAIN soup \ {s} /\ \A r \in DOMAIN soup \ {s} : soup'[r] = soup[r]
    BY <1>4 DEF Without
  <2>4. QED
    BY <1>2, <1>3, <2>2, <2>3
<1>5. CASE Cleans(s) /\ Save(s, CleanRow(s))
  <2>1. CleanRow(s).flags = {}
    BY <1>1 DEF CleanRow, Row
  <2>2. Safe(Rows[s].id, server, sync.max)
    BY <1>2, <1>5 DEF Cleans
  <2>3. DOMAIN soup' = DOMAIN soup /\ (\A r \in DOMAIN soup \ {s} : soup'[r] = soup[r])
        /\ (s \in DOMAIN soup => soup'[s] = CleanRow(s))
    BY <1>5 DEF Save, With
  <2>4. QED
    BY <1>2, <1>3, <2>1, <2>2, <2>3
<1>6. CASE soup' = soup
  BY <1>3, <1>6
<1>7. CASE Save(s, Rows[s])
  <2>1. DOMAIN soup' = DOMAIN soup /\ (\A r \in DOMAIN soup \ {s} : soup'[r] = soup[r])
        /\ (s \in DOMAIN soup => soup'[s] = Rows[s])
    BY <1>7 DEF Save, With
  <2>2. QED
    BY <1>2, <1>3, <2>1
<1>8. QED
  BY <1>1, <1>4, <1>5, <1>6, <1>7

\* A row replaced by one whose id the element of the row gets.
LEMMA RowReplacedDates ==
  ASSUME TypeInv, KeyInv, BatchDates, UNCHANGED <<server, sync>>,
         NEW s \in DOMAIN batch.rows, NEW row, batch'.rows = [batch.rows EXCEPT ![s] = row],
         s \in DOMAIN soup' => soup'[s].id = row.id,
         \A r \in DOMAIN soup' \ {s} : r \in DOMAIN soup /\ soup'[r] = soup[r],
         "created" \in row.flags => Dead(row.id, server),
         \/ /\ UNCHANGED <<batch.answers, batch.ids>> /\ batch'.unsaved = batch.unsaved \ {s}
            /\ row.id = batch.rows[s].id \/ (Got(s, {"ok"}) /\ row.id = batch.ids[s])
         \/ batch'.answers = None /\ batch'.ids = None /\ batch'.unsaved = {}
  PROVE  BatchDates'
<1>1. /\ DOMAIN batch'.rows = DOMAIN batch.rows /\ batch'.rows[s] = row
      /\ \A r \in DOMAIN batch.rows \ {s} : batch'.rows[r] = batch.rows[r]
  OBVIOUS
<1>2. \A r \in DOMAIN batch'.rows :
         /\ r \in DOMAIN soup' => soup'[r].id = batch'.rows[r].id
         /\ "created" \in batch'.rows[r].flags => Dead(batch'.rows[r].id, server')
  BY <1>1 DEF BatchDates
<1>3. CASE /\ UNCHANGED <<batch.answers, batch.ids>> /\ batch'.unsaved = batch.unsaved \ {s}
           /\ row.id = batch.rows[s].id \/ (Got(s, {"ok"}) /\ row.id = batch.ids[s])
  <2>1. \A r \in batch'.unsaved : IsDirty(batch'.rows[r])
    <3>1. \A r \in batch.unsaved : r \in DOMAIN batch.rows
      BY DEF TypeInv, BatchInv, Pending
    <3>2. QED
      BY <1>1, <1>3, <3>1 DEF BatchDates
  <2>2. \A r \in DOMAIN batch'.ids : Safe(batch'.ids[r], server', sync'.max)
    BY <1>3 DEF BatchDates
  <2>3. ASSUME NEW r \in DOMAIN batch'.answers
        PROVE  /\ r \in DOMAIN batch'.rows
               /\ batch'.answers[r] = "ok" => Safe(batch'.rows[r].id, server', sync'.max)
               /\ batch'.answers[r] = "gone" => Dead(batch'.rows[r].id, server')
    <3>1. CASE r # s \/ row.id = batch.rows[s].id
      BY <1>1, <1>3, <3>1 DEF BatchDates
    <3>2. CASE r = s /\ Got(s, {"ok"}) /\ row.id = batch.ids[s]
      <4>1. s \in DOMAIN batch.ids /\ batch.answers[s] = "ok"
        BY <3>2 DEF Got, TypeInv, BatchInv
      <4>2. QED
        BY <1>1, <1>3, <3>2, <4>1 DEF BatchDates
    <3>3. QED
      BY <1>3, <3>1, <3>2
  <2>4. QED
    BY <1>2, <2>1, <2>2, <2>3 DEF BatchDates
<1>4. CASE batch'.answers = None /\ batch'.ids = None /\ batch'.unsaved = {}
  <2>1. DOMAIN batch'.ids = {} /\ DOMAIN batch'.answers = {}
    BY <1>4, EmptyPartial
  <2>2. QED
    BY <1>2, <1>4, <2>1 DEF BatchDates
<1>5. QED
  BY <1>3, <1>4

LEMMA SaveAnswerDates ==
  ASSUME TypeInv, TypeInv', KeyInv, SoupDates, BatchDates, SaveAnswer, sync' = sync
  PROVE  BatchDates'
<1>1. PICK s \in batch.unsaved :
         /\ server' = server /\ s \in DOMAIN batch.rows /\ Rows[s] \in Row
         /\ \/ Removes(s) /\ soup' = Without(soup, {s}) /\ RowSaved(s, Rows[s])
            \/ Cleans(s) /\ Save(s, CleanRow(s)) /\ RowSaved(s, CleanRow(s))
            \/ Recreates(s) /\ soup' = soup /\ SentAgain(s)
            \/ Save(s, Rows[s]) /\ RowSaved(s, Rows[s])
  BY SaveAnswerEffect
<1>2. Rows[s] = batch.rows[s]
  BY DEF Rows
<1>3. /\ s \in DOMAIN soup => soup[s].id = Rows[s].id
      /\ "created" \in Rows[s].flags => Dead(Rows[s].id, server)
      /\ Got(s, {"gone"}) => Dead(Rows[s].id, server)
  BY <1>1 DEF BatchDates, Rows, Got
<1>4. CASE Removes(s) /\ soup' = Without(soup, {s}) /\ RowSaved(s, Rows[s])
  <2>1. DOMAIN soup' = DOMAIN soup \ {s} /\ \A r \in DOMAIN soup' : soup'[r] = soup[r]
    BY <1>4 DEF Without
  <2>2. /\ batch'.rows = [batch.rows EXCEPT ![s] = Rows[s]]
        /\ UNCHANGED <<batch.answers, batch.ids>> /\ batch'.unsaved = batch.unsaved \ {s}
    BY <1>4 DEF RowSaved
  <2>3. QED
    BY <1>1, <1>2, <1>3, <2>1, <2>2, RowReplacedDates
<1>5. CASE Cleans(s) /\ Save(s, CleanRow(s)) /\ RowSaved(s, CleanRow(s))
  <2>1. CleanRow(s).flags = {} /\ CleanRow(s).id = batch.ids[s]
    BY <1>1 DEF CleanRow, Row
  <2>2. (\A r \in DOMAIN soup' \ {s} : r \in DOMAIN soup /\ soup'[r] = soup[r])
        /\ (s \in DOMAIN soup' => soup'[s] = CleanRow(s))
    BY <1>5 DEF Save, With
  <2>3. /\ batch'.rows = [batch.rows EXCEPT ![s] = CleanRow(s)]
        /\ UNCHANGED <<batch.answers, batch.ids>> /\ batch'.unsaved = batch.unsaved \ {s}
    BY <1>5 DEF RowSaved
  <2>4. Got(s, {"ok"})
    BY <1>5 DEF Cleans
  <2>5. QED
    BY <1>1, <2>1, <2>2, <2>3, <2>4, RowReplacedDates
<1>6. CASE Recreates(s) /\ soup' = soup /\ SentAgain(s)
  <2>1. NewRow(s).id = Rows[s].id
    BY <1>1 DEF NewRow, Row
  <2>2. Dead(Rows[s].id, server)
    BY <1>3, <1>6 DEF Recreates
  <2>3. /\ batch'.rows = [batch.rows EXCEPT ![s] = NewRow(s)]
        /\ batch'.answers = None /\ batch'.ids = None /\ batch'.unsaved = {}
    BY <1>6 DEF SentAgain
  <2>4. QED
    BY <1>1, <1>3, <1>6, <2>1, <2>2, <2>3, RowReplacedDates
<1>7. CASE Save(s, Rows[s]) /\ RowSaved(s, Rows[s])
  <2>1. (\A r \in DOMAIN soup' \ {s} : r \in DOMAIN soup /\ soup'[r] = soup[r])
        /\ (s \in DOMAIN soup' => soup'[s] = Rows[s])
    BY <1>7 DEF Save, With
  <2>2. /\ batch'.rows = [batch.rows EXCEPT ![s] = Rows[s]]
        /\ UNCHANGED <<batch.answers, batch.ids>> /\ batch'.unsaved = batch.unsaved \ {s}
    BY <1>7 DEF RowSaved
  <2>3. QED
    BY <1>1, <1>2, <1>3, <2>1, <2>2, RowReplacedDates
<1>8. QED
  BY <1>1, <1>4, <1>5, <1>6, <1>7

LEMMA BatchStepDates ==
  ASSUME TypeInv, TypeInv', KeyInv, KeysKept, "ties" \notin Ops, Dated, DatesInv,
         SoupDates, BatchDates, BatchStep, sync' = sync
  PROVE  SoupDates' /\ BatchDates'
<1>1. CASE SendRequests
  BY <1>1, SendRequestsEffect, SendRequestsDates, SoupDatesStep
<1>2. CASE SaveAnswer
  <2>1. \A s \in DOMAIN soup' : "created" \in soup'[s].flags => Dead(soup'[s].id, server)
    BY <1>2, SaveAnswerElements
  <2>2. server' = server
    BY <1>2, SaveAnswerEffect
  <2>3. QED
    BY <1>2, <2>1, <2>2, SaveAnswerDates DEF SoupDates
<1>3. CASE ~SendRequests /\ ~SaveAnswer
  BY <1>3, BatchReadsKeys, BatchReadsDates, SoupDatesStep DEF BatchStep, recordVars
<1>4. QED
  BY <1>1, <1>2, <1>3

LEMMA BatchStepHas ==
  ASSUME TypeInv, TypeInv', KeyInv, Dated, DatesInv, SoupDates, BatchDates, BatchStep,
         NEW date \in Nat, date <= sync.max, HasUpTo(date)
  PROVE  HasUpTo(date)'
<1>1. date <= clock
  BY DateNumbers DEF DatesInv
<1>2. CASE soup' = soup
  BY <1>1, <1>2, HasUpToStays
<1>3. CASE SaveAnswer
  <2>1. server' = server
    BY <1>3, SaveAnswerEffect
  <2>2. ASSUME NEW s \in DOMAIN soup, Safe(soup[s].id, server, sync.max)
        PROVE  Safe(soup[s].id, server', date)
    BY <2>1, <2>2, DateNumbers DEF Safe
  <2>3. QED
    BY <1>1, <1>3, <2>2, SaveAnswerElements, HasUpToStays
<1>4. SendRequests => soup' = soup
  BY SendRequestsEffect
<1>5. ~SendRequests /\ ~SaveAnswer => soup' = soup
  BY BatchReadsKeys DEF BatchStep, recordVars
<1>6. QED
  BY <1>2, <1>3, <1>4, <1>5
----------------------------------------------------------------------------
\* A sync down: what it has not saved yet, and what came after it.

LEMMA NextDateNumbers ==
  ASSUME TypeInv, TypeInv'
  PROVE  sync'.max \in Nat /\ down'.max \in Nat /\ down'.syncMax \in Nat
<1>1. MaxClock \in Nat
  BY Bounds DEF TypeInv, TypeOK
<1>2. sync' \in SyncRow /\ down' \in Down
  BY DEF TypeInv, TypeOK, DownTypeOK
<1>3. QED
  BY <1>1, <1>2 DEF SyncRow, Down, Dates

\* The others leave the run alone, and keep the elements or change them here.
LEMMA RunWaits ==
  ASSUME TypeInv, TypeInv', Dated, DatesInv, SkipInv, RunInv, UNCHANGED <<conf, sync, down>>,
         \A s \in DOMAIN soup :
            /\ s \in DOMAIN soup' /\ soup'[s].id = soup[s].id
            /\ soup'[s] = soup[s] \/ IsDirty(soup'[s])
  PROVE  SkipInv' /\ RunInv'
<1>1. SkipInv'
  <2>1. ASSUME NEW i, NEW s \in EntriesOf(i), IsDirty(soup[s])
        PROVE  \E r \in DOMAIN soup' : soup'[r].id = i /\ IsDirty(soup'[r])
    BY <2>1 DEF EntriesOf
  <2>2. ASSUME down.pc \in {"save", "saved", "fetch"}, NEW i \in down.skip \ {LocalId}
        PROVE  \E r \in DOMAIN soup' : soup'[r].id = i /\ IsDirty(soup'[r])
    BY <2>1, <2>2 DEF SkipInv
  <2>3. QED
    BY <2>2 DEF SkipInv, EntriesOf
<1>2. sync.max <= clock /\ down.max <= clock /\ ResumeFrom \in Nat /\ ResumeFrom <= clock
  BY DateNumbers DEF DatesInv, ResumeFrom
<1>3. \A date \in Nat : date <= clock /\ HasUpTo(date) => HasUpTo(date)'
  BY HasUpToStays
<1>4. down.pc = "start" => \A date \in Nat : date <= down.max => HasUpTo(date)'
  BY <1>2, <1>3, DateNumbers DEF RunInv
<1>5. down.pc \in {"idle", "list", "ghosts"} =>
         \A date \in Nat : date <= ResumeFrom => HasUpTo(date)'
  BY <1>2, <1>3, DateNumbers DEF RunInv
<1>6. ASSUME NEW i \in DOMAIN server', server'[i].live
      PROVE  \/ i \in Live /\ server'[i] = server[i]
             \/ /\ server'[i].mod > down.max
                /\ \A x \in Unsaved : server'[i].mod > x.record.mod
  <2>1. \A x \in Unsaved : x \in down.page \union down.rest
    BY DEF Unsaved
  <2>2. CASE clock < clock' /\ server'[i].mod = clock'
    BY <1>2, <2>1, <2>2, DateNumbers DEF DatesInv, Dated
  <2>3. QED
    BY <1>6, <2>2 DEF Dated, Live
<1>7. ASSUME down.pc \in Fetching
      PROVE  /\ \A x \in Unsaved : x.id \in Live' =>
                   \/ x.record = server'[x.id]
                   \/ /\ server'[x.id].mod > down.max
                      /\ \A y \in Unsaved : server'[x.id].mod > y.record.mod
             /\ \A i \in Live' :
                   \/ \E x \in Unsaved : x.id = i
                   \/ \E s \in DOMAIN soup' : /\ soup'[s].id = i
                                              /\ IsDirty(soup'[s])
                                                 \/ soup'[s].edit = server'[i].edit
                   \/ /\ server'[i].mod > down.max
                      /\ \A y \in Unsaved : server'[i].mod > y.record.mod
  <2>1. ASSUME NEW x \in Unsaved, x.id \in Live'
        PROVE  \/ x.record = server'[x.id]
               \/ /\ server'[x.id].mod > down.max
                  /\ \A y \in Unsaved : server'[x.id].mod > y.record.mod
    BY <1>6, <1>7, <2>1 DEF RunInv, Late, Live
  <2>2. ASSUME NEW i \in Live', server'[i] = server[i], i \in Live
        PROVE  \/ \E x \in Unsaved : x.id = i
               \/ \E s \in DOMAIN soup' : /\ soup'[s].id = i
                                          /\ IsDirty(soup'[s]) \/ soup'[s].edit = server'[i].edit
               \/ /\ server'[i].mod > down.max
                  /\ \A y \in Unsaved : server'[i].mod > y.record.mod
    <3>1. Has(i) => \E s \in DOMAIN soup' :
                       soup'[s].id = i /\ (IsDirty(soup'[s]) \/ soup'[s].edit = server'[i].edit)
      BY <2>2 DEF Has, EntriesOf
    <3>2. QED
      BY <1>7, <2>2, <3>1 DEF RunInv, Late
  <2>3. QED
    BY <1>6, <2>1, <2>2 DEF Live
<1>8. RunInv'
  <2>1. Unsaved' = Unsaved /\ ResumeFrom' = ResumeFrom
    BY DEF Unsaved, ResumeFrom
  <2>2. QED
    BY <1>4, <1>5, <1>7, <2>1 DEF RunInv, Late, Has, EntriesOf
<1>9. QED
  BY <1>1, <1>8

\* What the soup has when a run ends between two pages: all that is earlier than its
\* date, and what is as late, unless the pages are sorted.
LEMMA HasUpToDate ==
  ASSUME TypeInv, RunDates, RunInv, down.pc \in Fetching \union {"start"},
         NEW date \in Nat, date <= down.syncMax, Sorted => date < down.syncMax \/ date = 0
  PROVE  HasUpTo(date)
<1>1. down.syncMax <= down.max /\ (Sorted => down.syncMax = down.max)
      /\ down.syncMax \in Nat /\ down.max \in Nat
  BY DateNumbers DEF RunDates
<1>2. CASE down.pc = "start"
  BY <1>1, <1>2 DEF RunInv
<1>3. ASSUME down.pc \in Fetching, NEW i \in Live, server[i].mod <= date
      PROVE  Has(i)
  <2>1. server[i].mod \in Nat /\ server[i].mod > 0
    BY DateNumbers DEF Live
  <2>2. ~Late(i)
    BY <1>1, <1>3, <2>1 DEF Late
  <2>3. ASSUME NEW x \in Unsaved, x.id = i PROVE FALSE
    <3>1. x.record = server[i]
      BY <1>3, <2>2, <2>3 DEF RunInv
    <3>2. x.record.mod > down.syncMax \/ (Sorted /\ x.record.mod >= down.max)
      BY <1>3 DEF RunDates
    <3>3. QED
      BY <1>1, <1>3, <2>1, <3>1, <3>2
  <2>4. QED
    BY <1>3, <2>2, <2>3 DEF RunInv
<1>4. QED
  BY <1>2, <1>3 DEF HasUpTo

\* The dates and the elements of a run that has ended, from what the soup has.
LEMMA IdleRun ==
  ASSUME TypeInv, TypeInv', DatesInv, UNCHANGED <<soup, server, clock>>,
         down'.pc \in {"idle", "list", "ghosts"},
         down'.page \union down'.rest \subseteq down.page \union down.rest,
         down'.max <= clock, down'.syncMax <= clock, sync'.max <= clock,
         NEW from \in Nat,
         sync'.max = from \/ (sync'.status = "STOPPED" /\ sync'.max > 0 /\ from = sync'.max - 1),
         \A date \in Nat : date <= from => HasUpTo(date)
  PROVE  DatesInv' /\ RunDates' /\ SkipInv' /\ RunInv'
<1>1. DatesInv'
  BY DEF DatesInv
<1>2. RunDates' /\ SkipInv'
  BY DEF RunDates, SkipInv, Fetching
<1>3. sync'.max \in Nat
  BY NextDateNumbers
<1>4. ResumeFrom' <= from
  BY <1>3 DEF ResumeFrom
<1>5. ResumeFrom' \in Nat
  BY <1>3 DEF ResumeFrom
<1>6. \A date \in Nat : HasUpTo(date)' <=> HasUpTo(date)
  BY DEF HasUpTo, Has, EntriesOf, Live
<1>7. \A date \in Nat : date <= ResumeFrom' => HasUpTo(date)'
  BY <1>4, <1>5, <1>6
<1>8. RunInv'
  BY <1>7 DEF RunInv, Fetching
<1>9. QED
  BY <1>1, <1>2, <1>8

LEMMA EndsRun ==
  ASSUME TypeInv, TypeInv', DatesInv, RunDates, RunInv, down.pc \in Fetching \union {"start"},
         UNCHANGED <<soup, server, clock>>, down' = IdleDown,
         sync'.max <= down.syncMax, sync'.status = "STOPPED" \/ ~Sorted
  PROVE  DatesInv' /\ RunDates' /\ SkipInv' /\ RunInv'
<1> DEFINE from == IF sync'.status = "STOPPED" /\ sync'.max > 0 THEN sync'.max - 1 ELSE sync'.max
<1>1. sync'.max \in Nat /\ down.syncMax \in Nat /\ clock \in Nat /\ down.syncMax <= clock
  BY DateNumbers, NextDateNumbers DEF DatesInv
<1>2. from \in Nat /\ from <= down.syncMax /\ (Sorted => from < down.syncMax \/ from = 0)
      /\ (sync'.max = from \/ (sync'.status = "STOPPED" /\ sync'.max > 0 /\ from = sync'.max - 1))
  BY <1>1
<1> HIDE DEF from
<1>3. \A date \in Nat : date <= from => HasUpTo(date)
  BY <1>1, <1>2, HasUpToDate
<1>4. /\ down'.pc = "idle" /\ down'.page = {} /\ down'.rest = {} /\ down'.max = 0
      /\ down'.syncMax = 0
  BY DEF IdleDown
<1>5. QED
  BY <1>1, <1>2, <1>3, <1>4, IdleRun

\* Sorted runs do not fail (Resumes): they stop, or their process dies.
LEMMA MayEndRun ==
  ASSUME TypeInv, TypeInv', DatesInv, RunDates, RunInv, Resumes,
         down.pc \in Fetching \union {"start"}, UNCHANGED <<soup, server, clock>>,
         NEW status, MayEnd(status), status \in {"STOPPED", "FAILED"}
  PROVE  DatesInv' /\ RunDates' /\ SkipInv' /\ RunInv'
<1>1. down' = IdleDown /\ sync'.max = down.syncMax /\ sync'.status = status
  BY DEF MayEnd, Ends
<1>2. sync'.status = "STOPPED" \/ ~Sorted
  BY <1>1 DEF Resumes, MayEnd
<1>3. down.syncMax \in Nat
  BY DateNumbers
<1>4. QED
  BY <1>1, <1>2, <1>3, EndsRun

LEMMA FetchPageEffect ==
  ASSUME TypeInv, NEW pc, NEW rest, FetchPage(pc, rest)
  PROVE  /\ down'.pc = pc /\ down'.page \union down'.rest = rest
         /\ down'.max = down.max /\ down'.syncMax = down.syncMax /\ down'.skip = down.skip
         /\ Sorted => \A x \in down'.page, y \in down'.rest : x.record.mod <= y.record.mod
<1>1. PICK page \in Pages(rest) :
         down' = [down EXCEPT !.pc = pc, !.page = page, !.rest = rest \ page]
  BY DEF FetchPage
<1>2. page \subseteq rest
      /\ (Sorted => \A x \in page, y \in rest \ page : x.record.mod <= y.record.mod)
  BY DEF Pages
<1>3. /\ down'.pc = pc /\ down'.page = page /\ down'.rest = rest \ page
      /\ down'.max = down.max /\ down'.syncMax = down.syncMax /\ down'.skip = down.skip
  BY <1>1 DEF TypeInv, TypeOK, DownTypeOK, Down
<1>4. QED
  BY <1>2, <1>3

\* A step of a run that goes on, with the same records before it.
LEMMA RunGoesOn ==
  ASSUME TypeInv, TypeInv', DatesInv, RunDates, RunInv, SkipInv,
         UNCHANGED <<soup, server, clock, conf>>, down.pc \in Fetching, down'.pc \in Fetching,
         Unsaved' = Unsaved, down'.page \union down'.rest \subseteq down.page \union down.rest,
         down'.max = down.max, down'.syncMax = down.syncMax,
         sync'.status = "RUNNING", sync'.max \in {sync.max, down.syncMax},
         Sorted /\ down'.pc \in {"prepare", "save"} =>
            \A x \in down'.page, y \in down'.rest : x.record.mod <= y.record.mod,
         \/ down'.pc = "prepare"
         \/ down.pc # "prepare" /\ down'.skip = down.skip
         \/ \A i \in down'.skip \ {LocalId} : \E s \in EntriesOf(i) : IsDirty(soup[s])
  PROVE  DatesInv' /\ RunDates' /\ SkipInv' /\ RunInv'
<1>1. /\ sync.max \in Nat /\ down.max \in Nat /\ down.syncMax \in Nat /\ clock \in Nat
      /\ down.syncMax <= clock /\ sync.max <= clock /\ down.max <= clock
      /\ sync.max <= down.syncMax /\ down.syncMax <= down.max /\ (Sorted => down.syncMax = down.max)
  BY DateNumbers DEF DatesInv, RunDates
<1>2. DatesInv'
  BY <1>1 DEF DatesInv
<1>3. \A x \in Unsaved : x.record.mod > down.syncMax \/ (Sorted /\ x.record.mod >= down.max)
  BY DEF RunDates
<1>4. sync'.max <= down'.syncMax /\ down'.syncMax <= down'.max
      /\ (Sorted => down'.syncMax = down'.max)
  BY <1>1
<1>5. RunDates'
  <2>1. Sorted' = Sorted
    BY DEF Sorted
  <2>2. QED
    BY <1>3, <1>4, <2>1 DEF RunDates
<1>6. SkipInv'
  <2>1. CASE down'.pc = "prepare"
    BY <2>1 DEF SkipInv
  <2>2. CASE down.pc # "prepare" /\ down'.skip = down.skip
    BY <2>2 DEF SkipInv, EntriesOf, Fetching
  <2>3. CASE \A i \in down'.skip \ {LocalId} : \E s \in EntriesOf(i) : IsDirty(soup[s])
    BY <2>3 DEF SkipInv, EntriesOf
  <2>4. QED
    BY <2>1, <2>2, <2>3
<1>7. RunInv'
  <2>1. down'.pc \notin {"start", "idle", "list", "ghosts"}
    BY DEF Fetching
  <2>2. /\ \A x \in Unsaved : x.id \in Live =>
              \/ x.record = server[x.id]
              \/ /\ server[x.id].mod > down.max
                 /\ \A y \in Unsaved : server[x.id].mod > y.record.mod
        /\ \A i \in Live :
              \/ \E x \in Unsaved : x.id = i
              \/ Has(i)
              \/ server[i].mod > down.max /\ \A y \in Unsaved : server[i].mod > y.record.mod
    BY DEF RunInv, Late
  <2>3. \A i : Has(i)' <=> Has(i)
    BY DEF Has, EntriesOf
  <2>4. Live' = Live
    BY DEF Live
  <2>5. QED
    BY <2>1, <2>2, <2>3, <2>4 DEF RunInv, Late
<1>8. QED
  BY <1>2, <1>5, <1>6, <1>7

LEMMA StartSyncDownRun ==
  ASSUME TypeInv, TypeInv', DatesInv, RunInv, StartSyncDown, conf' = conf
  PROVE  DatesInv' /\ RunDates' /\ SkipInv' /\ RunInv'
<1>1. /\ sync.max \in Nat /\ clock \in Nat /\ sync.max <= clock
      /\ ResumeFrom \in Nat /\ ResumeFrom <= sync.max
  BY DateNumbers DEF DatesInv, ResumeFrom
<1>2. /\ down.pc = "idle" /\ sync' = [status |-> "RUNNING", max |-> ResumeFrom]
      /\ down' = [IdleDown EXCEPT !.pc = "start", !.max = ResumeFrom, !.syncMax = ResumeFrom]
      /\ UNCHANGED <<soup, server, clock>>
  BY DEF StartSyncDown, recordVars
<1>3. PICK from \in Nat : from = ResumeFrom
  BY <1>1
<1>4. /\ sync'.status = "RUNNING" /\ sync'.max = from
      /\ down'.pc = "start" /\ down'.max = from /\ down'.syncMax = from
      /\ down'.page = {} /\ down'.rest = {}
  BY <1>2, <1>3 DEF IdleDown
<1>5. DatesInv'
  BY <1>1, <1>2, <1>3, <1>4 DEF DatesInv
<1>6. RunDates' /\ SkipInv'
  BY <1>4 DEF RunDates, SkipInv, Fetching
<1>7. \A date \in Nat : date <= from => HasUpTo(date)
  BY <1>2, <1>3 DEF RunInv
<1>8. \A date \in Nat : HasUpTo(date)' <=> HasUpTo(date)
  BY <1>2 DEF HasUpTo, Has, EntriesOf, Live
<1>9. RunInv'
  BY <1>4, <1>7, <1>8 DEF RunInv, Fetching
<1>10. QED
  BY <1>5, <1>6, <1>9

LEMMA StartFetchRun ==
  ASSUME TypeInv, TypeInv', DatesInv, RunDates, RunInv, Resumes, StartFetch, conf' = conf
  PROVE  DatesInv' /\ RunDates' /\ SkipInv' /\ RunInv'
<1>1. down.pc = "start" /\ UNCHANGED <<soup, server, clock>>
  BY DEF StartFetch, recordVars
<1>2. CASE MayEnd("STOPPED") \/ MayEnd("FAILED")
  BY <1>1, <1>2, MayEndRun
<1>3. CASE FetchPage("prepare", Matching(down.max)) /\ UNCHANGED sync
  <2>1. /\ down'.pc = "prepare" /\ down'.page \union down'.rest = Matching(down.max)
        /\ down'.max = down.max /\ down'.syncMax = down.syncMax
        /\ Sorted => \A x \in down'.page, y \in down'.rest : x.record.mod <= y.record.mod
    BY <1>3, FetchPageEffect
  <2>2. PICK matching : matching = Matching(down.max)
    OBVIOUS
  <2>3. /\ \A x \in matching :
              x.id \in Live /\ x.record = server[x.id] /\ server[x.id].mod > down.max
        /\ \A i \in Live : server[i].mod > down.max => \E x \in matching : x.id = i
    <3>1. \A x \in matching : \E i \in Live : server[i].mod > down.max
                                              /\ x = [id |-> i, record |-> server[i]]
      BY <2>2 DEF Matching
    <3>2. \A i \in Live : server[i].mod > down.max => [id |-> i, record |-> server[i]] \in matching
      BY <2>2 DEF Matching
    <3>3. ASSUME NEW x \in matching
          PROVE  x.id \in Live /\ x.record = server[x.id] /\ server[x.id].mod > down.max
      <4>1. PICK i \in Live : server[i].mod > down.max /\ x = [id |-> i, record |-> server[i]]
        BY <3>1
      <4>2. x.id = i /\ x.record = server[i]
        BY <4>1
      <4>3. QED
        BY <4>1, <4>2
    <3>4. ASSUME NEW i \in Live, server[i].mod > down.max
          PROVE  \E x \in matching : x.id = i
      <4>1. PICK x : x = [id |-> i, record |-> server[i]]
        OBVIOUS
      <4>2. x \in matching /\ x.id = i
        BY <3>2, <3>4, <4>1
      <4>3. QED
        BY <4>2
    <3>5. QED
      BY <3>3, <3>4
  <2>4. /\ sync.max \in Nat /\ down.max \in Nat /\ down.syncMax \in Nat /\ clock \in Nat
        /\ down.syncMax <= clock /\ sync.max <= clock /\ down.max <= clock
        /\ sync.max <= down.syncMax /\ down.syncMax <= down.max
        /\ (Sorted => down.syncMax = down.max) /\ sync.status = "RUNNING"
    BY <1>1, DateNumbers DEF DatesInv, RunDates
  <2>5. \A i \in Live : server[i].mod \in Nat /\ server[i].mod <= clock
    BY DateNumbers DEF DatesInv, Live
  <2>6. down'.page \union down'.rest = matching /\ Unsaved' = matching
    BY <2>1, <2>2 DEF Unsaved
  <2>7. DatesInv'
    BY <1>1, <1>3, <2>1, <2>3, <2>4, <2>5, <2>6 DEF DatesInv
  <2>8. \A x \in matching : x.record.mod > down.syncMax
    BY <2>3, <2>4, <2>5
  <2>9. RunDates'
    <3>1. Sorted' = Sorted
      BY DEF Sorted
    <3>2. QED
      BY <1>3, <2>1, <2>4, <2>6, <2>8, <3>1 DEF RunDates
  <2>10. SkipInv'
    BY <2>1 DEF SkipInv
  <2>11. HasUpTo(down.max)
    BY <1>1, <2>4 DEF RunInv
  <2>12. \A i \in Live : (\E x \in matching : x.id = i) \/ Has(i)
    BY <2>3, <2>4, <2>5, <2>11 DEF HasUpTo
  <2>13. Live' = Live /\ \A i : Has(i)' <=> Has(i)
    BY <1>1 DEF Live, Has, EntriesOf
  <2>14. RunInv'
    BY <1>1, <2>1, <2>3, <2>6, <2>12, <2>13 DEF RunInv
  <2>15. QED
    BY <2>7, <2>9, <2>10, <2>14
<1>4. QED
  BY <1>2, <1>3 DEF StartFetch

LEMMA GetIdsToSkipRun ==
  ASSUME TypeInv, TypeInv', DatesInv, RunDates, SkipInv, RunInv, GetIdsToSkip, conf' = conf
  PROVE  DatesInv' /\ RunDates' /\ SkipInv' /\ RunInv'
<1>1. PICK skip : skip = IF DownMergeMode = "LEAVE_IF_CHANGED"
                         THEN {soup[s].id : s \in DirtyEntries} ELSE {}
  OBVIOUS
<1>2. /\ down.pc = "prepare" /\ UNCHANGED <<soup, server, clock>>
      /\ down' = [down EXCEPT !.pc = "save", !.skip = skip]
      /\ sync' = [status |-> "RUNNING", max |-> down.syncMax]
  BY <1>1 DEF GetIdsToSkip, recordVars
<1>3. /\ down'.pc = "save" /\ down'.skip = skip /\ down'.page = down.page
      /\ down'.rest = down.rest /\ down'.max = down.max /\ down'.syncMax = down.syncMax
  BY <1>2 DEF TypeInv, TypeOK, DownTypeOK, Down
<1>4. \A i \in skip : \E s \in EntriesOf(i) : IsDirty(soup[s])
  BY <1>1 DEF DirtyEntries, EntriesOf
<1>5. Unsaved' = Unsaved
  BY <1>2, <1>3 DEF Unsaved
<1>6. Sorted => \A x \in down'.page, y \in down'.rest : x.record.mod <= y.record.mod
  BY <1>2, <1>3 DEF RunDates
<1>7. down.pc \in Fetching /\ down'.pc \in Fetching
  BY <1>2, <1>3 DEF Fetching
<1>8. sync'.status = "RUNNING" /\ sync'.max = down.syncMax
  BY <1>2
<1>9. QED
  BY <1>2, <1>3, <1>4, <1>5, <1>6, <1>7, <1>8, RunGoesOn

LEMMA SaveProgressRun ==
  ASSUME TypeInv, TypeInv', DatesInv, RunDates, SkipInv, RunInv, SaveProgress, conf' = conf
  PROVE  DatesInv' /\ RunDates' /\ SkipInv' /\ RunInv'
<1>1. /\ down.pc = "saved" /\ UNCHANGED <<soup, server, clock>>
      /\ down' = [down EXCEPT !.pc = "fetch", !.page = {}]
      /\ sync' = sync \/ sync' = [status |-> "RUNNING", max |-> down.syncMax]
  BY DEF SaveProgress, recordVars
<1>2. /\ down'.pc = "fetch" /\ down'.page = {} /\ down'.rest = down.rest
      /\ down'.max = down.max /\ down'.syncMax = down.syncMax /\ down'.skip = down.skip
  BY <1>1 DEF TypeInv, TypeOK, DownTypeOK, Down
<1>3. Unsaved' = Unsaved
  BY <1>1, <1>2 DEF Unsaved
<1>4. down.pc \in Fetching /\ down'.pc \in Fetching
  BY <1>1, <1>2 DEF Fetching
<1>5. sync'.status = "RUNNING" /\ sync'.max \in {sync.max, down.syncMax}
  BY <1>1, <1>4 DEF RunDates
<1>6. QED
  BY <1>1, <1>2, <1>3, <1>4, <1>5, RunGoesOn

LEMMA ContinueFetchRun ==
  ASSUME TypeInv, TypeInv', DatesInv, RunDates, SkipInv, RunInv, Resumes, ContinueFetch,
         conf' = conf
  PROVE  DatesInv' /\ RunDates' /\ SkipInv' /\ RunInv'
<1>1. down.pc = "fetch" /\ UNCHANGED <<soup, server, clock>> /\ down.pc \in Fetching
  BY DEF ContinueFetch, recordVars, Fetching
<1>2. CASE MayEnd("FAILED")
  BY <1>1, <1>2, MayEndRun
<1>3. CASE FetchPage("save", down.rest) /\ UNCHANGED sync
  <2>1. /\ down'.pc = "save" /\ down'.page \union down'.rest = down.rest
        /\ down'.max = down.max /\ down'.syncMax = down.syncMax /\ down'.skip = down.skip
        /\ Sorted => \A x \in down'.page, y \in down'.rest : x.record.mod <= y.record.mod
    BY <1>3, FetchPageEffect
  <2>2. Unsaved' = Unsaved
    BY <1>1, <2>1 DEF Unsaved
  <2>3. sync'.status = "RUNNING" /\ sync'.max = sync.max
    BY <1>1, <1>3 DEF RunDates
  <2>4. down'.pc \in Fetching
    BY <2>1 DEF Fetching
  <2>5. QED
    BY <1>1, <2>1, <2>2, <2>3, <2>4, RunGoesOn
<1>4. QED
  BY <1>2, <1>3 DEF ContinueFetch

LEMMA EndSyncDownRun ==
  ASSUME TypeInv, TypeInv', DatesInv, RunDates, RunInv, EndSyncDown, conf' = conf
  PROVE  DatesInv' /\ RunDates' /\ SkipInv' /\ RunInv'
<1>1. /\ down.pc = "fetch" /\ down.rest = {} /\ down' = IdleDown
      /\ sync' = [status |-> "DONE", max |-> down.max] /\ UNCHANGED <<soup, server, clock>>
  BY DEF EndSyncDown, recordVars
<1>2. down.max \in Nat /\ clock \in Nat /\ down.max <= clock
  BY DateNumbers DEF DatesInv
<1>3. ASSUME NEW date \in Nat, date <= down.max, NEW i \in Live, server[i].mod <= date
      PROVE  Has(i)
  <2>1. server[i].mod \in Nat
    BY DateNumbers DEF Live
  <2>2. ~Late(i) /\ Unsaved = {}
    BY <1>1, <1>2, <1>3, <2>1 DEF Late, Unsaved
  <2>3. QED
    BY <1>1, <2>2 DEF RunInv, Fetching
<1>4. \A date \in Nat : date <= down.max => HasUpTo(date)
  BY <1>3 DEF HasUpTo
<1>5. /\ down'.pc = "idle" /\ down'.page = {} /\ down'.rest = {} /\ down'.max = 0
      /\ down'.syncMax = 0 /\ sync'.max = down.max
  BY <1>1 DEF IdleDown
<1>6. QED
  BY <1>1, <1>2, <1>4, <1>5, IdleRun

LEMMA GhostsRun ==
  ASSUME TypeInv, TypeInv', DatesInv, RunInv, StartGhosts \/ GetRemoteIds, conf' = conf
  PROVE  DatesInv' /\ RunDates' /\ SkipInv' /\ RunInv'
<1>1. /\ down.pc \in {"idle", "list"} /\ sync' = sync /\ UNCHANGED <<soup, server, clock>>
  BY DEF StartGhosts, GetRemoteIds, recordVars
<1>2. sync.max \in Nat /\ clock \in Nat /\ sync.max <= clock /\ down.syncMax <= clock
      /\ down.max <= clock
  BY DateNumbers DEF DatesInv
<1>3. \A date \in Nat : date <= ResumeFrom => HasUpTo(date)
  BY <1>1 DEF RunInv
<1>4. /\ ResumeFrom \in Nat
      /\ \/ sync'.max = ResumeFrom
         \/ sync'.status = "STOPPED" /\ sync'.max > 0 /\ ResumeFrom = sync'.max - 1
  BY <1>1, <1>2 DEF ResumeFrom
<1>5. /\ down'.pc \in {"idle", "list", "ghosts"}
      /\ down'.page \union down'.rest \subseteq down.page \union down.rest
      /\ down'.max <= clock /\ down'.syncMax <= clock
  <2>1. CASE StartGhosts
    BY <1>2, <2>1 DEF StartGhosts, IdleDown
  <2>2. CASE down' = IdleDown
    BY <1>2, <2>2 DEF IdleDown
  <2>3. CASE down.pc = "list" /\ down' = [down EXCEPT !.pc = "ghosts", !.remote = Live]
    <3>1. /\ down'.pc = "ghosts" /\ down'.page = down.page /\ down'.rest = down.rest
          /\ down'.max = down.max /\ down'.syncMax = down.syncMax
      BY <2>3 DEF TypeInv, TypeOK, DownTypeOK, Down
    <3>2. QED
      BY <1>2, <2>3, <3>1
  <2>4. QED
    BY <2>1, <2>2, <2>3 DEF GetRemoteIds
<1>6. QED
  BY <1>1, <1>2, <1>3, <1>4, <1>5, IdleRun

\* A page that is saved: each record that is not skipped is in the soup, and no other
\* element has changed.
LEMMA SavedHas ==
  ASSUME TypeInv, KeyInv,
         NEW order \in Bijection(NewOnes, nextEntry .. nextEntry + Cardinality(NewOnes) - 1),
         soup' = Upserted(order)
  PROVE  /\ \A x \in ToSave : \E s \in DOMAIN soup' :
               soup'[s].id = x.id /\ soup'[s].edit = x.record.edit
         /\ \A s \in DOMAIN soup : (\A x \in ToSave : x.id # soup[s].id) =>
               s \in DOMAIN soup' /\ soup'[s] = soup[s]
<1> DEFINE fresh == nextEntry .. nextEntry + Cardinality(NewOnes) - 1
<1>1. DOMAIN soup' = DOMAIN soup \union fresh
  BY UpsertedEffect
<1>2. \A x \in NewOnes : order[x] \in fresh
  BY DEF Bijection, Injection, Surjection
<1>3. \A x, y \in NewOnes : order[x] = order[y] => x = y
  BY DEF Bijection, Injection, IsInjective
<1>4. ASSUME NEW x \in ToSave
      PROVE  Downloaded(x.id, x.record).id = x.id
             /\ Downloaded(x.id, x.record).edit = x.record.edit
  BY DEF Downloaded
<1>5. ASSUME NEW x \in NewOnes
      PROVE  \E s \in DOMAIN soup' : soup'[s].id = x.id /\ soup'[s].edit = x.record.edit
  <2>1. order[x] \in fresh /\ order[x] \in DOMAIN soup' /\ order[x] \notin DOMAIN soup
    BY <1>1, <1>2, UpsertedEffect
  <2>2. PICK y \in NewOnes :
           order[y] = order[x] /\ soup'[order[x]] = Downloaded(y.id, y.record)
    BY <2>1, SavedPageEffect
  <2>3. y = x
    BY <1>3, <2>2
  <2>4. x \in ToSave
    BY DEF NewOnes
  <2>5. QED
    BY <1>4, <2>1, <2>2, <2>3, <2>4
<1>6. ASSUME NEW x \in ToSave, x \notin NewOnes
      PROVE  \E s \in DOMAIN soup' : soup'[s].id = x.id /\ soup'[s].edit = x.record.edit
  <2>1. PICK s \in DOMAIN soup : soup[s].id = x.id
    BY <1>6 DEF NewOnes, EntriesOf
  <2>2. PICK y \in ToSave : y.id = soup[s].id /\ soup'[s] = Downloaded(y.id, y.record)
    BY <1>6, <2>1, UpsertedEffect
  <2>3. x \in down.page /\ y \in down.page
    BY DEF ToSave
  <2>4. y = x
    BY <2>1, <2>2, <2>3 DEF KeyInv, DownKeys
  <2>5. QED
    BY <1>1, <1>4, <2>1, <2>2, <2>4
<1>7. QED
  BY <1>1, <1>5, <1>6, UpsertedEffect

\* The dates after a page that is saved.
LEMMA PageDates ==
  ASSUME TypeInv, DatesInv, RunDates, down.pc = "save"
  PROVE  LET newMax == Max({down.max} \union {x.record.mod : x \in down.page}) IN
         /\ newMax \in Nat /\ newMax <= clock /\ down.max <= newMax
         /\ \A x \in down.page : x.record.mod <= newMax
         /\ Sorted => \A y \in down.rest : y.record.mod >= newMax
<1> DEFINE dates == {down.max} \union {x.record.mod : x \in down.page}
           newMax == Max(dates)
<1>1. /\ down.max \in Nat /\ clock \in Nat /\ down.max <= clock /\ down.syncMax \in Nat
      /\ \A x \in down.page \union down.rest : x.record.mod \in Nat /\ x.record.mod <= clock
  BY DateNumbers DEF DatesInv
<1>2. dates \in SUBSET (0 .. clock) /\ dates # {}
  BY <1>1
<1> HIDE DEF dates
<1>3. newMax \in dates /\ \A t \in dates : newMax >= t
  BY <1>1, <1>2, MaxOf
<1> HIDE DEF newMax
<1>4. newMax \in Nat /\ newMax <= clock
  BY <1>1, <1>2, <1>3
<1>5. down.max <= newMax /\ \A x \in down.page : x.record.mod <= newMax
  BY <1>3 DEF dates
<1>6. ASSUME Sorted, NEW y \in down.rest PROVE y.record.mod >= newMax
  <2>1. down.max = down.syncMax
    BY <1>6 DEF RunDates, Fetching
  <2>2. y.record.mod > down.syncMax \/ y.record.mod >= down.max
    BY DEF RunDates, Fetching, Unsaved
  <2>3. y.record.mod >= down.max
    BY <1>1, <2>1, <2>2
  <2>4. \A x \in down.page : x.record.mod <= y.record.mod
    BY <1>6 DEF RunDates
  <2>5. CASE newMax = down.max
    BY <2>3, <2>5
  <2>6. CASE \E x \in down.page : newMax = x.record.mod
    BY <1>1, <2>4, <2>6
  <2>7. QED
    BY <1>3, <2>5, <2>6 DEF dates
<1>7. QED
  BY <1>4, <1>5, <1>6 DEF newMax, dates

LEMMA SavedPageRun ==
  ASSUME TypeInv, TypeInv', KeyInv, DatesInv, RunDates, SkipInv, RunInv, down.pc = "save",
         UNCHANGED <<server, clock, sync, conf>>,
         NEW order \in Bijection(NewOnes, nextEntry .. nextEntry + Cardinality(NewOnes) - 1),
         soup' = Upserted(order), NEW newMax,
         newMax = Max({down.max} \union {x.record.mod : x \in down.page}),
         down' = [down EXCEPT !.pc = "saved", !.max = newMax, !.syncMax = Progress(newMax)]
  PROVE  DatesInv' /\ RunDates' /\ SkipInv' /\ RunInv'
<1>1. /\ newMax \in Nat /\ newMax <= clock /\ down.max <= newMax
      /\ \A x \in down.page : x.record.mod <= newMax
      /\ Sorted => \A y \in down.rest : y.record.mod >= newMax
  BY PageDates
<1>2. /\ down'.pc = "saved" /\ down'.page = down.page /\ down'.rest = down.rest
      /\ down'.max = newMax /\ down'.syncMax = Progress(newMax) /\ down'.skip = down.skip
  BY DEF TypeInv, TypeOK, DownTypeOK, Down
<1>3. /\ down'.syncMax = IF Sorted THEN newMax ELSE down.syncMax
      /\ Unsaved = down.page \union down.rest /\ Unsaved' = down.rest
  BY <1>2 DEF Progress, Unsaved
<1>4. /\ down.max \in Nat /\ clock \in Nat /\ down.max <= clock /\ down.syncMax \in Nat
      /\ down.syncMax <= clock /\ sync.max <= clock /\ sync.max \in Nat
      /\ sync.status = "RUNNING" /\ sync.max <= down.syncMax /\ down.syncMax <= down.max
      /\ Sorted => down.syncMax = down.max
      /\ \A x \in down.page \union down.rest : x.record.mod \in Nat /\ x.id \in Ids
  BY DateNumbers DEF DatesInv, RunDates, Fetching
<1>5. DatesInv'
  BY <1>1, <1>2, <1>3, <1>4 DEF DatesInv
<1>6. RunDates'
  <2>1. sync'.max <= down'.syncMax /\ down'.syncMax <= down'.max
        /\ (Sorted => down'.syncMax = down'.max) /\ sync'.status = "RUNNING"
    BY <1>1, <1>2, <1>3, <1>4
  <2>2. ASSUME NEW x \in down.rest
        PROVE  x.record.mod > down'.syncMax \/ (Sorted /\ x.record.mod >= down'.max)
    <3>1. x.record.mod > down.syncMax \/ (Sorted /\ x.record.mod >= down.max)
      BY <1>3 DEF RunDates, Fetching
    <3>2. QED
      BY <1>1, <1>2, <1>3, <3>1
  <2>3. Sorted' = Sorted
    BY DEF Sorted
  <2>4. QED
    BY <1>2, <1>3, <2>1, <2>2, <2>3 DEF RunDates
<1>7. /\ \A x \in ToSave : \E s \in DOMAIN soup' :
            soup'[s].id = x.id /\ soup'[s].edit = x.record.edit
      /\ \A s \in DOMAIN soup : (\A x \in ToSave : x.id # soup[s].id) =>
            s \in DOMAIN soup' /\ soup'[s] = soup[s]
  BY SavedHas
<1>8. ASSUME NEW i \in down.skip \ {LocalId}
      PROVE  \E s \in DOMAIN soup' : soup'[s].id = i /\ IsDirty(soup'[s])
  <2>1. PICK s \in DOMAIN soup : soup[s].id = i /\ IsDirty(soup[s])
    BY DEF SkipInv, EntriesOf
  <2>2. \A x \in ToSave : x.id # soup[s].id
    BY <2>1 DEF ToSave
  <2>3. QED
    BY <1>7, <2>1, <2>2
<1>9. SkipInv'
  BY <1>2, <1>8 DEF SkipInv, EntriesOf
<1>10. /\ \A x \in Unsaved : x.id \in Live => x.record = server[x.id] \/ Late(x.id)
       /\ \A i \in Live : (\E x \in Unsaved : x.id = i) \/ Has(i) \/ Late(i)
  BY DEF RunInv, Fetching
<1>11. ASSUME NEW i \in Live, Late(i)
       PROVE  server[i].mod > newMax /\ \A y \in down.rest : server[i].mod > y.record.mod
  <2>1. server[i].mod > down.max /\ \A x \in down.page : server[i].mod > x.record.mod
    BY <1>3, <1>11 DEF Late
  <2>2. newMax \in {down.max} \union {x.record.mod : x \in down.page}
    <3>1. {down.max} \union {x.record.mod : x \in down.page} \in SUBSET (0 .. clock)
      BY <1>4, DateNumbers DEF DatesInv
    <3>2. QED
      BY <1>4, <3>1, MaxOf
  <2>3. QED
    BY <1>3, <1>11, <2>1, <2>2 DEF Late
<1>12. ASSUME NEW i \in Live, ~Late(i)
       PROVE  \/ \E x \in down.rest : x.id = i
              \/ \E s \in DOMAIN soup' : /\ soup'[s].id = i
                                         /\ IsDirty(soup'[s]) \/ soup'[s].edit = server[i].edit
  <2>1. CASE \E x \in down.page : x.id = i
    <3>1. PICK x \in down.page : x.id = i
      BY <2>1
    <3>2. x.record = server[i]
      BY <1>3, <1>10, <1>12, <3>1
    <3>3. CASE x \in ToSave
      BY <1>7, <3>1, <3>2, <3>3
    <3>4. CASE x \notin ToSave
      <4>1. i \in down.skip \ {LocalId}
        BY <1>4, <3>1, <3>4 DEF ToSave, LocalId, Ids
      <4>2. QED
        BY <1>8, <4>1
    <3>5. QED
      BY <3>3, <3>4
  <2>2. CASE (\A x \in down.page : x.id # i) /\ Has(i)
    <3>1. PICK s \in DOMAIN soup :
             soup[s].id = i /\ (IsDirty(soup[s]) \/ soup[s].edit = server[i].edit)
      BY <2>2 DEF Has, EntriesOf
    <3>2. \A x \in ToSave : x.id # soup[s].id
      BY <2>2, <3>1 DEF ToSave
    <3>3. QED
      BY <1>7, <3>1, <3>2
  <2>3. QED
    BY <1>3, <1>10, <1>12, <2>1, <2>2
<1>13. RunInv'
  <2>1. ASSUME NEW x \in down.rest, x.id \in Live
        PROVE  \/ x.record = server[x.id]
               \/ /\ server[x.id].mod > newMax
                  /\ \A y \in down.rest : server[x.id].mod > y.record.mod
    BY <1>3, <1>10, <1>11, <2>1
  <2>2. ASSUME NEW i \in Live
        PROVE  \/ \E x \in down.rest : x.id = i
               \/ \E s \in DOMAIN soup' : /\ soup'[s].id = i
                                          /\ IsDirty(soup'[s]) \/ soup'[s].edit = server[i].edit
               \/ server[i].mod > newMax /\ \A y \in down.rest : server[i].mod > y.record.mod
    BY <1>11, <1>12
  <2>3. Live' = Live /\ server' = server
    BY DEF Live
  <2>4. QED
    BY <1>2, <1>3, <2>1, <2>2, <2>3 DEF RunInv, Late, Has, EntriesOf
<1>14. QED
  BY <1>5, <1>6, <1>9, <1>13

\* A record with two elements would fail a sorted run: there is none (Resumes).
LEMMA SavePageRun ==
  ASSUME TypeInv, TypeInv', KeyInv, IdInv, OneElementPerKey, DatesInv, RunDates, SkipInv,
         RunInv, Resumes, SavePage, conf' = conf
  PROVE  DatesInv' /\ RunDates' /\ SkipInv' /\ RunInv'
<1>1. down.pc = "save" /\ UNCHANGED <<server, clock>> /\ down.pc \in Fetching
  BY DEF SavePage, Fetching
<1>2. CASE MayEnd("STOPPED") /\ soup' = soup
  BY <1>1, <1>2, MayEndRun
<1>3. CASE Ambiguous /\ Ends("FAILED") /\ soup' = soup
  <2>1. down' = IdleDown /\ sync'.max = down.syncMax
    BY <1>3 DEF Ends
  <2>2. ASSUME Sorted PROVE FALSE
    <3>1. IdsAreUnique
      BY <2>2, UniqueIds DEF Resumes
    <3>2. PICK x \in ToSave : Cardinality(EntriesOf(x.id)) > 1
      BY <1>3 DEF Ambiguous
    <3>3. x \in down.page \union down.rest
      BY <3>2 DEF ToSave
    <3>4. x.id \in Ids
      BY <3>3, DateNumbers
    <3>5. Cardinality(EntriesOf(x.id)) <= 1
      BY <3>1, <3>4 DEF IdsAreUnique
    <3>6. EntriesOf(x.id) \subseteq DOMAIN soup /\ DOMAIN soup \subseteq 1 .. MaxEntries
          /\ MaxEntries \in Nat
      BY Bounds DEF EntriesOf, TypeInv, TypeOK, RecordsTypeOK, Entries
    <3>7. IsFiniteSet(EntriesOf(x.id))
      <4>1. IsFiniteSet(1 .. MaxEntries)
        BY <3>6, FS_Interval
      <4>2. EntriesOf(x.id) \in SUBSET (1 .. MaxEntries)
        BY <3>6
      <4>3. QED
        BY <4>1, <4>2, FS_Subset
    <3>8. QED
      BY <3>2, <3>5, <3>7, FS_CardinalityType
  <2>3. down.syncMax \in Nat
    BY DateNumbers
  <2>4. QED
    BY <1>1, <1>3, <2>1, <2>2, <2>3, EndsRun
<1> DEFINE newMax == Max({down.max} \union {x.record.mod : x \in down.page})
<1>4. ASSUME NEW order \in Bijection(NewOnes, nextEntry .. nextEntry + Cardinality(NewOnes) - 1),
             soup' = Upserted(order), sync' = sync,
             down' = [down EXCEPT !.pc = "saved", !.max = newMax, !.syncMax = Progress(newMax)]
      PROVE  DatesInv' /\ RunDates' /\ SkipInv' /\ RunInv'
  <2>1. PICK max : max = newMax
    OBVIOUS
  <2>2. max = Max({down.max} \union {x.record.mod : x \in down.page})
    BY <2>1
  <2> HIDE DEF newMax
  <2>3. QED
    BY <1>1, <1>4, <2>1, <2>2, SavedPageRun
<1>5. \/ /\ \E order \in Bijection(NewOnes, nextEntry .. nextEntry + Cardinality(NewOnes) - 1) :
               soup' = Upserted(order)
         /\ down' = [down EXCEPT !.pc = "saved", !.max = newMax, !.syncMax = Progress(newMax)]
         /\ UNCHANGED sync
      \/ Ambiguous /\ Ends("FAILED") /\ UNCHANGED <<soup, nextEntry, latest>>
      \/ MayEnd("STOPPED") /\ UNCHANGED <<soup, nextEntry, latest>>
  BY Zenon DEF SavePage
<1> HIDE DEF newMax
<1>6. QED
  BY <1>2, <1>3, <1>4, <1>5

LEMMA DeleteGhostsRun ==
  ASSUME TypeInv, TypeInv', GhostInv, DatesInv, RunInv, DeleteGhosts, conf' = conf
  PROVE  DatesInv' /\ RunDates' /\ SkipInv' /\ RunInv'
<1>1. /\ down.pc = "ghosts" /\ down' = IdleDown /\ UNCHANGED <<server, clock, sync>>
      /\ soup' = Without(soup, UNION {EntriesOf(i) : i \in down.ids \ down.remote})
  BY DEF DeleteGhosts
<1>2. Dated
  BY <1>1, NotDated
<1>3. ASSUME NEW s \in DOMAIN soup
      PROVE  \/ s \in DOMAIN soup' /\ soup'[s] = soup[s]
             \/ soup[s].id \notin Live
  <2>1. CASE s \in UNION {EntriesOf(i) : i \in down.ids \ down.remote}
    BY <1>1, <2>1 DEF GhostInv, EntriesOf
  <2>2. CASE s \notin UNION {EntriesOf(i) : i \in down.ids \ down.remote}
    BY <1>1, <2>2 DEF Without
  <2>3. QED
    BY <2>1, <2>2
<1>4. sync.max \in Nat /\ clock \in Nat /\ sync.max <= clock /\ ResumeFrom \in Nat
      /\ ResumeFrom <= sync.max
  BY DateNumbers DEF DatesInv, ResumeFrom
<1>5. ASSUME NEW date \in Nat, date <= ResumeFrom
      PROVE  HasUpTo(date)'
  <2>1. HasUpTo(date)
    BY <1>1, <1>5 DEF RunInv
  <2>2. date <= clock
    BY <1>4, <1>5
  <2>3. \A s \in DOMAIN soup : soup[s].id \notin Live => Safe(soup[s].id, server', date)
    BY <1>1 DEF Safe, Live
  <2>4. QED
    BY <1>2, <1>3, <2>1, <2>2, <2>3, HasUpToStays
<1>6. ResumeFrom' = ResumeFrom
  BY <1>1 DEF ResumeFrom
<1>7. /\ down'.pc = "idle" /\ down'.page = {} /\ down'.rest = {} /\ down'.max = 0
      /\ down'.syncMax = 0
  BY <1>1 DEF IdleDown
<1>8. DatesInv'
  BY <1>1, <1>4, <1>7 DEF DatesInv
<1>9. RunDates' /\ SkipInv'
  BY <1>7 DEF RunDates, SkipInv, Fetching
<1>10. RunInv'
  BY <1>5, <1>6, <1>7 DEF RunInv, Fetching
<1>11. QED
  BY <1>8, <1>9, <1>10

LEMMA CrashRun ==
  ASSUME TypeInv, TypeInv', DatesInv, RunDates, RunInv, Crash, conf' = conf
  PROVE  DatesInv' /\ RunDates' /\ SkipInv' /\ RunInv'
<1>1. /\ down' = IdleDown /\ UNCHANGED <<soup, server, clock>> /\ sync'.max = sync.max
      /\ sync.status = "RUNNING" => sync'.status = "STOPPED"
      /\ sync.status # "RUNNING" => sync' = sync
  BY DEF Crash, DownCrash, recordVars, TypeInv, TypeOK, DownTypeOK, SyncRow
<1>2. CASE down.pc \in Fetching \union {"start"}
  BY <1>1, <1>2, EndsRun DEF RunDates
<1>3. CASE down.pc \in {"idle", "list", "ghosts"}
  <2>1. sync.max \in Nat /\ clock \in Nat /\ sync.max <= clock
    BY DateNumbers DEF DatesInv
  <2> DEFINE from == IF sync'.status = "STOPPED" /\ sync.max > 0 THEN sync.max - 1 ELSE sync.max
  <2>2. from \in Nat /\ from <= ResumeFrom
        /\ (sync'.max = from \/ (sync'.status = "STOPPED" /\ sync'.max > 0 /\ from = sync'.max - 1))
    BY <1>1, <2>1 DEF ResumeFrom
  <2>3. ResumeFrom \in Nat
    BY <2>1 DEF ResumeFrom
  <2> HIDE DEF from
  <2>4. \A date \in Nat : date <= from => HasUpTo(date)
    BY <1>3, <2>2, <2>3 DEF RunInv
  <2>5. /\ down'.pc = "idle" /\ down'.page = {} /\ down'.rest = {} /\ down'.max = 0
        /\ down'.syncMax = 0
    BY <1>1 DEF IdleDown
  <2>6. QED
    BY <1>1, <2>1, <2>2, <2>4, <2>5, IdleRun
<1>4. QED
  BY <1>2, <1>3 DEF TypeInv, TypeOK, DownTypeOK, Down, DownPc, Fetching
----------------------------------------------------------------------------
\* All the steps.

LEMMA BatchStepIdle ==
  ASSUME TypeInv, BatchStep
  PROVE  batch' = IdleBatch \/ batch'.pc # "idle"
<1>1. CASE SendRequests
  <2>1. ASSUME NEW refused, AnswerSaved(refused)
        PROVE  batch'.pc # "idle"
    BY <2>1, BatchFields DEF AnswerSaved
  <2>2. QED
    BY <1>1, <2>1, SendRequestsEffect DEF BatchEnds
<1>2. CASE SaveAnswer
  <2>1. ASSUME NEW s, NEW row, RowSaved(s, row)
        PROVE  batch'.pc = batch.pc
    BY <2>1, BatchFields DEF RowSaved
  <2>2. ASSUME NEW s, SentAgain(s)
        PROVE  batch'.pc = "send"
    BY <2>2, BatchFields DEF SentAgain
  <2>3. QED
    BY <1>2, <2>1, <2>2, SaveAnswerEffect
<1>3. CASE StartBatchSyncUp \/ ReadRecords \/ CheckedModDates \/ NextBatch
  BY <1>3, BatchFields, IdleBatchFields
     DEF StartBatchSyncUp, ReadRecords, CheckedModDates, NextBatch
<1>4. CASE CheckModDates
  <2>1. ASSUME NEW check, NEW todo, NEW seen,
               batch' = [batch EXCEPT !.check = check, !.todo = todo, !.seen = seen]
        PROVE  batch'.pc = batch.pc
    BY <2>1, BatchFields
  <2>2. batch.pc = "check" /\ (BatchEnds \/ batch'.pc = batch.pc)
    BY <1>4, <2>1 DEF CheckModDates
  <2>3. QED
    BY <2>2 DEF BatchEnds
<1>5. CASE FillBatch \/ EndBatchSyncUp
  BY <1>5, BatchFields DEF FillBatch, EndBatchSyncUp, BatchEnds
<1>6. QED
  BY <1>1, <1>2, <1>3, <1>4, <1>5 DEF BatchStep

\* The dates while the sync down waits.
LEMMA DatesWait ==
  ASSUME TypeInv, Dated, DatesInv, RunDates, UNCHANGED <<conf, sync, down>>
  PROVE  DatesInv' /\ RunDates'
<1>1. clock <= clock' /\ clock \in Nat /\ clock' \in Nat
  BY DEF Dated
<1>2. \A i \in DOMAIN server' : server'[i].mod <= clock'
  BY <1>1, DateNumbers DEF Dated, DatesInv
<1>3. /\ sync.max <= clock' /\ down.max <= clock' /\ down.syncMax <= clock'
      /\ \A x \in down.page \union down.rest : x.record.mod <= clock'
  BY <1>1, DateNumbers DEF DatesInv
<1>4. DatesInv'
  BY <1>2, <1>3 DEF DatesInv
<1>5. Unsaved' = Unsaved /\ Sorted' = Sorted
  BY DEF Unsaved, Sorted
<1>6. QED
  BY <1>4, <1>5 DEF RunDates

\* A sync up is under way, and no sync down.
LEMMA UpResumes ==
  ASSUME TypeInv, TypeInv', KeyInv, KeysKept, Resumes, Dated, ResumeInv, down.pc = "idle",
         UNCHANGED <<conf, sync, down>>,
         (UpStep /\ batch' = batch /\ batch = IdleBatch) \/ (BatchStep /\ up' = up /\ up = IdleUp)
  PROVE  DatesInv' /\ SoupDates' /\ UpDates' /\ BatchDates' /\ BatchIdle'
         /\ RunDates' /\ SkipInv' /\ RunInv'
<1>1. /\ DatesInv /\ SoupDates /\ UpDates /\ BatchDates /\ RunDates /\ RunInv
      /\ "ties" \notin Ops
  BY DEF ResumeInv, Resumes
<1>2. DatesInv' /\ RunDates'
  BY <1>1, DatesWait
<1>3. SoupDates' /\ UpDates' /\ BatchDates' /\ BatchIdle'
  BY <1>1, UpStepDates, BatchStepDates, UpDatesIdle, BatchDatesFree, BatchStepIdle DEF BatchIdle
<1>4. SkipInv'
  BY DEF SkipInv
<1>5. ResumeFrom \in Nat /\ ResumeFrom <= sync.max /\ sync.max \in Nat
  BY DateNumbers DEF ResumeFrom
<1>6. ASSUME NEW date \in Nat, date <= ResumeFrom
      PROVE  HasUpTo(date)'
  <2>1. HasUpTo(date) /\ date <= sync.max
    BY <1>1, <1>5, <1>6 DEF RunInv
  <2>2. QED
    BY <1>1, <2>1, UpStepHas, BatchStepHas
<1>7. ResumeFrom' = ResumeFrom
  BY DEF ResumeFrom
<1>8. RunInv'
  BY <1>6, <1>7 DEF RunInv, Fetching
<1>9. QED
  BY <1>2, <1>3, <1>4, <1>8

\* A sync down writes elements without changes, or none.
LEMMA DownElements ==
  ASSUME TypeInv, KeyInv, DownStep, conf' = conf
  PROVE  \A s \in DOMAIN soup' : "created" \in soup'[s].flags =>
            s \in DOMAIN soup /\ soup'[s] = soup[s]
<1>1. CASE SavePage
  <2>1. ASSUME NEW order \in Bijection(NewOnes,
                                       nextEntry .. nextEntry + Cardinality(NewOnes) - 1),
               soup' = Upserted(order), NEW s \in DOMAIN soup', "created" \in soup'[s].flags
        PROVE  s \in DOMAIN soup /\ soup'[s] = soup[s]
    <3>1. \A x : Downloaded(x.id, x.record).flags = {}
      BY DEF Downloaded
    <3>2. \/ s \in DOMAIN soup /\ soup'[s] = soup[s]
          \/ \E x : soup'[s] = Downloaded(x.id, x.record)
      <4>1. CASE s \in DOMAIN soup
        BY <2>1, <4>1, SavedPageEffect
      <4>2. CASE s \notin DOMAIN soup
        BY <2>1, <4>2, SavedPageEffect
      <4>3. QED
        BY <4>1, <4>2
    <3>3. QED
      BY <2>1, <3>1, <3>2
  <2>2. \/ \E order \in Bijection(NewOnes, nextEntry .. nextEntry + Cardinality(NewOnes) - 1) :
              soup' = Upserted(order)
        \/ UNCHANGED <<soup, nextEntry, latest>>
    BY Zenon, <1>1 DEF SavePage
  <2>3. QED
    BY <2>1, <2>2
<1>2. CASE DeleteGhosts
  BY <1>2 DEF DeleteGhosts, Without
<1>3. CASE ~SavePage /\ ~DeleteGhosts
  BY <1>3, DownReadsKeys DEF DownStep, recordVars
<1>4. QED
  BY <1>1, <1>2, <1>3

\* A sync down is under way, or a removal of ghosts, and no sync up.
LEMMA DownResumes ==
  ASSUME TypeInv, TypeInv', KeyInv, IdInv, OneElementPerKey, GhostInv, KeysKept, Resumes,
         ResumeInv, DownStep, UpIdle, UNCHANGED <<conf, up, batch>>
  PROVE  DatesInv' /\ SoupDates' /\ UpDates' /\ BatchDates' /\ BatchIdle'
         /\ RunDates' /\ SkipInv' /\ RunInv'
<1>1. /\ DatesInv /\ SoupDates /\ UpDates /\ BatchIdle /\ RunDates /\ SkipInv /\ RunInv
  BY DEF ResumeInv
<1>2. DatesInv' /\ RunDates' /\ SkipInv' /\ RunInv'
  BY <1>1, StartSyncDownRun, StartFetchRun, GetIdsToSkipRun, SavePageRun, SaveProgressRun,
     ContinueFetchRun, EndSyncDownRun, GhostsRun, DeleteGhostsRun DEF DownStep
<1>3. SoupDates'
  BY <1>1, DownElements, SoupDatesStep
<1>4. UpDates'
  BY <1>1 DEF UpDates, UpIdle, InHand
<1>5. BatchDates' /\ BatchIdle'
  BY <1>1, BatchDatesFree DEF BatchIdle, UpIdle
<1>6. QED
  BY <1>2, <1>3, <1>4, <1>5

\* The application and other clients.
LEMMA OutsideResumes ==
  ASSUME TypeInv, TypeInv', KeyInv, KeysKept, Resumes, Dated, ResumeInv,
         UNCHANGED <<conf, up, batch, sync, down>>,
         App(Held) \/ Others \/ UNCHANGED recordVars
  PROVE  DatesInv' /\ SoupDates' /\ UpDates' /\ BatchDates' /\ BatchIdle'
         /\ RunDates' /\ SkipInv' /\ RunInv'
<1>1. /\ DatesInv /\ SoupDates /\ UpDates /\ BatchDates /\ BatchIdle
      /\ RunDates /\ SkipInv /\ RunInv /\ "app_purge" \notin Ops
  BY DEF ResumeInv, Resumes
<1>2. /\ DOMAIN soup \subseteq DOMAIN soup'
      /\ \A s \in DOMAIN soup :
            /\ soup'[s].id = soup[s].id
            /\ soup'[s] = soup[s] \/ IsDirty(soup'[s])
            /\ "created" \in soup'[s].flags => "created" \in soup[s].flags
      /\ \A s \in DOMAIN soup' \ DOMAIN soup :
            s = nextEntry /\ soup'[s].id = LocalId /\ IsDirty(soup'[s])
  <2>1. CASE App(Held)
    BY <1>1, <2>1, AppElements
  <2>2. CASE soup' = soup
    BY <2>2
  <2>3. Others => soup' = soup
    BY OthersEffect
  <2>4. QED
    BY <2>1, <2>2, <2>3 DEF recordVars
<1>3. nextEntry \in Nat
  BY EditsNat
<1>4. DatesInv' /\ RunDates'
  BY <1>1, DatesWait
<1>5. SoupDates'
  BY <1>1, <1>2, SoupDatesStep
<1>6. UpDates'
  BY <1>1, <1>2, <1>3, UpDatesFrame
<1>7. BatchDates' /\ BatchIdle'
  BY <1>1, <1>2, <1>3, BatchDatesFrame DEF BatchIdle
<1>8. SkipInv' /\ RunInv'
  BY <1>1, <1>2, RunWaits
<1>9. QED
  BY <1>4, <1>5, <1>6, <1>7, <1>8

LEMMA CrashResumes ==
  ASSUME TypeInv, TypeInv', Crash, KeysKept, conf' = conf, ResumeInv, Resumes
  PROVE  DatesInv' /\ SoupDates' /\ UpDates' /\ BatchDates' /\ BatchIdle'
         /\ RunDates' /\ SkipInv' /\ RunInv'
<1>1. DatesInv /\ SoupDates /\ RunDates /\ RunInv
  BY DEF ResumeInv
<1>2. DatesInv' /\ RunDates' /\ SkipInv' /\ RunInv'
  BY <1>1, CrashRun
<1>3. UNCHANGED <<soup, server>> /\ up' = IdleUp /\ batch' = IdleBatch
  BY DEF Crash, UpEnds, BatchEnds, recordVars
<1>4. QED
  BY <1>1, <1>2, <1>3, UpDatesIdle, BatchDatesFree DEF SoupDates, BatchIdle

LEMMA ResumeNext ==
  ASSUME TypeInv, TypeInv', KeyInv, IdInv, OneElementPerKey, GhostInv, ResumeInv, [Next]_vars
  PROVE  ResumeInv'
<1>1. conf' = conf /\ KeysKept
  BY KeysNext DEF Next, vars, Keeps
<1>2. Resumes' = Resumes
  BY <1>1 DEF Resumes, Ops, Sorted, ExternalIds, DownEnds
<1> SUFFICES ASSUME Resumes
             PROVE  DatesInv' /\ SoupDates' /\ UpDates' /\ BatchDates' /\ BatchIdle'
                    /\ RunDates' /\ SkipInv' /\ RunInv'
  BY <1>2 DEF ResumeInv
<1>3. Dated
  BY DatedStep DEF Resumes
<1>4. CASE Worker /\ down.pc = "idle" /\ UNCHANGED <<sync, down>>
  <2>1. CASE conf.target = "single" /\ UpStep /\ UNCHANGED batch
    BY <1>1, <1>3, <1>4, <2>1, UpResumes DEF TypeInv, TargetInv
  <2>2. CASE conf.target # "single" /\ BatchStep /\ UNCHANGED up
    BY <1>1, <1>3, <1>4, <2>2, UpResumes DEF TypeInv, TargetInv
  <2>3. CASE UpIdle /\ DownStep /\ UNCHANGED <<up, batch>>
    BY <1>1, <2>3, DownResumes
  <2>4. QED
    BY <1>4, <2>1, <2>2, <2>3 DEF Worker
<1>5. CASE UpIdle /\ DownStep /\ UNCHANGED <<up, batch>>
  BY <1>1, <1>5, DownResumes
<1>6. CASE (App(Held) \/ Others \/ UNCHANGED recordVars) /\ UNCHANGED <<up, batch, sync, down>>
  BY <1>1, <1>3, <1>6, OutsideResumes
<1>7. CASE Crash
  BY <1>1, <1>7, CrashResumes
<1>8. QED
  BY <1>4, <1>5, <1>6, <1>7 DEF Next, Worker, vars

LEMMA ResumeInit == Init => ResumeInv
<1> SUFFICES ASSUME Init PROVE ResumeInv
  OBVIOUS
<1>1. PICK n \in 0 .. InitialRecords, mod \in [1 .. InitialRecords -> Dates],
           synced \in BOOLEAN :
        /\ server = [i \in 1 .. n |-> [live |-> TRUE, edit |-> i, mod |-> mod[i], key |-> i]]
        /\ \A i \in n + 1 .. InitialRecords : mod[i] = 1
        /\ \A i \in 1 .. n : mod[i] <= 2
        /\ clock = IF \E i \in 1 .. n : mod[i] = 2 THEN 2 ELSE 1
        /\ soup = IF synced THEN [i \in 1 .. n |-> Downloaded(i, server[i])]
                  ELSE [i \in {} |-> 0]
        /\ nextEntry = Cardinality(DOMAIN soup) + 1
        /\ edits = n
        /\ latest = [s \in Entries |-> 0]
        /\ settled = {}
        /\ exposed = {}
  BY Zenon DEF Init, RecordsInit
<1>2. up = IdleUp /\ batch = IdleBatch /\ down = IdleDown /\ sync.max = 0 /\ TypeInv
  BY InitInv DEF Init, UpInit, BatchInit, DownInit
<1>3. /\ down.pc = "idle" /\ down.page = {} /\ down.rest = {} /\ down.max = 0
      /\ down.syncMax = 0 /\ ResumeFrom = 0
  BY <1>2 DEF IdleDown, ResumeFrom
<1>4. DatesInv
  <2>1. clock \in Nat /\ clock >= 1
    BY <1>1
  <2>2. ASSUME NEW i \in DOMAIN server PROVE server[i].mod <= clock
    <3>1. i \in 1 .. n /\ server[i].mod = mod[i]
      BY <1>1
    <3>2. n \in Nat /\ 1 .. n \subseteq 1 .. InitialRecords
      BY BoundsAssumption, ConfsAssumption DEF Init, InitialRecords
    <3>3. mod[i] \in Nat /\ mod[i] >= 1 /\ mod[i] <= 2
      <4>1. i \in 1 .. InitialRecords /\ mod[i] <= 2
        BY <1>1, <3>1, <3>2
      <4>2. mod[i] \in Dates
        BY <4>1
      <4>3. MaxClock \in Nat
        BY <1>2, Bounds DEF TypeInv, TypeOK
      <4>4. QED
        BY <4>1, <4>2, <4>3 DEF Dates
    <3>4. mod[i] = 2 => clock = 2
      BY <1>1, <3>1
    <3>5. QED
      BY <2>1, <3>1, <3>3, <3>4
  <2>3. QED
    BY <1>2, <1>3, <2>1, <2>2 DEF DatesInv
<1>5. SoupDates
  <2>1. CASE synced
    <3>1. \A s \in DOMAIN soup : soup[s].flags = {}
      BY <1>1, <2>1 DEF Downloaded
    <3>2. QED
      BY <3>1 DEF SoupDates
  <2>2. CASE ~synced
    BY <1>1, <2>2 DEF SoupDates
  <2>3. QED
    BY <2>1, <2>2
<1>6. UpDates
  BY <1>2 DEF UpDates, IdleUp, InHand
<1>7. BatchDates /\ BatchIdle
  BY <1>2, IdleBatchFields, EmptyPartial DEF BatchDates, BatchIdle
<1>8. RunDates /\ SkipInv
  BY <1>3 DEF RunDates, SkipInv, Fetching
<1>9. RunInv
  BY <1>2, <1>3, DateNumbers DEF RunInv, Fetching, HasUpTo, Live
<1>10. QED
  BY <1>4, <1>5, <1>6, <1>7, <1>8, <1>9 DEF ResumeInv

\* What the next reSync() will not ask for is in the soup, as the server has it or
\* changed there, whichever runs have stopped, failed or died between two pages: a
\* date is kept only when the records up to it were all saved.  (Not when changes
\* share a date, when the application gives up an element it will not be sent again,
\* or when a sorted sync down fails: it goes on after its last date.)
THEOREM NothingMissedCorrect ==
    Spec => [](/\ "ties" \notin Ops /\ "app_purge" \notin Ops
               /\ Sorted => ~ExternalIds /\ "FAILED" \notin DownEnds
               => NothingMissed)
<1> DEFINE Inv == /\ TypeInv /\ KeyInv /\ IdInv /\ OneElementPerKey
                  /\ GhostInv /\ ResumeInv
<1>1. Init => Inv
  <2>1. Init => GhostInv
    BY DEF Init, DownInit, IdleDown, GhostInv
  <2>2. QED
    BY <2>1, InitInv, KeysInit, IdsInit, ElementsInit, ResumeInit
<1>2. Inv /\ [Next]_vars => Inv'
  BY NextInv, KeysNext, IdsNext, ElementsNext, GhostNext, ResumeNext
<1>3. Inv => (Resumes => NothingMissed)
  <2> SUFFICES ASSUME Inv, Resumes, down.pc = "idle", NEW i \in Live,
                      server[i].mod <= ResumeFrom
               PROVE  Has(i)
    BY DEF NothingMissed
  <2>1. ResumeFrom \in Nat
    BY DateNumbers DEF ResumeFrom
  <2>2. HasUpTo(ResumeFrom)
    BY <2>1 DEF ResumeInv, RunInv
  <2>3. QED
    BY <2>2 DEF HasUpTo
<1> HIDE DEF Inv
<1>4. Spec => [](Resumes => NothingMissed)
  BY <1>1, <1>2, <1>3, PTL DEF Spec
<1>5. QED
  BY <1>4 DEF Resumes
=============================================================================
