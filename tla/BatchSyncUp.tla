----------------------------- MODULE BatchSyncUp -----------------------------
(***************************************************************************)
(* A sync up of AdvancedSyncUpTask.java with a BatchSyncUpTarget or a      *)
(* CollectionSyncUpTarget.  All the dirty records are read at once, with   *)
(* LEAVE_IF_CHANGED all their dates are compared, and then they go to the  *)
(* server batch by batch: one composite request for a batch, or one        *)
(* collection request for each kind of operation in it.  The answers are   *)
(* saved record by record.  When a record has to be created anew the batch *)
(* is sent a second time.                                                  *)
(***************************************************************************)
EXTENDS SyncUp, Sequences

CONSTANT
    MaxBatchSize    \* maxBatchSize of the target

ASSUME BatchAssumption == MaxBatchSize \in Nat \ {0}

\* target: the class of the target, "single" for the SyncUpTarget of SyncUp.
Target == {"single", "batch", "collection"}
ASSUME TargetAssumption == \A c \in Confs : c.target \in Target

Collection == conf.target = "collection"

VARIABLE batch      \* the task on the worker thread

RequestType == <<"create", "update", "upsert", "delete">>
BatchPc     == {"idle", "read", "check", "fill", "send", "save"}

\* rows: the records in memory; missing: whether an element was gone when they
\* were read; check: those whose date is still to be compared; todo: those
\* still to go through that the merge mode lets through; sending: the batch;
\* kinds: the place in RequestType of the last request; answers, ids: how the
\* server answered and the ids it gave; unsaved: the answers still to be saved;
\* reRun: isReRun; seen: as in SyncUp.
None == [s \in {} |-> 0]
IdleBatch == [pc |-> "idle", left |-> {}, rows |-> None, missing |-> FALSE, check |-> {},
              todo |-> {}, sending |-> {}, kinds |-> 0, answers |-> None, ids |-> None,
              unsaved |-> {}, reRun |-> FALSE, seen |-> None]

PartialTo(f, T) == DOMAIN f \subseteq Entries /\ Range(f) \subseteq T

BatchTypeOK ==
    /\ DOMAIN batch = DOMAIN IdleBatch
    /\ batch.pc \in BatchPc
    /\ UNION {batch.left, batch.check, batch.todo, batch.sending, batch.unsaved} \subseteq Entries
    /\ batch.missing \in BOOLEAN /\ batch.reRun \in BOOLEAN
    /\ batch.kinds \in 0 .. Len(RequestType)
    /\ PartialTo(batch.answers, Answer) /\ PartialTo(batch.ids, Ids) /\ PartialTo(batch.seen, Edits)
    /\ DOMAIN batch.rows \subseteq Entries
    /\ \A s \in DOMAIN batch.rows : batch.rows[s] \in Row

BatchInit == batch = IdleBatch

\* The entries the task may still write from its copy of them.
BatchHeld == {s \in batch.todo \union batch.check \union batch.sending : IsDirty(batch.rows[s])}

BatchEnds == batch' = IdleBatch
Rows      == batch.rows
----------------------------------------------------------------------------
StartBatchSyncUp ==
    /\ batch.pc = "idle"
    /\ batch' = [IdleBatch EXCEPT !.pc = "read", !.left = DirtyEntries]
    /\ UNCHANGED recordVars

\* getFromLocalStore() of a list returns the elements that are still there.
ReadRecords ==
    LET found == batch.left \intersect DOMAIN soup
        asked == {s \in found : UpMergeMode = "LEAVE_IF_CHANGED"
                                /\ "created" \notin soup[s].flags} IN
    /\ batch.pc = "read"
    /\ batch' = [batch EXCEPT !.pc = "check", !.left = {}, !.rows = Restrict(soup, found),
                              !.missing = (found # batch.left),
                              !.check = asked, !.todo = found \ asked]
    /\ UNCHANGED recordVars

\* areNewerThanServer(): a request for each record, or one for all of a
\* collection.  An error other than 404 counts as a record with no date for the
\* one; for the other it fails the sync.
CheckModDates ==
    LET asked == IF Collection THEN batch.check ELSE {Min(batch.check)}
        newer == {s \in asked : IsNewer(Rows[s], server[Rows[s].id])}
        Compared(result) ==
            batch' = [batch EXCEPT !.check = @ \ asked, !.todo = @ \union result,
                                   !.seen  = Merge(@, [s \in result |-> server[Rows[s].id].edit])] IN
    /\ batch.pc = "check"
    /\ batch.check # {}
    /\ \/ Compared(newer)
       \/ /\ NetworkFails /\ ~Collection
          /\ Compared({s \in asked : Rows[s].mod = NoDate})
       \/ NetworkFails /\ BatchEnds
    /\ UNCHANGED recordVars

CheckedModDates ==
    /\ batch.pc = "check"
    /\ batch.check = {}
    /\ batch' = [batch EXCEPT !.pc = "fill"]
    /\ UNCHANGED recordVars

\* The first records still to go through, in the order of their ids.
FirstOf(entries) == {s \in entries : Cardinality({r \in entries : r < s}) < MaxBatchSize}

\* The loop of syncUp() up to the next call of syncUpRecords().  When an element
\* was missing the list is shorter than totalSize: get(i) throws before the last,
\* incomplete batch is sent.
FillBatch ==
    LET next == FirstOf(batch.todo) IN
    /\ batch.pc = "fill"
    /\ next # {}
    /\ IF Cardinality(next) = MaxBatchSize \/ ~batch.missing
       THEN batch' = [batch EXCEPT !.pc = "send", !.todo = @ \ next, !.sending = next]
       ELSE BatchEnds
    /\ UNCHANGED recordVars

\* The loop is through, or checkIfStopRequested() throws.
EndBatchSyncUp ==
    /\ batch.pc = "fill"
    /\ BatchEnds
    /\ UNCHANGED recordVars
----------------------------------------------------------------------------
(* sendRecordRequests().                                                   *)

\* buildRequestForRecord(): none for a record that has been saved, or that was
\* created and deleted here.
HasRequest(s) == IsDirty(Rows[s]) /\ ~({"created", "deleted"} \subseteq Rows[s].flags)

KindOf(row) ==
    IF Wants(row, "delete") THEN "delete"
    ELSE IF Wants(row, "update") THEN "update"
    ELSE IF ExternalIds THEN "upsert" ELSE "create"

\* A composite request is for all the records of the batch; collection requests
\* go out one kind after the other, those that no record needs left out.
KindsLeft ==
    {k \in batch.kinds + 1 .. Len(RequestType) :
        \E s \in batch.sending : HasRequest(s) /\ KindOf(Rows[s]) = RequestType[k]}
NextKind == IF Collection /\ KindsLeft # {} THEN Min(KindsLeft) ELSE Len(RequestType)

Requested ==
    {s \in batch.sending :
        HasRequest(s) /\ (Collection => KindOf(Rows[s]) = RequestType[NextKind])}

\* The server (external).  New records get their ids in the order of the batch.
Gone(s)  == ~Wants(Rows[s], "create") /\ ~server[Rows[s].id].live
IsNew(s) == Wants(Rows[s], "create") /\ Created(Rows[s]) = UnusedId

ServerId(s, done) ==
    IF ~Wants(Rows[s], "create") THEN Rows[s].id
    ELSE IF IsNew(s) THEN Cardinality(DOMAIN server) + Cardinality({r \in done : r <= s /\ IsNew(r)})
    ELSE Min(Created(Rows[s]))

ServerRecord(s, t) ==
    IF Wants(Rows[s], "create")
    THEN [live |-> TRUE, edit |-> Rows[s].edit, mod |-> t, key |-> Rows[s].key]
    ELSE LET r == [server[Rows[s].id] EXCEPT !.mod = t] IN
         IF Wants(Rows[s], "delete") THEN [r EXCEPT !.live = FALSE]
                                     ELSE [r EXCEPT !.edit = Rows[s].edit]

CarriesOut(done) ==
    LET id == [s \in done |-> ServerId(s, done)] IN
    /\ Range(id) \subseteq Ids
    /\ \E t \in IF done = {} THEN {clock} ELSE Ticks :
          /\ server' = [i \in DOMAIN server \union Range(id) |->
                           IF i \in Range(id)
                           THEN ServerRecord(CHOOSE s \in done : id[s] = i, t) ELSE server[i]]
          /\ clock' = t

Answers(done, gone, refused) ==
    Merge(batch.answers, [s \in done \union gone \union refused |->
                            IF s \in done THEN "ok" ELSE IF s \in gone THEN "gone"
                            ELSE "refused"])

\* parseIdsFromResponses(): the id of each answer, by the reference id that goes
\* with it, or that stands at its place in the list of a collection request.
BugNoIds(done)       == [s \in done |-> LocalId]
BugAnsweredIds(done) == [s \in done |-> ServerId(Min(done), done)]
AnsweredIds(done)    == [s \in done |-> ServerId(s, done)]

\* "allOrNone" is false: each record has an answer of its own.  An answer that
\* is lost, or that is an error as a whole, fails the sync.
SendRequests ==
    LET more == Collection /\ \E k \in KindsLeft : k > NextKind IN
    /\ batch.pc = "send"
    /\ \/ \E refused \in IF NetworkFails THEN SUBSET Requested ELSE {{}} :
             LET gone == {s \in Requested \ refused : Gone(s)}
                 done == Requested \ (refused \union gone) IN
             /\ CarriesOut(done)
             /\ settled' = settled \union
                   {Rows[s].edit : s \in done \union {r \in gone : Wants(Rows[r], "delete")}}
             /\ \/ batch' = [batch EXCEPT
                               !.pc      = IF more THEN "send" ELSE "save",
                               !.kinds   = NextKind,
                               !.answers = Answers(done, gone, refused),
                               !.ids     = Merge(@, AnsweredIds(done)),
                               !.unsaved = {s \in batch.sending : IsDirty(Rows[s])}]
                \/ NetworkFails /\ Requested # {} /\ BatchEnds
       \/ NetworkFails /\ BatchEnds /\ Unchanged
    /\ UNCHANGED <<soup, nextEntry, edits, latest, exposed>>
----------------------------------------------------------------------------
(* updateRecordInLocalStore().                                             *)

Save(s, row) == soup' = IF s \in DOMAIN soup THEN With(soup, s, row) ELSE soup

Got(s, answers) == s \in DOMAIN batch.answers /\ batch.answers[s] \in answers

BugRemoves(s) == "deleted" \in Rows[s].flags
Removes(s)    == /\ "deleted" \in Rows[s].flags
                 /\ "created" \in Rows[s].flags \/ Got(s, {"ok", "gone"})
Cleans(s)     == "deleted" \notin Rows[s].flags /\ Got(s, {"ok"})
Recreates(s)  == /\ "deleted" \notin Rows[s].flags /\ Got(s, {"gone"})
                 /\ UpMergeMode = "OVERWRITE"
                 /\ ~batch.reRun

SavedNext(s, row) == batch' = [batch EXCEPT !.unsaved = @ \ {s}, !.rows[s] = row]

\* "needReRun = needReRun || updateRecordInLocalStore()": from the first record
\* that has to be created anew on, no answer is saved, and the batch is sent
\* again, with the records whose answers were not.
ReRun(s) ==
    batch' = [batch EXCEPT !.pc = "send", !.kinds = 0, !.answers = None, !.ids = None,
                           !.unsaved = {}, !.reRun = TRUE,
                           !.rows[s].flags = @ \union {"created"}]

SaveAnswer ==
    LET s     == Min(batch.unsaved)
        clean == [Rows[s] EXCEPT !.flags = {}, !.id = batch.ids[s]] IN
    /\ batch.pc = "save"
    /\ batch.unsaved # {}
    /\ \/ /\ Removes(s)
          /\ soup' = Without(soup, {s})
          /\ settled' = settled \union IF "created" \in Rows[s].flags THEN {Rows[s].edit} ELSE {}
          /\ SavedNext(s, Rows[s])
       \/ /\ Cleans(s)
          /\ Save(s, clean)
          /\ SavedNext(s, clean)
          /\ UNCHANGED settled
       \/ /\ Recreates(s)
          /\ ReRun(s)
          /\ UNCHANGED <<soup, settled>>
       \/ /\ ~(Removes(s) \/ Cleans(s) \/ Recreates(s))
          /\ Save(s, Rows[s])
          /\ SavedNext(s, Rows[s])
          /\ UNCHANGED settled
    /\ UNCHANGED <<nextEntry, server, clock, edits, latest, exposed>>

NextBatch ==
    /\ batch.pc = "save"
    /\ batch.unsaved = {}
    /\ batch' = [batch EXCEPT !.pc = "fill", !.rows = Restrict(@, batch.todo), !.sending = {},
                              !.kinds = 0, !.answers = None, !.ids = None, !.reRun = FALSE,
                              !.seen = Restrict(@, DOMAIN @ \intersect batch.todo)]
    /\ UNCHANGED recordVars
----------------------------------------------------------------------------
BatchStep ==
    \/ StartBatchSyncUp \/ ReadRecords \/ CheckModDates \/ CheckedModDates
    \/ FillBatch \/ SendRequests \/ SaveAnswer \/ NextBatch \/ EndBatchSyncUp
----------------------------------------------------------------------------
(* Properties.                                                             *)

\* As LeavesChanged, for a batch whose dates were all compared before its first
\* record was sent: no edit later than the date the client knows is replaced,
\* unless it came after the run had compared the dates.
BatchLeavesChanged ==
    [][UpMergeMode = "LEAVE_IF_CHANGED" /\ batch.pc = "send" /\ batch' # batch =>
          \A s \in batch.sending \intersect DOMAIN batch.seen :
             LET r == server[Rows[s].id] IN
             server'[Rows[s].id] # r /\ Rows[s].mod # NoDate /\ r.edit = batch.seen[s]
                => r.mod <= Rows[s].mod]_<<batch, server>>
=============================================================================
