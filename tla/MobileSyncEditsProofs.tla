------------------------ MODULE MobileSyncEditsProofs ------------------------
(***************************************************************************)
(* EditsSurvive of MobileSync: no edit of the application is lost.         *)
(*                                                                         *)
(* An edit is at stake while the server does not have it and no task held  *)
(* a copy of the element when it was made.  The soup is not the only place *)
(* that decides about it: the task has a copy of its own, which it sends,  *)
(* and whose answer it then saves over the element.  EditsInv says that    *)
(* each copy of an element whose edit is at stake has that edit and the    *)
(* flags that send it (UpCopy, BatchCopy), that an answer is saved only    *)
(* for an edit the server has, and that nothing at stake is among what a   *)
(* sync down may write over or remove as a ghost (DownCopy).  Calm and its *)
(* lemmas are the frame: almost no step puts at stake what was not.        *)
(***************************************************************************)
EXTENDS MobileSyncKeysProofs

\* An edit of the application that the server does not have, and that was not made
\* while a task held a copy of the element.
AtStake(s) == latest[s] # 0 /\ latest[s] \notin settled \union exposed

\* The row has that edit, and the flags that send it.
Copies(row, s) == AtStake(s) => IsDirty(row) /\ row.edit = latest[s]

UpCopy ==
    /\ up.pc \in InHand => Copies(up.row, up.entry)
    /\ up.pc = "save" /\ up.answer # "refused" => up.row.edit \in settled

\* The server has the edit of the row.
Taken(answer, row) == answer = "ok" \/ (answer = "gone" /\ "deleted" \in row.flags)

BatchCopy ==
    /\ \A s \in Pending : IsDirty(batch.rows[s]) => Copies(batch.rows[s], s)
    /\ \A s \in batch.unsaved : IsDirty(batch.rows[s])
    /\ \A s \in DOMAIN batch.answers :
          /\ s \in DOMAIN batch.rows
          /\ Taken(batch.answers[s], batch.rows[s]) => batch.rows[s].edit \in settled

\* What a page or a removal of ghosts may write over is not at stake.
DownCopy == LocalId \notin down.ids /\ \A s \in DownHeld : ~AtStake(s)

EditsInv == EditsSurvive /\ UpCopy /\ BatchCopy /\ DownCopy
----------------------------------------------------------------------------
\* No element comes to be at stake that was not.
Calm == \A s \in Entries : AtStake(s)' => AtStake(s) /\ latest'[s] = latest[s]

LEMMA SettledCalm ==
  ASSUME UNCHANGED <<latest, exposed>>, settled \subseteq settled'
  PROVE  Calm
BY DEF Calm, AtStake

LEMMA CopiesCalm ==
  ASSUME Calm, NEW s \in Entries, NEW row, Copies(row, s)
  PROVE  Copies(row, s)'
BY DEF Calm, Copies

\* The elements at stake are as they were.
LEMMA SurviveCalm ==
  ASSUME TypeInv, EditsSurvive, Calm,
         \A s \in Entries : AtStake(s)' /\ s \in DOMAIN soup =>
            /\ s \in DOMAIN soup' /\ IsDirty(soup'[s]) /\ soup'[s].edit = latest'[s]
  PROVE  EditsSurvive'
<1> SUFFICES ASSUME NEW s \in Entries, AtStake(s)'
             PROVE  s \in DOMAIN soup' /\ IsDirty(soup'[s]) /\ soup'[s].edit = latest'[s]
  BY DEF EditsSurvive, AtStake
<1>1. AtStake(s)
  BY DEF Calm
<1>2. s \in DOMAIN soup
  BY <1>1 DEF EditsSurvive, AtStake
<1>3. QED
  BY <1>2

LEMMA UpCopyFrame ==
  ASSUME TypeInv, UpCopy, Calm, settled \subseteq settled', up' = up
  PROVE  UpCopy'
<1>1. up.pc \in InHand => up.entry \in Entries
  BY DEF TypeInv, UpInv
<1>2. ASSUME up.pc \in InHand PROVE Copies(up.row, up.entry)'
  BY <1>1, <1>2 DEF UpCopy, Copies, Calm
<1>3. QED
  BY <1>2 DEF UpCopy

LEMMA BatchCopyFrame ==
  ASSUME TypeInv, BatchCopy, Calm, settled \subseteq settled', batch' = batch
  PROVE  BatchCopy'
<1>1. Pending' = Pending /\ Pending \subseteq Entries
  BY BatchFields DEF Pending
<1>2. ASSUME NEW s \in Pending, IsDirty(batch.rows[s]) PROVE Copies(batch.rows[s], s)'
  BY <1>1, <1>2 DEF BatchCopy, Copies, Calm
<1>3. QED
  BY <1>1, <1>2 DEF BatchCopy

LEMMA DownCopyFrame ==
  ASSUME TypeInv, DownCopy, Calm, DownHeld' \subseteq DownHeld \union {s \in Entries : ~AtStake(s)},
         down'.ids \subseteq down.ids
  PROVE  DownCopy'
<1>1. DownHeld \subseteq Entries
  BY DEF DownHeld, TypeInv, TypeOK, RecordsTypeOK
<1>2. \A s \in DownHeld' : ~AtStake(s)'
  BY <1>1 DEF DownCopy, Calm
<1>3. QED
  BY <1>2 DEF DownCopy

LEMMA DownHeldIdle ==
  ASSUME down.pc = "idle", down' = down
  PROVE  DownHeld' = {} /\ DownHeld = {}
BY DEF DownHeld
----------------------------------------------------------------------------
\* The ids of the elements that a sync down may write over, or remove.
HeldIds ==
    IF down.pc \in {"save", "saved", "fetch"} /\ DownMergeMode = "LEAVE_IF_CHANGED"
    THEN {x.id : x \in down.rest \union IF down.pc = "save" THEN down.page ELSE {}} \ down.skip
    ELSE IF down.pc \in {"list", "ghosts"} THEN down.ids ELSE {}

LEMMA DownHeldIds ==
  /\ DownHeld = {s \in DOMAIN soup : soup[s].id \in HeldIds}
  /\ DownHeld' = {s \in DOMAIN soup' : soup'[s].id \in HeldIds'}
BY DEF DownHeld, HeldIds

LEMMA HeldIdsStay ==
  ASSUME UNCHANGED <<down, conf>>
  PROVE  HeldIds' = HeldIds
BY DEF HeldIds, DownMergeMode

LEMMA LocalIdFree ==
  ASSUME TypeInv, DownCopy
  PROVE  LocalId \notin HeldIds
<1>1. \A x \in down.page \union down.rest : x.id \in Ids
  BY DEF TypeInv, TypeOK, DownTypeOK, Down, Sent
<1>2. LocalId \notin Ids
  BY DEF Ids, LocalId
<1>3. QED
  BY <1>1, <1>2 DEF HeldIds, DownCopy

LEMMA HeldKnown ==
  ASSUME TypeInv, NEW s \in Held
  PROVE  s \in Entries /\ s < nextEntry
<1>1. CASE s \in UpHeld
  BY <1>1 DEF UpHeld, TypeInv, UpInv, InHand
<1>2. CASE s \in BatchHeld
  BY <1>2, BatchFields DEF BatchHeld, TypeInv, BatchInv, Pending
<1>3. CASE s \in DownHeld
  BY <1>3, DownHeldIds DEF TypeInv, SoupInv, TypeOK, RecordsTypeOK
<1>4. QED
  BY <1>1, <1>2, <1>3 DEF Held

\* The application writes an element: no task holds a copy of it, or the edit is
\* known to be exposed.
LEMMA AppWritesEdits ==
  ASSUME TypeInv, EditsInv, NEW s \in Entries, NEW row \in Row, NEW held,
         AppWrites(s, row, held), edits' \in Edits, IsDirty(row), s \in Held => s \in held,
         UNCHANGED <<conf, up, batch, down>>,
         row.id = LocalId \/ (s \in DOMAIN soup /\ row.id = soup[s].id)
  PROVE  EditsInv'
<1> DEFINE new == [row EXCEPT !.edit = edits']
<1>1. new.id = row.id /\ new.edit = edits' /\ new.flags = row.flags
  BY DEF Row
<1>2. soup' = With(soup, s, new)
  BY DEF AppWrites
<1> HIDE DEF new
<1>3. /\ settled' = settled /\ latest' = [latest EXCEPT ![s] = edits']
      /\ exposed' = IF s \in held THEN exposed \union {edits'} ELSE exposed
      /\ latest \in [Entries -> Edits \union {0}]
  BY DEF AppWrites, TypeInv, TypeOK, RecordsTypeOK
<1>4. \A t \in Entries : t # s /\ AtStake(t)' => AtStake(t) /\ latest'[t] = latest[t]
  BY <1>3 DEF AtStake
<1>5. s \in Held => ~AtStake(s)'
  BY <1>3 DEF AtStake
<1>6. DOMAIN soup' = DOMAIN soup \union {s} /\ soup'[s] = new
      /\ \A t \in DOMAIN soup : t # s => soup'[t] = soup[t]
  BY <1>2 DEF With
<1>7. EditsSurvive'
  <2> SUFFICES ASSUME NEW t \in Entries, AtStake(t)'
               PROVE  t \in DOMAIN soup' /\ IsDirty(soup'[t]) /\ soup'[t].edit = latest'[t]
    BY DEF EditsSurvive, AtStake
  <2>1. CASE t = s
    BY <1>1, <1>3, <1>6, <2>1 DEF IsDirty
  <2>2. CASE t # s
    BY <1>4, <1>6, <2>2 DEF EditsInv, EditsSurvive, AtStake
  <2>3. QED
    BY <2>1, <2>2
<1>8. UpCopy'
  <2>1. ASSUME up.pc \in InHand, AtStake(up.entry)'
        PROVE  IsDirty(up.row) /\ up.row.edit = latest'[up.entry]
    <3>1. up.entry \in Held /\ up.entry \in Entries
      BY <2>1 DEF Held, UpHeld, InHand, TypeInv, UpInv
    <3>2. up.entry # s
      BY <1>5, <2>1, <3>1
    <3>3. QED
      BY <1>4, <2>1, <3>1, <3>2 DEF EditsInv, UpCopy, Copies
  <2>2. QED
    BY <1>3, <2>1 DEF EditsInv, UpCopy, Copies
<1>9. BatchCopy'
  <2>1. Pending' = Pending
    BY DEF Pending
  <2>2. ASSUME NEW t \in Pending, IsDirty(batch.rows[t]), AtStake(t)'
        PROVE  batch.rows[t].edit = latest'[t]
    <3>1. t \in Held /\ t \in Entries
      BY <2>2, BatchFields DEF Held, BatchHeld, Pending, Rows
    <3>2. t # s
      BY <1>5, <2>2, <3>1
    <3>3. QED
      BY <1>4, <2>2, <3>1, <3>2 DEF EditsInv, BatchCopy, Copies
  <2>3. QED
    BY <1>3, <2>1, <2>2 DEF EditsInv, BatchCopy, Copies
<1>10. DownCopy'
  <2>1. HeldIds' = HeldIds /\ LocalId \notin HeldIds
    BY HeldIdsStay, LocalIdFree DEF EditsInv
  <2>2. ASSUME NEW t \in DownHeld' PROVE ~AtStake(t)'
    <3>1. t \in DOMAIN soup' /\ soup'[t].id \in HeldIds
      BY <2>1, DownHeldIds
    <3>2. t \in DownHeld
      BY <1>1, <1>6, <2>1, <3>1, DownHeldIds
    <3>3. t \in Held /\ t \in Entries /\ ~AtStake(t)
      BY <3>2, HeldKnown DEF Held, EditsInv, DownCopy
    <3>4. QED
      BY <1>4, <1>5, <3>3
  <2>3. QED
    BY <2>2 DEF EditsInv, DownCopy
<1>11. QED
  BY <1>7, <1>8, <1>9, <1>10 DEF EditsInv

LEMMA AppEdits ==
  ASSUME TypeInv, EditsInv, App(Held), UNCHANGED <<conf, up, batch, down>>
  PROVE  EditsInv'
<1>1. CASE AppCreate
  <2> DEFINE row == [id |-> LocalId, edit |-> edits', mod |-> NoDate, key |-> edits',
                     flags |-> {"created"}]
  <2>1. edits' \in Edits
    BY <1>1, NewEditOK DEF AppCreate, TypeInv, TypeOK
  <2>2. row \in Row /\ IsDirty(row) /\ row.id = LocalId
    BY <2>1 DEF Row, Flag, IsDirty
  <2> HIDE DEF row
  <2>3. AppWrites(nextEntry, row, {}) /\ nextEntry \in Entries
    BY <1>1, Bounds DEF AppCreate, row, TypeInv, TypeOK, RecordsTypeOK, Entries
  <2>4. nextEntry \notin Held
    BY HeldKnown, EditsNat
  <2>5. QED
    BY <2>1, <2>2, <2>3, <2>4, AppWritesEdits
<1>2. ASSUME NEW flag \in Flag, NEW op, AppFlags(flag, op, Held)
      PROVE  EditsInv'
  <2>1. edits' \in Edits
    BY <1>2, NewEditOK DEF AppFlags, TypeInv, TypeOK
  <2>2. PICK s \in DOMAIN soup :
           AppWrites(s, [soup[s] EXCEPT !.flags = @ \union {flag}], Held)
    BY <1>2 DEF AppFlags
  <2> DEFINE row == [soup[s] EXCEPT !.flags = @ \union {flag}]
  <2>3. s \in Entries /\ soup[s] \in Row
    BY DEF TypeInv, TypeOK, RecordsTypeOK
  <2>4. row \in Row /\ row.id = soup[s].id /\ IsDirty(row)
    BY <2>3 DEF Row, IsDirty
  <2> HIDE DEF row
  <2>5. AppWrites(s, row, Held)
    BY <2>2 DEF row
  <2>6. QED
    BY <2>1, <2>3, <2>4, <2>5, AppWritesEdits
<1>3. CASE AppPurge
  <2>1. PICK s \in DOMAIN soup :
           soup' = Without(soup, {s}) /\ latest' = [latest EXCEPT ![s] = 0]
    BY <1>3 DEF AppPurge
  <2>2. /\ DOMAIN soup' = DOMAIN soup \ {s} /\ \A t \in DOMAIN soup' : soup'[t] = soup[t]
    BY <2>1 DEF Without
  <2>3. UNCHANGED <<settled, exposed>> /\ latest \in [Entries -> Edits \union {0}]
    BY <1>3 DEF AppPurge, TypeInv, TypeOK, RecordsTypeOK
  <2>4. Calm /\ ~AtStake(s)'
    BY <2>1, <2>3 DEF Calm, AtStake, TypeInv, TypeOK, RecordsTypeOK
  <2>5. EditsSurvive'
    BY <2>2, <2>4 DEF EditsInv, EditsSurvive, AtStake, Calm
  <2>6. DownHeld' \subseteq DownHeld
    BY <2>2, DownHeldIds, HeldIdsStay
  <2>7. QED
    BY <2>3, <2>4, <2>5, <2>6, UpCopyFrame, BatchCopyFrame, DownCopyFrame DEF EditsInv
<1>4. QED
  BY <1>1, <1>2, <1>3 DEF App, AppUpdate, AppDelete, Flag

\* A step that changes neither the soup nor the edits, nor the tasks.
LEMMA SameEdits ==
  ASSUME TypeInv, EditsInv, UNCHANGED <<conf, soup, latest, settled, exposed, up, batch, down>>
  PROVE  EditsInv'
BY DEF EditsInv, EditsSurvive, UpCopy, BatchCopy, DownCopy, Copies, AtStake, Pending, DownHeld,
       DownMergeMode
----------------------------------------------------------------------------
\* A sync down, and a removal of ghosts.

LEMMA SameLatest ==
  ASSUME UNCHANGED <<latest, settled, exposed>>
  PROVE  Calm
BY DEF Calm, AtStake

\* The pages in hand are those there were, or the ids that were already held.
LEMMA DownHoldsLess ==
  ASSUME TypeInv, EditsInv, UNCHANGED <<conf, recordVars, up, batch>>, HeldIds' \subseteq HeldIds,
         down'.ids \subseteq down.ids
  PROVE  EditsInv'
<1>1. Calm /\ UNCHANGED <<soup, latest, settled, exposed>>
  BY SameLatest DEF recordVars
<1>2. DownHeld' \subseteq DownHeld
  BY <1>1, DownHeldIds
<1>3. EditsSurvive'
  BY <1>1 DEF EditsInv, EditsSurvive
<1>4. QED
  BY <1>1, <1>2, <1>3, UpCopyFrame, BatchCopyFrame, DownCopyFrame DEF EditsInv

LEMMA DownReadsEdits ==
  ASSUME TypeInv, EditsInv, UNCHANGED <<conf, up, batch>>,
         \/ StartSyncDown \/ StartFetch \/ SaveProgress \/ ContinueFetch
         \/ EndSyncDown \/ GetRemoteIds
  PROVE  EditsInv'
<1>1. UNCHANGED recordVars
  BY DEF StartSyncDown, StartFetch, SaveProgress, ContinueFetch, EndSyncDown, GetRemoteIds
<1>2. down \in Down
  BY DEF TypeInv, TypeOK, DownTypeOK
<1>3. DownMergeMode' = DownMergeMode
  BY DEF DownMergeMode
<1>4. CASE down'.pc \in {"idle", "start", "prepare"} /\ down'.ids \subseteq down.ids
  <2>1. HeldIds' = {}
    BY <1>4 DEF HeldIds
  <2>2. QED
    BY <1>1, <1>4, <2>1, DownHoldsLess
<1>5. CASE down' = IdleDown
  BY <1>4, <1>5 DEF IdleDown
<1>6. CASE StartSyncDown
  <2>1. down'.pc = "start" /\ down'.ids = {}
    BY <1>6 DEF StartSyncDown, IdleDown
  <2>2. QED
    BY <1>4, <2>1
<1>7. CASE StartFetch
  <2>1. ASSUME FetchPage("prepare", Matching(down.max)) PROVE EditsInv'
    <3>1. down'.pc = "prepare" /\ down'.ids = down.ids
      BY <1>2, <2>1 DEF FetchPage, Down
    <3>2. QED
      BY <1>4, <3>1
  <2>2. QED
    BY <1>5, <1>7, <2>1 DEF StartFetch, MayEnd, Ends
<1>8. CASE SaveProgress
  <2>1. down'.pc = "fetch" /\ down'.rest = down.rest /\ down'.skip = down.skip
        /\ down'.ids = down.ids /\ down.pc = "saved"
    BY <1>2, <1>8 DEF SaveProgress, Down
  <2>2. HeldIds' = HeldIds
    BY <1>3, <2>1 DEF HeldIds
  <2>3. QED
    BY <1>1, <2>1, <2>2, DownHoldsLess
<1>9. CASE ContinueFetch
  <2>1. ASSUME FetchPage("save", down.rest) PROVE EditsInv'
    <3>1. PICK page \in SUBSET down.rest :
             down' = [down EXCEPT !.pc = "save", !.page = page, !.rest = down.rest \ page]
      BY <2>1 DEF FetchPage, Pages
    <3>2. down'.pc = "save" /\ down'.page = page /\ down'.rest = down.rest \ page
          /\ down'.skip = down.skip /\ down'.ids = down.ids /\ down.pc = "fetch"
      BY <1>2, <1>9, <3>1 DEF ContinueFetch, Down
    <3>3. down'.rest \union down'.page = down.rest
      BY <3>2
    <3>4. HeldIds' = HeldIds
      BY <1>3, <3>2, <3>3 DEF HeldIds
    <3>5. QED
      BY <1>1, <3>2, <3>4, DownHoldsLess
  <2>2. QED
    BY <1>5, <1>9, <2>1 DEF ContinueFetch, MayEnd, Ends
<1>10. CASE EndSyncDown
  BY <1>5, <1>10 DEF EndSyncDown
<1>11. CASE GetRemoteIds
  <2>1. ASSUME down' = [down EXCEPT !.pc = "ghosts", !.remote = Live] PROVE EditsInv'
    <3>1. down'.pc = "ghosts" /\ down'.ids = down.ids /\ down.pc = "list"
      BY <1>2, <1>11, <2>1 DEF GetRemoteIds, Down
    <3>2. HeldIds' = HeldIds
      BY <3>1 DEF HeldIds
    <3>3. QED
      BY <1>1, <3>1, <3>2, DownHoldsLess
  <2>2. QED
    BY <1>5, <1>11, <2>1 DEF GetRemoteIds
<1>12. QED
  BY <1>6, <1>7, <1>8, <1>9, <1>10, <1>11

\* The list of ids to skip, or of ids to check, is made from the elements as they
\* are: it holds, or leaves out, the dirty ones.
LEMMA ListsEdits ==
  ASSUME TypeInv, EditsInv, UNCHANGED <<conf, recordVars, up, batch>>,
         LocalId \notin down'.ids,
         \A s \in DOMAIN soup : soup[s].id \in HeldIds' => ~IsDirty(soup[s])
  PROVE  EditsInv'
<1>1. Calm /\ UNCHANGED <<soup, latest, settled, exposed>>
  BY SameLatest DEF recordVars
<1>2. EditsSurvive'
  BY <1>1 DEF EditsInv, EditsSurvive
<1>3. ASSUME NEW s \in DownHeld' PROVE ~AtStake(s)'
  <2>1. s \in DOMAIN soup /\ s \in Entries /\ ~IsDirty(soup[s])
    BY <1>1, <1>3, DownHeldIds DEF TypeInv, TypeOK, RecordsTypeOK
  <2>2. ~AtStake(s)
    BY <2>1 DEF EditsInv, EditsSurvive, AtStake
  <2>3. QED
    BY <1>1, <2>1, <2>2 DEF Calm
<1>4. QED
  BY <1>1, <1>2, <1>3, UpCopyFrame, BatchCopyFrame DEF EditsInv, DownCopy

LEMMA GetIdsToSkipEdits ==
  ASSUME TypeInv, EditsInv, UNCHANGED <<conf, up, batch>>, GetIdsToSkip
  PROVE  EditsInv'
<1>1. down \in Down /\ UNCHANGED recordVars /\ DownMergeMode' = DownMergeMode
  BY DEF GetIdsToSkip, TypeInv, TypeOK, DownTypeOK, DownMergeMode
<1>2. /\ down'.pc = "save" /\ down'.ids = down.ids
      /\ DownMergeMode = "LEAVE_IF_CHANGED" => down'.skip = {soup[s].id : s \in DirtyEntries}
  BY <1>1 DEF GetIdsToSkip, Down
<1>3. \A s \in DOMAIN soup : soup[s].id \in HeldIds' => ~IsDirty(soup[s])
  BY <1>1, <1>2 DEF HeldIds, DirtyEntries
<1>4. QED
  BY <1>1, <1>2, <1>3, ListsEdits DEF EditsInv, DownCopy

LEMMA OneMember ==
  ASSUME NEW S, IsFiniteSet(S), Cardinality(S) <= 1, NEW s \in S, NEW t \in S
  PROVE  s = t
<1> SUFFICES ASSUME s # t PROVE FALSE
  OBVIOUS
<1>1. {s, t} \in SUBSET S
  OBVIOUS
<1>2. Cardinality({s, t}) = 2
  <2>1. IsFiniteSet({s}) /\ Cardinality({s}) = 1
    BY FS_Singleton
  <2>2. t \notin {s} /\ {s} \union {t} = {s, t}
    OBVIOUS
  <2>3. QED
    BY <2>1, <2>2, FS_AddElement
<1>3. Cardinality({s, t}) <= Cardinality(S) /\ Cardinality(S) \in Nat
  BY <1>1, FS_Subset, FS_CardinalityType
<1>4. QED
  BY <1>2, <1>3

LEMMA StartGhostsEdits ==
  ASSUME TypeInv, EditsInv, UNCHANGED <<conf, up, batch>>, StartGhosts, IdsAreUnique
  PROVE  EditsInv'
<1>1. UNCHANGED recordVars
  BY DEF StartGhosts
<1>2. down'.pc = "list" /\ down'.ids = {soup[s].id : s \in DOMAIN soup \ DirtyEntries}
  BY DEF StartGhosts, IdleDown
<1>3. HeldIds' = down'.ids
  BY <1>2 DEF HeldIds
<1>4. ASSUME NEW s \in DOMAIN soup \ DirtyEntries
      PROVE  soup[s].id \in Ids /\ soup[s].id # LocalId
  <2>1. ~IsDirty(soup[s]) /\ RowOK(soup[s], DOMAIN server)
    BY DEF DirtyEntries, TypeInv, SoupInv
  <2>2. soup[s].id # LocalId
    BY <2>1 DEF RowOK, IsDirty
  <2>3. QED
    BY <2>1, <2>2 DEF RowOK, Row
<1>5. ASSUME NEW s \in DOMAIN soup, soup[s].id \in HeldIds' PROVE ~IsDirty(soup[s])
  <2>1. PICK t \in DOMAIN soup \ DirtyEntries : soup[s].id = soup[t].id
    BY <1>2, <1>3, <1>5
  <2> DEFINE E == EntriesOf(soup[t].id)
  <2>2. s \in E /\ t \in E /\ Cardinality(E) <= 1
    BY <1>4, <2>1 DEF EntriesOf, IdsAreUnique
  <2>3. IsFiniteSet(E)
    <3>1. E \in SUBSET Entries /\ IsFiniteSet(Entries)
      BY FS_Interval, BoundsAssumption DEF EntriesOf, Entries, TypeInv, TypeOK, RecordsTypeOK
    <3>2. QED
      BY <3>1, FS_Subset
  <2> HIDE DEF E
  <2>4. s = t
    BY <2>2, <2>3, OneMember
  <2>5. QED
    BY <2>4 DEF DirtyEntries
<1>6. LocalId \notin down'.ids
  BY <1>2, <1>4
<1>7. QED
  BY <1>1, <1>5, <1>6, ListsEdits

LEMMA SavePageEdits ==
  ASSUME TypeInv, TypeInv', KeyInv, EditsInv, UNCHANGED <<conf, up, batch>>, SavePage
  PROVE  EditsInv'
<1>1. down \in Down /\ down.pc = "save" /\ UNCHANGED <<settled, exposed>>
      /\ DownMergeMode' = DownMergeMode
  BY DEF SavePage, TypeInv, TypeOK, DownTypeOK, DownMergeMode
<1>2. CASE down' = IdleDown /\ UNCHANGED <<soup, latest>>
  <2>1. HeldIds' = {} /\ down'.ids = {}
    BY <1>2 DEF HeldIds, IdleDown
  <2>2. DownHeld' = {}
    BY <2>1, DownHeldIds
  <2>3. Calm
    BY <1>1, <1>2, SameLatest
  <2>4. EditsSurvive'
    BY <1>1, <1>2 DEF EditsInv, EditsSurvive
  <2>5. QED
    BY <1>1, <2>1, <2>2, <2>3, <2>4, UpCopyFrame, BatchCopyFrame, DownCopyFrame DEF EditsInv
<1>3. ASSUME NEW order \in Bijection(NewOnes, nextEntry .. nextEntry + Cardinality(NewOnes) - 1),
             soup' = Upserted(order),
             latest' = [s \in Entries |->
                           IF s \in DOMAIN soup /\ (\E x \in ToSave : x.id = soup[s].id)
                              /\ DownMergeMode = "OVERWRITE"
                           THEN 0 ELSE latest[s]],
             NEW max, NEW syncMax,
             down' = [down EXCEPT !.pc = "saved", !.max = max, !.syncMax = syncMax]
      PROVE  EditsInv'
  <2>1. /\ \A s \in DOMAIN soup' :
               \/ /\ s \in DOMAIN soup /\ soup'[s].id = soup[s].id
                  /\ soup'[s] = soup[s]
                        \/ \E x \in ToSave : soup'[s] = Downloaded(x.id, x.record)
               \/ s \notin DOMAIN soup
        /\ DOMAIN soup \subseteq DOMAIN soup'
    BY <1>3, SavedPageEffect
  <2>2. Calm
    BY <1>1, <1>3 DEF Calm, AtStake
  <2>3. ASSUME NEW s \in DOMAIN soup, s \in Entries, NEW x \in ToSave, x.id = soup[s].id
        PROVE  ~AtStake(s)'
    <3>1. CASE DownMergeMode = "OVERWRITE"
      BY <1>3, <2>3, <3>1 DEF AtStake
    <3>2. CASE DownMergeMode # "OVERWRITE"
      <4>1. DownMergeMode = "LEAVE_IF_CHANGED"
        BY <3>2, DownAssumption DEF DownMergeMode, TypeInv, TypeOK, RecordsTypeOK
      <4>2. s \in DownHeld
        BY <1>1, <2>3, <4>1 DEF DownHeld, ToSave
      <4>3. QED
        BY <2>2, <2>3, <4>2 DEF EditsInv, DownCopy, Calm
    <3>3. QED
      BY <3>1, <3>2
  <2>4. EditsSurvive'
    <3>1. ASSUME NEW s \in Entries, AtStake(s)', s \in DOMAIN soup
          PROVE  s \in DOMAIN soup' /\ soup'[s] = soup[s]
      <4>1. ASSUME NEW x \in ToSave, soup'[s] = Downloaded(x.id, x.record) PROVE FALSE
        <5>1. x.id = soup[s].id
          BY <2>1, <3>1, <4>1 DEF Downloaded
        <5>2. QED
          BY <2>3, <3>1, <5>1
      <4>2. QED
        BY <2>1, <3>1, <4>1
    <3>2. QED
      BY <2>2, <3>1 DEF EditsInv, EditsSurvive, AtStake, Calm
  <2>5. down'.pc = "saved" /\ down'.rest = down.rest /\ down'.skip = down.skip
        /\ down'.ids = down.ids
    BY <1>1, <1>3 DEF Down
  <2>6. HeldIds' \subseteq HeldIds
    BY <1>1, <2>5 DEF HeldIds
  <2>7. ASSUME NEW s \in DownHeld' PROVE s \in DownHeld \/ (s \in Entries /\ ~AtStake(s))
    <3>1. s \in DOMAIN soup' /\ soup'[s].id \in HeldIds
      BY <2>6, DownHeldIds
    <3>2. CASE s \in DOMAIN soup
      BY <2>1, <3>1, <3>2, DownHeldIds
    <3>3. CASE s \notin DOMAIN soup
      <4>1. ~AtStake(s) \/ s \notin Entries
        BY <3>3 DEF EditsInv, EditsSurvive, AtStake
      <4>2. s \in Entries
        BY <3>1 DEF TypeInv, TypeOK, RecordsTypeOK
      <4>3. QED
        BY <4>1, <4>2
    <3>4. QED
      BY <3>2, <3>3
  <2>8. QED
    BY <1>1, <2>2, <2>4, <2>5, <2>7, UpCopyFrame, BatchCopyFrame, DownCopyFrame DEF EditsInv
<1>4. QED
  BY <1>2, <1>3 DEF SavePage, MayEnd, Ends

LEMMA DeleteGhostsEdits ==
  ASSUME TypeInv, EditsInv, UNCHANGED <<conf, up, batch>>, DeleteGhosts
  PROVE  EditsInv'
<1>1. down.pc = "ghosts" /\ UNCHANGED <<latest, settled, exposed>> /\ down' = IdleDown
  BY DEF DeleteGhosts
<1>2. Calm
  BY <1>1, SameLatest
<1>3. /\ \A s \in DOMAIN soup' : soup'[s] = soup[s]
      /\ \A s \in DOMAIN soup : soup[s].id \notin down.ids => s \in DOMAIN soup'
  BY DEF DeleteGhosts, Without, EntriesOf
<1>4. \A s \in DOMAIN soup : soup[s].id \in down.ids => ~AtStake(s)
  BY <1>1 DEF DownHeld, EditsInv, DownCopy
<1>5. EditsSurvive'
  BY <1>2, <1>3, <1>4 DEF EditsInv, EditsSurvive, AtStake, Calm
<1>6. HeldIds' = {} /\ down'.ids = {}
  BY <1>1 DEF HeldIds, IdleDown
<1>7. DownHeld' = {}
  BY <1>6, DownHeldIds
<1>8. QED
  BY <1>1, <1>2, <1>5, <1>6, <1>7, UpCopyFrame, BatchCopyFrame, DownCopyFrame DEF EditsInv

LEMMA DownStepEdits ==
  ASSUME TypeInv, TypeInv', KeyInv, EditsInv, DownStep, "ghosts" \in DownRuns => IdsAreUnique,
         UNCHANGED <<conf, up, batch>>
  PROVE  EditsInv'
<1>1. StartGhosts => "ghosts" \in DownRuns
  BY DEF StartGhosts
<1>2. QED
  BY <1>1, DownReadsEdits, GetIdsToSkipEdits, StartGhostsEdits, SavePageEdits, DeleteGhostsEdits
     DEF DownStep
----------------------------------------------------------------------------
\* A sync up that takes its records one by one.

LEMMA UpFreeCopy ==
  ASSUME UpNextRecord \/ UpEnds
  PROVE  UpCopy'
BY UpFreePc DEF UpCopy, InHand

\* A step of a sync up that only reads, or asks the server.
LEMMA UpAsksEdits ==
  ASSUME TypeInv, EditsInv, UNCHANGED <<conf, soup, latest, exposed, batch, down>>,
         settled \subseteq settled', UpCopy'
  PROVE  EditsInv'
<1>1. Calm
  BY SettledCalm
<1>2. EditsSurvive'
  BY <1>1 DEF EditsInv, EditsSurvive, AtStake, Calm
<1>3. DownHeld' = DownHeld
  BY DownHeldIds, HeldIdsStay
<1>4. QED
  BY <1>1, <1>2, <1>3, BatchCopyFrame, DownCopyFrame DEF EditsInv

LEMMA UpReadsEdits ==
  ASSUME TypeInv, EditsInv, StartSyncUp \/ EndSyncUp \/ ReadRecord \/ CheckModDate,
         UNCHANGED <<conf, batch, down>>
  PROVE  EditsInv'
<1>1. UNCHANGED <<soup, latest, settled, exposed>> /\ up \in Up
  BY DEF StartSyncUp, EndSyncUp, ReadRecord, CheckModDate, recordVars, TypeInv, TypeOK, UpTypeOK
<1>2. UpCopy'
  <2>1. CASE UpEnds \/ UpNextRecord
    BY <2>1, UpFreeCopy
  <2>2. CASE StartSyncUp
    <3>1. up'.pc = "next"
      BY <2>2, RestPc DEF StartSyncUp
    <3>2. QED
      BY <3>1 DEF UpCopy, InHand
  <2>3. CASE ReadRecord
    <3>1. ASSUME NEW s \in DOMAIN soup, NEW pc, pc # "save",
                 up' = [up EXCEPT !.pc = pc, !.left = @ \ {s}, !.entry = s, !.row = soup[s]]
          PROVE  UpCopy'
      <4>1. s \in Entries
        BY DEF TypeInv, TypeOK, RecordsTypeOK
      <4>2. up'.pc = pc /\ up'.entry = s /\ up'.row = soup[s]
        BY <1>1, <3>1 DEF Up
      <4>3. AtStake(s)' => IsDirty(soup[s]) /\ soup[s].edit = latest'[s]
        BY <1>1, <4>1 DEF EditsInv, EditsSurvive, AtStake
      <4>4. QED
        BY <3>1, <4>2, <4>3 DEF UpCopy, Copies, AtStake
    <3> DEFINE pc(s) == IF UpMergeMode = "LEAVE_IF_CHANGED" /\ "created" \notin soup[s].flags
                        THEN "check" ELSE "send"
    <3>2. \/ up' = IdleUp
          \/ \E s \in DOMAIN soup :
                up' = [up EXCEPT !.pc = pc(s), !.left = @ \ {s}, !.entry = s, !.row = soup[s]]
      BY <2>3 DEF ReadRecord
    <3>3. \A s : pc(s) # "save"
      OBVIOUS
    <3> HIDE DEF pc
    <3>4. QED
      BY <2>1, <3>1, <3>2, <3>3 DEF UpEnds
  <2>4. CASE CheckModDate
    <3>1. CASE up' = [up EXCEPT !.pc = "send", !.seen = server[up.row.id].edit]
      <4>1. up'.pc = "send" /\ up'.entry = up.entry /\ up'.row = up.row /\ up.pc \in InHand
        BY <1>1, <2>4, <3>1 DEF Up, CheckModDate, InHand
      <4>2. QED
        BY <1>1, <4>1 DEF EditsInv, UpCopy, Copies, AtStake
    <3>2. QED
      BY <2>1, <2>4, <3>1 DEF CheckModDate
  <2>5. QED
    BY <2>1, <2>2, <2>3, <2>4 DEF EndSyncUp
<1>3. QED
  BY <1>1, <1>2, UpAsksEdits

\* The record in hand, with or without its answer.
LEMMA InHandCopy ==
  ASSUME TypeInv, UpCopy, Calm, up.pc \in InHand, up'.entry = up.entry, up'.row = up.row,
         up'.pc = "save" /\ up'.answer # "refused" => up.row.edit \in settled'
  PROVE  UpCopy'
<1>1. up.entry \in Entries
  BY DEF TypeInv, UpInv
<1>2. Copies(up.row, up.entry)'
  BY <1>1 DEF UpCopy, Copies, Calm
<1>3. QED
  BY <1>2 DEF UpCopy, Copies, AtStake

LEMMA UpRequestsEdits ==
  ASSUME TypeInv, EditsInv, CreateOnServer \/ UpdateOnServer \/ DeleteOnServer,
         UNCHANGED <<conf, batch, down>>
  PROVE  EditsInv'
<1>1. /\ UNCHANGED <<soup, latest, exposed>> /\ up.pc \in InHand /\ up \in Up
      /\ settled \subseteq settled'
  BY DEF CreateOnServer, UpdateOnServer, DeleteOnServer, Accepted, Refused, Unchanged, InHand,
         TypeInv, TypeOK, UpTypeOK
<1>2. Calm
  BY <1>1, SettledCalm
<1>3. \/ UpEnds \/ UpNextRecord \/ Answered("refused", LocalId)
      \/ up' = [up EXCEPT !.pc = "recreate"]
      \/ \E answer, id : Answered(answer, id) /\ up.row.edit \in settled'
  BY DEF CreateOnServer, UpdateOnServer, DeleteOnServer, Accepted, Refused
<1>4. UpCopy'
  <2>1. CASE UpEnds \/ UpNextRecord
    BY <2>1, UpFreeCopy
  <2>2. CASE up' = [up EXCEPT !.pc = "recreate"]
    <3>1. up'.pc = "recreate" /\ up'.entry = up.entry /\ up'.row = up.row
      BY <1>1, <2>2 DEF Up
    <3>2. QED
      BY <1>1, <1>2, <3>1, InHandCopy DEF EditsInv
  <2>3. ASSUME NEW answer, NEW id, Answered(answer, id),
               answer = "refused" \/ up.row.edit \in settled'
        PROVE  UpCopy'
    <3>1. /\ up'.pc = "save" /\ up'.answer = answer /\ up'.entry = up.entry
          /\ up'.row = up.row
      BY <1>1, <2>3 DEF Answered, Up
    <3>2. QED
      BY <1>1, <1>2, <2>3, <3>1, InHandCopy DEF EditsInv
  <2>4. QED
    BY <1>3, <2>1, <2>2, <2>3
<1>5. QED
  BY <1>1, <1>4, UpAsksEdits

\* An element is saved as the copy is, or its edit is settled.
LEMMA SavesEdits ==
  ASSUME TypeInv, EditsInv, Calm, NEW s, NEW row,
         \/ soup' = soup
         \/ s \in DOMAIN soup /\ soup' = With(soup, s, row)
         \/ soup' = Without(soup, {s}),
         s \in Entries /\ AtStake(s)' =>
            /\ IsDirty(row) /\ row.edit = latest[s]
            /\ soup' # Without(soup, {s})
  PROVE  EditsSurvive'
<1>1. /\ \A t \in DOMAIN soup' : soup'[t] = soup[t] \/ (t = s /\ soup'[t] = row)
      /\ \A t \in DOMAIN soup : t \in DOMAIN soup' \/ (t = s /\ soup' = Without(soup, {s}))
  BY DEF With, Without
<1>2. QED
  BY <1>1 DEF EditsInv, EditsSurvive, AtStake, Calm

LEMMA SaveRecordEdits ==
  ASSUME TypeInv, EditsInv, SaveRecord, down.pc = "idle", UNCHANGED <<conf, batch, down>>
  PROVE  EditsInv'
<1> DEFINE clean == [up.row EXCEPT !.flags = {}, !.id = up.id]
<1>1. /\ up.pc = "save" /\ UpNextRecord /\ soup' = Saved /\ up.pc \in InHand
      /\ UNCHANGED <<latest, settled, exposed>>
  BY DEF SaveRecord, InHand
<1>2. Calm
  BY <1>1, SameLatest
<1>3. EditsSurvive'
  <2> PICK s \in Entries : s = up.entry
    BY <1>1 DEF TypeInv, UpInv
  <2>1. AtStake(s)' => AtStake(s) /\ latest'[s] = latest[s]
    BY <1>1 DEF AtStake
  <2>2. AtStake(s) => IsDirty(up.row) /\ up.row.edit = latest[s]
    BY <1>1 DEF EditsInv, UpCopy, Copies
  <2>3. up.answer # "refused" => ~AtStake(s)
    BY <1>1, <2>2 DEF EditsInv, UpCopy, AtStake
  <2>4. \/ soup' = soup
        \/ s \in DOMAIN soup /\ soup' = With(soup, s, up.row)
        \/ /\ up.answer # "refused"
           /\ \/ soup' = Without(soup, {s})
              \/ s \in DOMAIN soup /\ soup' = With(soup, s, clean)
    BY <1>1 DEF Saved
  <2> HIDE DEF clean
  <2>5. CASE soup' = soup
    BY <1>1, <2>5 DEF EditsInv, EditsSurvive
  <2>6. CASE s \in DOMAIN soup /\ soup' = With(soup, s, up.row)
    <3>1. soup' # Without(soup, {s})
      BY <2>6 DEF With, Without
    <3>2. QED
      BY <1>2, <2>1, <2>2, <2>6, <3>1, SavesEdits
  <2>7. CASE /\ up.answer # "refused"
             /\ \/ soup' = Without(soup, {s})
                \/ s \in DOMAIN soup /\ soup' = With(soup, s, clean)
    BY <1>2, <2>1, <2>3, <2>7, SavesEdits
  <2>8. QED
    BY <2>4, <2>5, <2>6, <2>7
<1>4. UpCopy'
  BY <1>1, UpFreeCopy
<1>5. BatchCopy'
  BY <1>1, <1>2, BatchCopyFrame DEF EditsInv
<1>6. DownHeld' = {}
  BY DownHeldIdle
<1>7. QED
  BY <1>3, <1>4, <1>5, <1>6 DEF EditsInv, DownCopy

LEMMA UpStepEdits ==
  ASSUME TypeInv, EditsInv, UpStep, down.pc = "idle", UNCHANGED <<conf, batch, down>>
  PROVE  EditsInv'
BY UpReadsEdits, UpRequestsEdits, SaveRecordEdits DEF UpStep
----------------------------------------------------------------------------
\* A sync up in batches.

LEMMA BatchAsksEdits ==
  ASSUME TypeInv, EditsInv, UNCHANGED <<conf, soup, latest, exposed, up, down>>,
         settled \subseteq settled', BatchCopy'
  PROVE  EditsInv'
<1>1. Calm
  BY SettledCalm
<1>2. EditsSurvive'
  BY <1>1 DEF EditsInv, EditsSurvive, AtStake, Calm
<1>3. DownHeld' = DownHeld
  BY DownHeldIds, HeldIdsStay
<1>4. QED
  BY <1>1, <1>2, <1>3, UpCopyFrame, DownCopyFrame DEF EditsInv

LEMMA BatchFreeCopy ==
  ASSUME batch'.check = {}, batch'.todo = {}, batch'.sending = {}, batch'.unsaved = {},
         batch'.answers = None
  PROVE  BatchCopy'
BY EmptyPartial DEF BatchCopy, Pending

LEMMA BatchEndsCopy == BatchEnds => BatchCopy'
BY BatchFreeCopy, IdleBatchFields DEF BatchEnds

\* The rows, or some of them, with fewer records still to go.
LEMMA BatchLessCopy ==
  ASSUME TypeInv, BatchCopy, Calm, settled \subseteq settled', Pending' \subseteq Pending,
         \A s \in Pending' : batch'.rows[s] = batch.rows[s],
         \A s \in batch'.unsaved : s \in Pending' /\ IsDirty(batch'.rows[s]),
         \/ batch'.answers = None
         \/ batch'.answers = batch.answers /\ batch'.rows = batch.rows
  PROVE  BatchCopy'
<1>1. Pending \subseteq Entries
  BY BatchFields DEF Pending
<1>2. ASSUME NEW s \in Pending', IsDirty(batch'.rows[s]), AtStake(s)'
      PROVE  batch'.rows[s].edit = latest'[s]
  <2>1. /\ s \in Pending /\ s \in Entries /\ batch'.rows[s] = batch.rows[s]
    BY <1>1, <1>2
  <2>2. AtStake(s) /\ latest'[s] = latest[s]
    BY <1>2, <2>1 DEF Calm
  <2>3. QED
    BY <1>2, <2>1, <2>2 DEF BatchCopy, Copies
<1>3. ASSUME NEW s \in DOMAIN batch'.answers
      PROVE  /\ s \in DOMAIN batch'.rows
             /\ Taken(batch'.answers[s], batch'.rows[s]) => batch'.rows[s].edit \in settled'
  BY <1>3, EmptyPartial DEF BatchCopy
<1>4. QED
  BY <1>2, <1>3 DEF BatchCopy, Copies

LEMMA BatchReadsEdits ==
  ASSUME TypeInv, EditsInv, UNCHANGED <<conf, up, down>>,
         \/ StartBatchSyncUp \/ ReadRecords \/ CheckModDates \/ CheckedModDates
         \/ FillBatch \/ NextBatch \/ EndBatchSyncUp
  PROVE  EditsInv'
<1>1. UNCHANGED <<soup, latest, exposed, settled>>
  BY DEF StartBatchSyncUp, ReadRecords, CheckModDates, CheckedModDates, FillBatch, NextBatch,
         EndBatchSyncUp, recordVars
<1>2. Calm /\ BatchCopy /\ Pending \subseteq DOMAIN batch.rows
  BY <1>1, SameLatest DEF EditsInv, TypeInv, BatchInv
<1> SUFFICES BatchCopy'
  BY <1>1, BatchAsksEdits
<1>3. CASE StartBatchSyncUp
  BY <1>3, BatchFreeCopy, IdleBatchFields DEF StartBatchSyncUp
<1>4. CASE ReadRecords
  <2> DEFINE found == batch.left \intersect DOMAIN soup
  <2>1. /\ batch'.rows = Restrict(soup, found) /\ batch'.answers = None
        /\ batch'.check \union batch'.todo \subseteq found /\ batch'.sending = {}
        /\ batch'.unsaved = {}
    <3>1. batch.answers = None /\ batch.sending = {} /\ batch.unsaved = {}
      BY <1>4 DEF ReadRecords, TypeInv, BatchInv
    <3>2. QED
      BY <1>4, <3>1, BatchFields DEF ReadRecords
  <2>2. ASSUME NEW s \in Pending', AtStake(s)'
        PROVE  batch'.rows[s].edit = latest'[s] /\ IsDirty(batch'.rows[s])
    <3>1. s \in found /\ batch'.rows[s] = soup[s] /\ s \in Entries
      BY <2>1, BatchFields DEF Pending, Restrict
    <3>2. QED
      BY <1>1, <2>2, <3>1 DEF EditsInv, EditsSurvive, AtStake
  <2>3. QED
    BY <2>1, <2>2, EmptyPartial DEF BatchCopy, Copies
<1>5. CASE CheckModDates
  <2>1. ASSUME NEW asked \in SUBSET batch.check, NEW result \in SUBSET asked, NEW seen,
               batch' = [batch EXCEPT !.check = @ \ asked, !.todo = @ \union result, !.seen = seen]
        PROVE  BatchCopy'
    <3>1. /\ batch'.check = batch.check \ asked /\ batch'.todo = batch.todo \union result
          /\ batch'.sending = batch.sending /\ batch'.rows = batch.rows
          /\ batch'.answers = batch.answers /\ batch'.unsaved = batch.unsaved
      BY <2>1, BatchFields
    <3>2. Pending' \subseteq Pending /\ batch.unsaved \subseteq Pending'
      BY <3>1 DEF Pending, TypeInv, BatchInv
    <3>3. QED
      BY <1>1, <1>2, <3>1, <3>2, BatchLessCopy DEF BatchCopy
  <2> DEFINE asked == IF Collection THEN batch.check ELSE {Min(batch.check)}
  <2>2. asked \subseteq batch.check
    <3>1. batch.check \in SUBSET Nat /\ batch.check # {}
      BY <1>5, BatchFields DEF CheckModDates, Entries
    <3>2. QED
      BY <3>1, MinOf
  <2>3. \/ BatchEnds
        \/ \E result \in SUBSET asked : \E seen :
              batch' = [batch EXCEPT !.check = @ \ asked, !.todo = @ \union result, !.seen = seen]
    BY <1>5 DEF CheckModDates
  <2> HIDE DEF asked
  <2>4. QED
    BY <2>1, <2>2, <2>3, BatchEndsCopy
<1>6. CASE CheckedModDates
  <2>1. /\ batch'.check = batch.check /\ batch'.todo = batch.todo
        /\ batch'.sending = batch.sending /\ batch'.rows = batch.rows
        /\ batch'.answers = batch.answers /\ batch'.unsaved = batch.unsaved
    BY <1>6, BatchFields DEF CheckedModDates
  <2>2. Pending' = Pending /\ batch.unsaved \subseteq Pending
    BY <2>1 DEF Pending, TypeInv, BatchInv
  <2>3. QED
    BY <1>1, <1>2, <2>1, <2>2, BatchLessCopy DEF BatchCopy
<1>7. CASE FillBatch
  <2> DEFINE next == FirstOf(batch.todo)
  <2>1. CASE batch' = [batch EXCEPT !.pc = "send", !.todo = @ \ next, !.sending = next]
    <3>1. /\ batch'.check = batch.check /\ batch'.todo = batch.todo \ next
          /\ batch'.sending = next /\ batch'.rows = batch.rows
          /\ batch'.answers = batch.answers /\ batch'.unsaved = batch.unsaved
      BY <2>1, BatchFields
    <3>2. next \subseteq batch.todo /\ batch.unsaved = {}
      BY <1>7 DEF FirstOf, FillBatch, TypeInv, BatchInv
    <3>3. Pending' \subseteq Pending
      BY <3>1, <3>2 DEF Pending
    <3>4. QED
      BY <1>1, <1>2, <3>1, <3>2, <3>3, BatchLessCopy
  <2>2. QED
    BY <1>7, <2>1, BatchEndsCopy DEF FillBatch
<1>8. CASE NextBatch
  <2>1. /\ batch'.rows = Restrict(batch.rows, batch.todo) /\ batch'.answers = None
        /\ batch'.check = batch.check /\ batch'.todo = batch.todo /\ batch'.sending = {}
        /\ batch'.unsaved = {} /\ batch.check = {}
    BY <1>8, BatchFields DEF NextBatch, TypeInv, BatchInv
  <2>2. Pending' = batch.todo /\ batch.todo \subseteq Pending
    BY <2>1 DEF Pending
  <2>3. \A s \in Pending' : batch'.rows[s] = batch.rows[s]
    BY <1>2, <2>1, <2>2 DEF Restrict
  <2>4. QED
    BY <1>1, <1>2, <2>1, <2>2, <2>3, BatchLessCopy
<1>9. QED
  BY <1>3, <1>4, <1>5, <1>6, <1>7, <1>8, BatchEndsCopy DEF EndBatchSyncUp

LEMMA SendRequestsEdits ==
  ASSUME TypeInv, EditsInv, SendRequests, UNCHANGED <<conf, up, down>>
  PROVE  EditsInv'
<1>1. UNCHANGED <<soup, latest, exposed>>
  BY SendRequestsEffect
<1>2. CASE BatchEnds /\ Unchanged
  BY <1>1, <1>2, BatchEndsCopy, BatchAsksEdits DEF Unchanged
<1>3. ASSUME NEW refused \in SUBSET Requested, Settles(refused),
             BatchEnds \/ AnswerSaved(refused)
      PROVE  EditsInv'
  <2> DEFINE done == DoneOf(refused)
             gone == GoneOf(refused)
  <2>1. done \in SUBSET Requested /\ gone \in SUBSET Requested
    BY DoneRequested DEF GoneOf
  <2>2. settled' = settled \union
           {Rows[s].edit : s \in done \union {r \in gone : Wants(Rows[r], "delete")}}
    BY <1>3 DEF Settles
  <2>3. settled \subseteq settled' /\ Calm
    BY <1>1, <2>2, SettledCalm
  <2>4. CASE BatchEnds
    BY <1>1, <2>3, <2>4, BatchEndsCopy, BatchAsksEdits
  <2>5. ASSUME AnswerSaved(refused) PROVE BatchCopy'
    <3>1. /\ batch'.rows = batch.rows /\ batch'.sending = batch.sending
          /\ batch'.todo = batch.todo /\ batch'.check = batch.check
          /\ batch'.unsaved = {s \in batch.sending : IsDirty(Rows[s])}
          /\ batch'.answers = Answers(done, gone, refused)
      BY <2>5 DEF AnswerSaved
    <3> HIDE DEF done, gone
    <3>2. Pending' = Pending /\ Pending \subseteq Entries
      BY <3>1, BatchFields DEF Pending
    <3>3. ASSUME NEW s \in Pending, IsDirty(batch.rows[s]), AtStake(s)'
          PROVE  batch.rows[s].edit = latest'[s]
      <4>1. s \in Entries /\ AtStake(s) /\ latest'[s] = latest[s]
        BY <2>3, <3>2, <3>3 DEF Calm
      <4>2. QED
        BY <3>3, <4>1 DEF EditsInv, BatchCopy, Copies
    <3>4. ASSUME NEW s \in DOMAIN batch'.answers
          PROVE  /\ s \in DOMAIN batch.rows
                 /\ Taken(batch'.answers[s], batch.rows[s]) => batch.rows[s].edit \in settled'
      <4>1. CASE s \in DOMAIN batch.answers
        <5>1. batch'.answers[s] = batch.answers[s]
          BY <3>1, <4>1 DEF Answers, Merge
        <5>2. QED
          BY <2>3, <4>1, <5>1 DEF EditsInv, BatchCopy
      <4>2. CASE s \notin DOMAIN batch.answers
        <5>1. /\ s \in done \union gone \union refused
              /\ batch'.answers[s] = IF s \in done THEN "ok" ELSE IF s \in gone THEN "gone"
                                     ELSE "refused"
          BY <3>1, <3>4, <4>2 DEF Answers, Merge
        <5>2. s \in DOMAIN batch.rows
          BY <2>1, <5>1, RequestedOK
        <5>3. Taken(batch'.answers[s], batch.rows[s]) =>
                 s \in done \union {r \in gone : Wants(Rows[r], "delete")}
          BY <5>1 DEF Taken, Wants, Rows
        <5>4. QED
          BY <2>2, <5>2, <5>3 DEF Rows
      <4>3. QED
        BY <4>1, <4>2
    <3>5. QED
      BY <3>1, <3>2, <3>3, <3>4 DEF BatchCopy, Copies, Rows
  <2>6. QED
    BY <1>1, <1>3, <2>3, <2>4, <2>5, BatchAsksEdits
<1>4. QED
  BY <1>2, <1>3, SendRequestsEffect

LEMMA SaveAnswerEdits ==
  ASSUME TypeInv, EditsInv, SaveAnswer, down.pc = "idle", UNCHANGED <<conf, up, down>>
  PROVE  EditsInv'
<1>1. UNCHANGED <<latest, exposed>>
  BY SaveAnswerEffect
<1>2. PICK s \in batch.unsaved :
               /\ s \in batch.sending /\ s \in DOMAIN batch.rows /\ Rows[s] \in Row
               /\ \/ /\ Removes(s) /\ soup' = Without(soup, {s}) /\ RowSaved(s, Rows[s])
                     /\ settled' = settled \union
                           IF "created" \in Rows[s].flags THEN {Rows[s].edit} ELSE {}
                  \/ /\ Cleans(s) /\ Save(s, CleanRow(s)) /\ RowSaved(s, CleanRow(s))
                     /\ settled' = settled
                  \/ /\ Recreates(s) /\ soup' = soup /\ SentAgain(s)
                     /\ settled' = settled
                  \/ /\ ~(Removes(s) \/ Cleans(s) \/ Recreates(s))
                     /\ Save(s, Rows[s]) /\ RowSaved(s, Rows[s])
                     /\ settled' = settled
  BY SaveAnswerEffect
<1>3. s \in Entries /\ s \in Pending /\ settled \subseteq settled' /\ Pending \subseteq Entries
  BY <1>2, BatchFields DEF Pending
<1>4. Calm
  BY <1>1, <1>3, SettledCalm
<1>5. IsDirty(Rows[s]) /\ (AtStake(s) => Rows[s].edit = latest[s])
  BY <1>2, <1>3 DEF EditsInv, BatchCopy, Rows, Copies
<1>6. AtStake(s)' => AtStake(s) /\ latest'[s] = latest[s] /\ latest[s] \notin settled'
  BY <1>1, <1>3, <1>4 DEF Calm, AtStake
<1>7. Removes(s) \/ Cleans(s) => Rows[s].edit \in settled \/ "created" \in Rows[s].flags
  BY DEF Removes, Cleans, Got, EditsInv, BatchCopy, Taken, Rows
<1>8. (Removes(s) /\ ~("created" \in Rows[s].flags)) \/ Cleans(s) => Rows[s].edit \in settled
  BY DEF Removes, Cleans, Got, EditsInv, BatchCopy, Taken, Rows
<1>9. UpCopy' /\ DownHeld' = {} /\ LocalId \notin down'.ids
  BY <1>3, <1>4, UpCopyFrame, DownHeldIdle DEF EditsInv, DownCopy
<1>10. EditsSurvive'
  <2>1. CASE soup' = soup
    BY <1>4, <2>1 DEF EditsInv, EditsSurvive, Calm, AtStake
  <2>2. CASE Removes(s) /\ soup' = Without(soup, {s}) /\ settled' = settled \union
                           IF "created" \in Rows[s].flags THEN {Rows[s].edit} ELSE {}
    <3>1. ~AtStake(s)'
      BY <1>5, <1>6, <1>8, <2>2
    <3>2. QED
      BY <1>4, <2>2, <3>1, SavesEdits
  <2>3. CASE Cleans(s) /\ s \in DOMAIN soup /\ soup' = With(soup, s, CleanRow(s))
    <3>1. ~AtStake(s)'
      BY <1>3, <1>5, <1>6, <1>8, <2>3
    <3>2. QED
      BY <1>4, <2>3, <3>1, SavesEdits
  <2>4. CASE s \in DOMAIN soup /\ soup' = With(soup, s, Rows[s])
    <3>1. soup' # Without(soup, {s})
      BY <2>4 DEF With, Without
    <3>2. QED
      BY <1>4, <1>5, <1>6, <2>4, <3>1, SavesEdits
  <2>5. QED
    BY <1>2, <2>1, <2>2, <2>3, <2>4 DEF Save
<1>11. BatchCopy'
  <2>1. ASSUME NEW row, batch'.rows = [batch.rows EXCEPT ![s] = row], row.edit = Rows[s].edit,
               batch'.check = batch.check, batch'.todo = batch.todo,
               batch'.sending = batch.sending, batch'.unsaved \subseteq batch.unsaved \ {s},
               \/ batch'.answers = None
               \/ /\ batch'.answers = batch.answers
                  /\ s \in DOMAIN batch.answers /\ Taken(batch.answers[s], row) =>
                        row.edit \in settled'
        PROVE  BatchCopy'
    <3>1. Pending' = Pending
      BY <2>1 DEF Pending
    <3>2. /\ DOMAIN batch'.rows = DOMAIN batch.rows /\ batch'.rows[s] = row
          /\ \A r \in DOMAIN batch.rows : r # s => batch'.rows[r] = batch.rows[r]
      BY <1>2, <2>1
    <3>3. ASSUME NEW r \in Pending, IsDirty(batch'.rows[r]), AtStake(r)'
          PROVE  batch'.rows[r].edit = latest'[r]
      <4>1. CASE r = s
        BY <1>5, <1>6, <2>1, <3>2, <3>3, <4>1
      <4>2. CASE r # s
        <5>1. r \in DOMAIN batch.rows /\ AtStake(r) /\ latest'[r] = latest[r]
          BY <1>3, <1>4, <3>3 DEF TypeInv, BatchInv, Calm
        <5>2. QED
          BY <3>2, <3>3, <4>2, <5>1 DEF EditsInv, BatchCopy, Copies
      <4>3. QED
        BY <4>1, <4>2
    <3>4. \A r \in batch'.unsaved : IsDirty(batch'.rows[r])
      <4>1. \A r \in batch'.unsaved : r # s /\ r \in batch.unsaved /\ r \in DOMAIN batch.rows
        BY <2>1 DEF TypeInv, BatchInv, Pending
      <4>2. QED
        BY <3>2, <4>1 DEF EditsInv, BatchCopy
    <3>5. ASSUME NEW r \in DOMAIN batch'.answers
          PROVE  /\ r \in DOMAIN batch'.rows
                 /\ Taken(batch'.answers[r], batch'.rows[r]) => batch'.rows[r].edit \in settled'
      <4>1. batch'.answers = batch.answers /\ r \in DOMAIN batch.answers
        BY <2>1, <3>5, EmptyPartial
      <4>2. CASE r = s
        <5>1. batch'.rows[r] = row /\ (Taken(batch.answers[r], row) => row.edit \in settled')
          BY <2>1, <3>2, <4>1, <4>2, EmptyPartial, <3>5
        <5>2. r \in DOMAIN batch'.rows
          BY <1>2, <3>2, <4>2
        <5>3. QED
          BY <4>1, <5>1, <5>2
      <4>3. CASE r # s
        <5>1. r \in DOMAIN batch.rows /\ (Taken(batch.answers[r], batch.rows[r]) =>
                 batch.rows[r].edit \in settled)
          BY <4>1 DEF EditsInv, BatchCopy
        <5>2. batch'.rows[r] = batch.rows[r]
          BY <3>2, <4>3, <5>1
        <5>3. QED
          BY <1>3, <3>2, <4>1, <5>1, <5>2
      <4>4. QED
        BY <4>2, <4>3
    <3>6. QED
      BY <3>1, <3>3, <3>4, <3>5 DEF BatchCopy, Copies
  <2>2. ASSUME NEW row, RowSaved(s, row), row.edit = Rows[s].edit,
               s \in DOMAIN batch.answers /\ Taken(batch.answers[s], row) =>
                  row.edit \in settled'
        PROVE  BatchCopy'
    BY <2>1, <2>2 DEF RowSaved
  <2>3. CASE RowSaved(s, Rows[s])
    BY <1>3, <2>2, <2>3 DEF EditsInv, BatchCopy, Rows
  <2>4. CASE Cleans(s) /\ RowSaved(s, CleanRow(s))
    <3>1. CleanRow(s).edit = Rows[s].edit
      BY <1>2 DEF CleanRow, Row
    <3>2. QED
      BY <1>3, <1>8, <2>2, <2>4, <3>1
  <2>5. CASE SentAgain(s)
    <3>1. NewRow(s).edit = Rows[s].edit
      BY <1>2 DEF NewRow, Row
    <3>2. QED
      BY <2>1, <2>5, <3>1 DEF SentAgain
  <2>6. QED
    BY <1>2, <2>3, <2>4, <2>5
<1>12. QED
  BY <1>9, <1>10, <1>11 DEF EditsInv, DownCopy

LEMMA BatchStepEdits ==
  ASSUME TypeInv, EditsInv, BatchStep, down.pc = "idle", UNCHANGED <<conf, up, down>>
  PROVE  EditsInv'
BY BatchReadsEdits, SendRequestsEdits, SaveAnswerEdits DEF BatchStep
----------------------------------------------------------------------------
\* Unless sync downs add elements while records with an external id wait for their
\* ids, and ghosts are removed by these ids.
Unambiguous == ~ExternalIds \/ "down" \notin DownRuns \/ "ghosts" \notin DownRuns

LEMMA EditsNext ==
  ASSUME TypeInv, TypeInv', KeyInv, IdInv, OneElementPerKey, EditsInv, [Next]_vars, Unambiguous
  PROVE  EditsInv'
<1>1. "ghosts" \in DownRuns => IdsAreUnique
  BY UniqueIds DEF Unambiguous
<1>2. CASE Worker /\ UNCHANGED conf
  BY <1>1, <1>2, UpStepEdits, BatchStepEdits, DownStepEdits DEF Worker
<1>3. CASE App(Held) /\ UNCHANGED <<conf, up, batch, down>>
  BY <1>3, AppEdits
<1>4. CASE UNCHANGED <<conf, soup, latest, settled, exposed, up, batch, down>>
  BY <1>4, SameEdits
<1>5. Others => UNCHANGED <<soup, latest, settled, exposed>>
  BY DEF Others, OtherCreate, OtherUpdate, OtherDelete, OtherWrites
<1>6. CASE Crash /\ UNCHANGED conf
  <2>1. UNCHANGED <<soup, latest, settled, exposed>>
    BY <1>6 DEF Crash, recordVars
  <2>2. UpCopy' /\ BatchCopy'
    BY <1>6, UpFreeCopy, BatchEndsCopy DEF Crash
  <2>3. DownHeld' = {} /\ down'.ids = {}
    <3>1. down' = IdleDown
      BY <1>6 DEF Crash, DownCrash
    <3>2. down'.pc = "idle" /\ down'.ids = {}
      BY <3>1 DEF IdleDown
    <3>3. HeldIds' = {}
      BY <3>2 DEF HeldIds
    <3>4. QED
      BY <3>2, <3>3, DownHeldIds
  <2>4. EditsSurvive'
    BY <2>1 DEF EditsInv, EditsSurvive
  <2>5. QED
    BY <2>2, <2>3, <2>4 DEF EditsInv, DownCopy
<1>7. QED
  BY <1>2, <1>3, <1>4, <1>5, <1>6 DEF Next, vars, recordVars

LEMMA EditsInit == Init => EditsInv
<1> SUFFICES ASSUME Init PROVE EditsInv
  OBVIOUS
<1>1. latest = [s \in Entries |-> 0] /\ up.pc = "idle" /\ down = IdleDown /\ batch = IdleBatch
  BY DEF Init, RecordsInit, UpInit, IdleUp, DownInit, BatchInit
<1>2. EditsSurvive
  BY <1>1 DEF EditsSurvive
<1>3. UpCopy
  BY <1>1 DEF UpCopy, InHand
<1>4. BatchCopy
  BY <1>1, IdleBatchFields, EmptyPartial DEF BatchCopy, Pending
<1>5. DownCopy
  BY <1>1 DEF DownCopy, DownHeld, IdleDown
<1>6. QED
  BY <1>2, <1>3, <1>4, <1>5 DEF EditsInv

\* An edit of the application is never lost on the way: the server accepts it, or it
\* stays in the soup with the flags that send it, whichever requests, answers or
\* processes are lost, unless it was made while a task held a copy of the element.
\* (With an external id field two elements may come to have one id; removing the
\* ghosts by that id would take the edit of the one with the other.)
THEOREM EditsSurviveCorrect ==
    Spec => [](~ExternalIds \/ "down" \notin DownRuns \/ "ghosts" \notin DownRuns
                  => EditsSurvive)
<1> DEFINE Inv == /\ TypeInv /\ KeyInv /\ IdInv /\ OneElementPerKey
                  /\ Unambiguous => EditsInv
<1>1. Init => Inv
  BY InitInv, KeysInit, IdsInit, ElementsInit, EditsInit
<1>2. Inv /\ [Next]_vars => Inv'
  <2> SUFFICES ASSUME Inv, [Next]_vars PROVE Inv'
    OBVIOUS
  <2>1. TypeInv' /\ KeyInv' /\ IdInv' /\ OneElementPerKey'
    BY NextInv, KeysNext, IdsNext, ElementsNext
  <2>2. Unambiguous' => Unambiguous
    BY DEF Next, vars, Unambiguous, ExternalIds, DownRuns
  <2>3. QED
    BY <2>1, <2>2, EditsNext
<1>3. Inv => (~ExternalIds \/ "down" \notin DownRuns \/ "ghosts" \notin DownRuns
                 => EditsSurvive)
  BY DEF Unambiguous, EditsInv
<1> HIDE DEF Inv
<1>4. QED
  BY <1>1, <1>2, <1>3, PTL DEF Spec
=============================================================================
