--------------------------- MODULE MobileSyncProofs ---------------------------
(***************************************************************************)
(* Types of MobileSync, for any number of elements, edits and dates, any   *)
(* target and any faults.                                                  *)
(*                                                                         *)
(* TypeOK is not inductive alone.  What a task has in hand was read from   *)
(* the soup or the server some steps ago, and goes on being an element or  *)
(* an id the server has given only because both only grow (Grows): RowOK   *)
(* says it of the elements, UpInv of the record sync up sends one at a     *)
(* time, BatchInv of the records, requests and answers of a batch, DownInv *)
(* of a page.  Each component has a Frame lemma for the steps of the       *)
(* others.                                                                 *)
(***************************************************************************)
EXTENDS MobileSync, FiniteSetTheorems, TLAPS

\* A record as the soup may hold it: its id is LocalId or one of the server, and
\* it has an id of the server unless it was created here.
RowOK(row, ids) ==
    /\ row \in Row
    /\ row.id \in ids \union {LocalId}
    /\ row.id = LocalId => "created" \in row.flags

SoupInv == \A s \in DOMAIN soup : s < nextEntry /\ RowOK(soup[s], DOMAIN server)

InHand == {"check", "send", "recreate", "save"}

UpInv ==
    /\ up.pc \in InHand =>
          up.entry \in Entries /\ up.entry < nextEntry /\ RowOK(up.row, DOMAIN server)
    /\ up.pc = "check" => "created" \notin up.row.flags
    /\ up.pc = "save" /\ up.answer = "ok" => up.id \in DOMAIN server
    /\ up.pc = "save" /\ up.answer = "gone" => "deleted" \in up.row.flags

Pending == batch.todo \union batch.check \union batch.sending

BatchInv ==
    /\ \A s \in DOMAIN batch.rows : s < nextEntry /\ RowOK(batch.rows[s], DOMAIN server)
    /\ Pending \subseteq DOMAIN batch.rows
    /\ batch.unsaved \subseteq batch.sending
    /\ batch.pc # "check" => batch.check = {}
    /\ batch.pc \in {"read", "check", "fill"} =>
          batch.sending = {} /\ batch.answers = None /\ batch.ids = None
    /\ \A s \in batch.check : "created" \notin batch.rows[s].flags
    /\ \A s \in DOMAIN batch.answers : batch.answers[s] = "ok" => s \in DOMAIN batch.ids
    /\ \A s \in DOMAIN batch.ids : batch.ids[s] \in DOMAIN server

DownInv ==
    /\ IsFiniteSet(down.page) /\ IsFiniteSet(down.rest)
    /\ \A x \in down.page \union down.rest : x.id \in DOMAIN server

TargetInv ==
    /\ conf.target = "single" => batch = IdleBatch
    /\ conf.target # "single" => up = IdleUp

TypeInv == TypeOK /\ SoupInv /\ UpInv /\ BatchInv /\ DownInv /\ TargetInv
----------------------------------------------------------------------------
LEMMA MinOf ==
  ASSUME NEW S \in SUBSET Nat, S # {}
  PROVE  Min(S) \in S /\ \A y \in S : Min(S) <= y
<1>1. PICK x \in S : \A y \in S : ~ (<<y, x>> \in OpToRel(<, Nat))
  BY NatLessThanWellFounded, WFMin
<1>2. ASSUME NEW y \in S PROVE x <= y
  <2>1. SUFFICES ASSUME ~(x <= y) PROVE FALSE
    OBVIOUS
  <2>2. y \in Nat /\ x \in Nat /\ y < x
    BY <2>1
  <2>3. <<y, x>> \in Nat \X Nat /\ <<y, x>>[1] < <<y, x>>[2]
    BY <2>2
  <2>4. <<y, x>> \in OpToRel(<, Nat)
    BY <2>3 DEF OpToRel
  <2> QED BY <2>4, <1>1
<1> QED BY <1>2 DEF Min

LEMMA MaxOf ==
  ASSUME NEW n \in Nat, NEW S \in SUBSET (0 .. n), S # {}
  PROVE  Max(S) \in S /\ \A y \in S : Max(S) >= y
<1> DEFINE T == {n - x : x \in S}
<1>1. \A x \in S : n - x \in Nat
  OBVIOUS
<1>2. T \in SUBSET Nat /\ T # {}
  BY <1>1
<1>3. Min(T) \in T /\ \A y \in T : Min(T) <= y
  BY <1>2, MinOf
<1>4. PICK x \in S : n - x = Min(T)
  BY <1>3
<1>5. ASSUME NEW y \in S PROVE x >= y
  <2>1. n - x <= n - y
    BY <1>3, <1>4
  <2> QED BY <2>1
<1> QED BY <1>5 DEF Max

LEMMA RowKnown ==
  ASSUME NEW row, NEW ids, NEW more, ids \subseteq more, RowOK(row, ids)
  PROVE  RowOK(row, more)
BY DEF RowOK
----------------------------------------------------------------------------
\* The server only gains ids, and create() only gives new ones: what the tasks
\* hold stays well formed.
Grows == nextEntry <= nextEntry' /\ DOMAIN server \subseteq DOMAIN server'

LEMMA UpFrame ==
  ASSUME TypeOK, UpInv, Grows, up' = up, nextEntry' \in Nat
  PROVE  UpTypeOK' /\ UpInv'
<1>1. UpTypeOK'
  BY DEF TypeOK, UpTypeOK
<1>2. ASSUME up.pc \in InHand
      PROVE  up'.entry \in Entries /\ up'.entry < nextEntry' /\ RowOK(up'.row, DOMAIN server')
  BY <1>2, RowKnown DEF UpInv, Grows, TypeOK, RecordsTypeOK, Entries
<1>3. QED
  BY <1>1, <1>2 DEF UpInv, Grows

LEMMA BatchFrame ==
  ASSUME TypeOK, BatchInv, Grows, batch' = batch, nextEntry' \in Nat
  PROVE  BatchTypeOK' /\ BatchInv'
<1>1. BatchTypeOK'
  BY DEF TypeOK, BatchTypeOK
<1>2. ASSUME NEW s \in DOMAIN batch.rows
      PROVE  s < nextEntry' /\ RowOK(batch.rows[s], DOMAIN server')
  BY RowKnown DEF BatchInv, Grows, TypeOK, BatchTypeOK, RecordsTypeOK, Entries
<1>3. Pending' = Pending
  BY DEF Pending
<1>4. QED
  BY <1>1, <1>2, <1>3 DEF BatchInv, Grows

LEMMA DownFrame ==
  ASSUME TypeOK, DownInv, Grows, down' = down, sync' = sync
  PROVE  DownTypeOK' /\ DownInv'
BY DEF DownInv, Grows, TypeOK, DownTypeOK

\* A step of the application, or of another client, that keeps the records and
\* the soup well formed.
LEMMA RecordsFrame ==
  ASSUME TypeInv, Grows, RecordsTypeOK', SoupInv', UNCHANGED <<conf, up, batch, sync, down>>
  PROVE  TypeInv'
<1>1. nextEntry' \in Nat
  BY DEF RecordsTypeOK
<1>2. UpTypeOK' /\ UpInv' /\ BatchTypeOK' /\ BatchInv' /\ DownTypeOK' /\ DownInv'
  BY <1>1, UpFrame, BatchFrame, DownFrame DEF TypeInv
<1>3. TargetInv'
  BY DEF TypeInv, TargetInv
<1>4. QED
  BY <1>2, <1>3 DEF TypeInv, TypeOK

LEMMA Bounds ==
  ASSUME RecordsTypeOK
  PROVE  /\ MaxEntries \in Nat /\ MaxRecords \in Nat /\ MaxEdits \in Nat /\ MaxClock \in Nat
         /\ conf.entries \in 0 .. MaxEntries /\ conf.edits \in 0 .. MaxEdits
         /\ conf.clock \in 1 .. MaxClock
BY ConfsAssumption, BoundsAssumption DEF RecordsTypeOK

\* The application writes an element that is there, or the next one.
LEMMA AppWritesOK ==
  ASSUME TypeInv, NEW s \in Entries, NEW row, NEW held,
         RowOK(row, DOMAIN server), s < nextEntry', nextEntry' \in {nextEntry, nextEntry + 1},
         edits' \in Edits, AppWrites(s, row, held), conf' = conf,
         nextEntry' \in 1 .. MaxEntries + 1
  PROVE  Grows /\ RecordsTypeOK' /\ SoupInv'
<1> DEFINE new == [row EXCEPT !.edit = edits']
<1>1. RowOK(new, DOMAIN server)
  BY DEF RowOK, Row
<1> HIDE DEF new
<1>2. soup' = With(soup, s, new) /\ server' = server /\ clock' = clock /\ settled' = settled
  BY DEF AppWrites, new
<1>3. DOMAIN soup' = DOMAIN soup \union {s} /\ soup'[s] = new
      /\ \A y \in DOMAIN soup : y # s => soup'[y] = soup[y]
  BY <1>2 DEF With
<1>4. \A y \in DOMAIN soup' : RowOK(soup'[y], DOMAIN server') /\ y < nextEntry'
  BY <1>1, <1>2, <1>3 DEF TypeInv, SoupInv, TypeOK, RecordsTypeOK, Entries
<1>5. latest' \in [Entries -> Edits \union {0}]
  BY DEF AppWrites, TypeInv, TypeOK, RecordsTypeOK
<1>6. exposed' \subseteq Edits
  BY DEF AppWrites, TypeInv, TypeOK, RecordsTypeOK
<1>7. RecordsTypeOK'
  BY <1>2, <1>3, <1>4, <1>5, <1>6 DEF RecordsTypeOK, TypeInv, TypeOK, RowOK, Edits
<1>8. QED
  BY <1>2, <1>4, <1>7 DEF SoupInv, Grows, TypeInv, TypeOK, RecordsTypeOK

LEMMA NewEditOK ==
  ASSUME RecordsTypeOK, NEW op, NewEdit(op)
  PROVE  edits' = edits + 1 /\ edits' \in Edits
BY Bounds DEF NewEdit, RecordsTypeOK, Edits

LEMMA AppCreateOK ==
  ASSUME TypeInv, AppCreate, conf' = conf
  PROVE  Grows /\ RecordsTypeOK' /\ SoupInv'
<1> DEFINE row == [id |-> LocalId, edit |-> edits', mod |-> NoDate, key |-> edits',
                   flags |-> {"created"}]
<1>1. edits' \in Edits
  BY NewEditOK DEF AppCreate, TypeInv, TypeOK
<1>2. row \in Row /\ RowOK(row, DOMAIN server)
  BY <1>1 DEF RowOK, Row, Flag
<1> HIDE DEF row
<1>3. AppWrites(nextEntry, row, {}) /\ nextEntry' = nextEntry + 1 /\ nextEntry \in Entries
  BY Bounds DEF AppCreate, row, TypeInv, TypeOK, RecordsTypeOK, Entries
<1>4. nextEntry' \in 1 .. MaxEntries + 1 /\ nextEntry < nextEntry'
  BY <1>3, Bounds DEF Entries, TypeInv, TypeOK
<1>5. QED
  BY <1>1, <1>2, <1>3, <1>4, AppWritesOK

LEMMA AppFlagsOK ==
  ASSUME TypeInv, NEW flag \in Flag, NEW op, NEW held, AppFlags(flag, op, held), conf' = conf
  PROVE  Grows /\ RecordsTypeOK' /\ SoupInv'
<1>1. edits' \in Edits /\ nextEntry' = nextEntry
  BY NewEditOK DEF AppFlags, TypeInv, TypeOK
<1>2. PICK s \in DOMAIN soup :
         AppWrites(s, [soup[s] EXCEPT !.flags = @ \union {flag}], held)
  BY DEF AppFlags
<1> DEFINE row == [soup[s] EXCEPT !.flags = @ \union {flag}]
<1>3. s \in Entries /\ s < nextEntry /\ RowOK(soup[s], DOMAIN server)
  BY DEF TypeInv, SoupInv, TypeOK, RecordsTypeOK
<1>4. RowOK(row, DOMAIN server)
  BY <1>3 DEF RowOK, Row
<1> HIDE DEF row
<1>5. AppWrites(s, row, held)
  BY <1>2 DEF row
<1>6. nextEntry \in 1 .. MaxEntries + 1
  BY DEF TypeInv, TypeOK, RecordsTypeOK
<1>7. QED
  BY <1>1, <1>3, <1>4, <1>5, <1>6, AppWritesOK

LEMMA AppPurgeOK ==
  ASSUME TypeInv, AppPurge, conf' = conf
  PROVE  Grows /\ RecordsTypeOK' /\ SoupInv'
<1>1. PICK s \in DOMAIN soup : soup' = Without(soup, {s}) /\ latest' = [latest EXCEPT ![s] = 0]
  BY DEF AppPurge
<1>2. DOMAIN soup' \subseteq DOMAIN soup /\ \A y \in DOMAIN soup' : soup'[y] = soup[y]
  BY <1>1 DEF Without
<1>3. latest' \in [Entries -> Edits \union {0}]
  BY <1>1 DEF TypeInv, TypeOK, RecordsTypeOK
<1>4. UNCHANGED <<nextEntry, server, clock, edits, settled, exposed>>
  BY DEF AppPurge
<1>5. RecordsTypeOK'
  BY <1>2, <1>3, <1>4 DEF TypeInv, TypeOK, RecordsTypeOK
<1>6. SoupInv'
  BY <1>2, <1>4 DEF TypeInv, SoupInv
<1>7. Grows
  BY <1>4 DEF TypeInv, TypeOK, RecordsTypeOK, Grows
<1>8. QED
  BY <1>5, <1>6, <1>7

LEMMA ServerWritesOK ==
  ASSUME RecordsTypeOK, NEW i \in Ids, NEW r \in Record, NEW t \in Ticks, ServerWrites(i, r, t)
  PROVE  /\ DOMAIN server' = DOMAIN server \union {i}
         /\ \A j \in DOMAIN server' : server'[j] \in Record
         /\ \A j \in DOMAIN server : j # i => server'[j] = server[j]
         /\ server'[i] = [r EXCEPT !.mod = t]
         /\ clock' = t /\ clock' \in Dates
<1>1. t \in Dates
  BY Bounds DEF Ticks, Dates
<1>2. [r EXCEPT !.mod = t] \in Record
  BY <1>1 DEF Record
<1>3. server' = With(server, i, [r EXCEPT !.mod = t]) /\ clock' = t
  BY DEF ServerWrites
<1>4. QED
  BY <1>1, <1>2, <1>3 DEF RecordsTypeOK, With

LEMMA OtherWritesOK ==
  ASSUME TypeInv, NEW op, NEW i \in Ids, NEW r \in Record, OtherWrites(op, i, r), conf' = conf
  PROVE  Grows /\ RecordsTypeOK' /\ SoupInv'
<1>1. edits' \in Edits
  BY NewEditOK DEF OtherWrites, TypeInv, TypeOK
<1>2. PICK t \in Ticks : ServerWrites(i, r, t)
  BY DEF OtherWrites
<1>3. /\ DOMAIN server' = DOMAIN server \union {i}
      /\ \A j \in DOMAIN server' : server'[j] \in Record
      /\ clock' \in Dates
  BY <1>2, ServerWritesOK DEF TypeInv, TypeOK
<1>4. UNCHANGED <<soup, nextEntry, latest, settled, exposed>>
  BY DEF OtherWrites
<1>5. RecordsTypeOK' /\ Grows
  BY <1>1, <1>3, <1>4 DEF TypeInv, TypeOK, RecordsTypeOK, Grows, Edits
<1>6. \A s \in DOMAIN soup : RowOK(soup[s], DOMAIN server')
  BY <1>3, RowKnown DEF TypeInv, SoupInv
<1>7. QED
  BY <1>4, <1>5, <1>6 DEF SoupInv, TypeInv

LEMMA OthersOK ==
  ASSUME TypeInv, Others, conf' = conf
  PROVE  Grows /\ RecordsTypeOK' /\ SoupInv'
<1> USE DEF TypeInv, TypeOK
<1>1. \A i \in Live : i \in Ids /\ server[i] \in Record
  BY DEF RecordsTypeOK, Live
<1>2. CASE OtherCreate
  <2>1. PICK i \in UnusedId :
           OtherWrites("other_create", i,
               [live |-> TRUE, edit |-> edits + 1, mod |-> clock, key |-> edits + 1])
    BY <1>2 DEF OtherCreate
  <2>2. edits + 1 \in Edits /\ clock \in Dates /\ i \in Ids
    BY <2>1, NewEditOK DEF OtherWrites, UnusedId, RecordsTypeOK
  <2>3. [live |-> TRUE, edit |-> edits + 1, mod |-> clock, key |-> edits + 1] \in Record
    BY <2>2 DEF Record
  <2>4. QED
    BY <2>1, <2>2, <2>3, OtherWritesOK
<1>3. CASE OtherUpdate
  <2>1. PICK i \in Live : OtherWrites("other_update", i, [server[i] EXCEPT !.edit = edits + 1])
    BY <1>3 DEF OtherUpdate
  <2>2. edits + 1 \in Edits
    BY <2>1, NewEditOK DEF OtherWrites
  <2>3. [server[i] EXCEPT !.edit = edits + 1] \in Record
    BY <1>1, <2>2 DEF Record
  <2>4. QED
    BY <1>1, <2>1, <2>3, OtherWritesOK
<1>4. CASE OtherDelete
  <2>1. PICK i \in Live : OtherWrites("other_delete", i, [server[i] EXCEPT !.live = FALSE])
    BY <1>4 DEF OtherDelete
  <2>2. [server[i] EXCEPT !.live = FALSE] \in Record
    BY <1>1 DEF Record
  <2>3. QED
    BY <1>1, <2>1, <2>2, OtherWritesOK
<1>5. QED
  BY <1>2, <1>3, <1>4 DEF Others

LEMMA SurroundingsOK ==
  ASSUME TypeInv, NEW held, App(held) \/ Others, UNCHANGED <<conf, up, batch, sync, down>>
  PROVE  TypeInv'
<1>1. Grows /\ RecordsTypeOK' /\ SoupInv'
  BY AppCreateOK, AppFlagsOK, AppPurgeOK, OthersOK DEF App, AppUpdate, AppDelete, Flag
<1>2. QED
  BY <1>1, RecordsFrame
----------------------------------------------------------------------------
\* The task of a sync up that takes its records one by one.

LEMMA UpFreeOK ==
  ASSUME TypeInv, Grows, up' = IdleUp \/ \E left \in SUBSET Entries : up' = Rest(left)
  PROVE  UpTypeOK' /\ UpInv'
<1>1. CASE up' = IdleUp
  BY <1>1 DEF UpTypeOK, Up, UpPc, Answer, IdleUp, UpInv, InHand
<1>2. ASSUME NEW left \in SUBSET Entries, up' = Rest(left)
      PROVE  UpTypeOK' /\ UpInv'
  <2>1. up' = [pc |-> "next", left |-> left, entry |-> 0, row |-> [flags |-> {}],
               answer |-> "ok", id |-> LocalId, seen |-> 0]
    BY <1>2 DEF Rest, IdleUp
  <2>2. QED
    BY <2>1 DEF UpTypeOK, Up, UpPc, Answer, UpInv, InHand
<1>3. QED
  BY <1>1, <1>2

LEMMA UpNextRecordOK ==
  ASSUME TypeInv, Grows, UpNextRecord \/ UpEnds
  PROVE  UpTypeOK' /\ UpInv'
<1>1. up.left \in SUBSET Entries
  BY DEF TypeInv, TypeOK, UpTypeOK, Up
<1>2. QED
  BY <1>1, UpFreeOK DEF UpNextRecord, UpEnds

LEMMA AnsweredOK ==
  ASSUME TypeInv, Grows, up.pc \in InHand, nextEntry' = nextEntry,
         NEW answer \in Answer, NEW id \in Ids \union {LocalId}, Answered(answer, id),
         answer = "ok" => id \in DOMAIN server',
         answer = "gone" => "deleted" \in up.row.flags
  PROVE  UpTypeOK' /\ UpInv'
<1>1. up' = [up EXCEPT !.pc = "save", !.answer = answer, !.id = id] /\ up \in Up
  BY DEF Answered, TypeInv, TypeOK, UpTypeOK
<1>2. up' \in Up /\ up'.pc = "save" /\ up'.answer = answer /\ up'.id = id
      /\ up'.entry = up.entry /\ up'.row = up.row
  BY <1>1 DEF Up, UpPc
<1>3. up.entry \in Entries /\ up.entry < nextEntry /\ RowOK(up.row, DOMAIN server')
  BY RowKnown DEF TypeInv, UpInv, Grows
<1>4. QED
  BY <1>2, <1>3 DEF UpTypeOK, UpInv, InHand

LEMMA UpRecordOK ==
  ASSUME TypeInv, up.pc \in InHand
  PROVE  up.row \in Row /\ up.row.edit \in Edits /\ up.row.key \in Edits
BY DEF TypeInv, UpInv, RowOK, Row

\* A request changes the server and what is settled, nothing of the client.
LEMMA ServerStepOK ==
  ASSUME TypeInv, UNCHANGED <<conf, soup, nextEntry, edits, latest, exposed>>,
         Grows, DOMAIN server' \subseteq Ids, \A i \in DOMAIN server' : server'[i] \in Record,
         clock' \in Dates, settled' \subseteq Edits
  PROVE  RecordsTypeOK' /\ SoupInv'
<1>1. \A s \in DOMAIN soup : RowOK(soup[s], DOMAIN server')
  BY RowKnown DEF TypeInv, SoupInv, Grows
<1>2. QED
  BY <1>1 DEF TypeInv, TypeOK, RecordsTypeOK, SoupInv

LEMMA NoRequestOK ==
  ASSUME TypeInv, UNCHANGED <<conf, soup, nextEntry, edits, latest, exposed>>,
         UNCHANGED <<server, clock>>, settled' \subseteq Edits
  PROVE  Grows /\ RecordsTypeOK' /\ SoupInv'
<1>1. Grows
  BY DEF Grows, TypeInv, TypeOK, RecordsTypeOK
<1>2. QED
  BY <1>1, ServerStepOK DEF TypeInv, TypeOK, RecordsTypeOK

LEMMA WriteRequestOK ==
  ASSUME TypeInv, UNCHANGED <<conf, soup, nextEntry, edits, latest, exposed>>,
         NEW i \in Ids, NEW r \in Record, NEW t \in Ticks, ServerWrites(i, r, t),
         settled' \subseteq Edits
  PROVE  Grows /\ RecordsTypeOK' /\ SoupInv' /\ i \in DOMAIN server'
<1>1. /\ DOMAIN server' = DOMAIN server \union {i}
      /\ \A j \in DOMAIN server' : server'[j] \in Record
      /\ clock' \in Dates
  BY ServerWritesOK DEF TypeInv, TypeOK
<1>2. Grows /\ DOMAIN server' \subseteq Ids
  BY <1>1 DEF Grows, TypeInv, TypeOK, RecordsTypeOK
<1>3. QED
  BY <1>1, <1>2, ServerStepOK

LEMMA IdleRecordsOK ==
  ASSUME TypeInv, UNCHANGED <<conf, recordVars>>
  PROVE  Grows /\ RecordsTypeOK' /\ SoupInv'
BY NoRequestOK DEF recordVars, TypeInv, TypeOK, RecordsTypeOK

LEMMA ReadRecordOK ==
  ASSUME TypeInv, ReadRecord, conf' = conf
  PROVE  UpTypeOK' /\ UpInv'
<1> DEFINE s == Min(up.left)
<1>1. Grows /\ server' = server /\ nextEntry' = nextEntry
  BY IdleRecordsOK DEF ReadRecord, recordVars
<1>2. up \in Up /\ s \in up.left /\ s \in Entries
  <2>1. up \in Up /\ up.left \in SUBSET Entries /\ Entries \in SUBSET Nat
    BY DEF TypeInv, TypeOK, UpTypeOK, Up, Entries
  <2>2. up.left # {}
    BY DEF ReadRecord
  <2>3. QED
    BY <2>1, <2>2, MinOf
<1> HIDE DEF s
<1>3. CASE s \notin DOMAIN soup
  BY <1>1, <1>3, UpFreeOK DEF ReadRecord, s
<1>4. CASE s \in DOMAIN soup
  <2> DEFINE pc == IF UpMergeMode = "LEAVE_IF_CHANGED" /\ "created" \notin soup[s].flags
                   THEN "check" ELSE "send"
  <2>1. up' = [up EXCEPT !.pc = pc, !.left = @ \ {s}, !.entry = s, !.row = soup[s]]
    BY <1>4 DEF ReadRecord, s
  <2>2. pc \in {"check", "send"} /\ (pc = "check" => "created" \notin soup[s].flags)
    OBVIOUS
  <2> HIDE DEF pc
  <2>3. RowOK(soup[s], DOMAIN server) /\ s < nextEntry /\ soup[s] \in Row
    BY <1>4 DEF TypeInv, SoupInv, TypeOK, RecordsTypeOK
  <2>4. up' \in Up /\ up'.pc = pc /\ up'.entry = s /\ up'.row = soup[s]
    BY <1>2, <2>1, <2>2, <2>3 DEF Up, UpPc
  <2>5. QED
    BY <1>1, <1>2, <2>2, <2>3, <2>4 DEF UpTypeOK, UpInv, InHand
<1>5. QED
  BY <1>3, <1>4

\* A record that the server knows has an id of the server.
LEMMA KnownId ==
  ASSUME NEW row, NEW ids, RowOK(row, ids), "created" \notin row.flags
  PROVE  row.id \in ids
BY DEF RowOK

LEMMA ServerRecordOK ==
  ASSUME TypeInv, NEW i \in DOMAIN server
  PROVE  i \in Ids /\ server[i] \in Record /\ server[i].edit \in Edits
BY DEF TypeInv, TypeOK, RecordsTypeOK, Record

LEMMA CheckModDateOK ==
  ASSUME TypeInv, CheckModDate, conf' = conf
  PROVE  UpTypeOK' /\ UpInv'
<1>1. Grows /\ server' = server /\ nextEntry' = nextEntry
  BY IdleRecordsOK DEF CheckModDate, recordVars
<1>2. CASE UpNextRecord \/ UpEnds
  BY <1>1, <1>2, UpNextRecordOK
<1>3. CASE up' = [up EXCEPT !.pc = "send", !.seen = server[up.row.id].edit]
  <2>1. up.pc = "check" /\ up.pc \in InHand
    BY DEF CheckModDate, InHand
  <2>2. RowOK(up.row, DOMAIN server) /\ "created" \notin up.row.flags /\ up.entry < nextEntry
        /\ up.entry \in Entries
    BY <2>1 DEF TypeInv, UpInv
  <2>3. server[up.row.id].edit \in Edits
    BY <2>2, KnownId, ServerRecordOK
  <2>4. up \in Up
    BY DEF TypeInv, TypeOK, UpTypeOK
  <2>5. up' \in Up /\ up'.pc = "send" /\ up'.entry = up.entry /\ up'.row = up.row
    BY <1>3, <2>3, <2>4 DEF Up, UpPc
  <2>6. QED
    BY <1>1, <2>2, <2>5 DEF UpTypeOK, UpInv, InHand
<1>4. QED
  BY <1>2, <1>3 DEF CheckModDate

LEMMA CreateOnServerOK ==
  ASSUME TypeInv, CreateOnServer, conf' = conf
  PROVE  Grows /\ RecordsTypeOK' /\ SoupInv' /\ UpTypeOK' /\ UpInv'
<1>1. UNCHANGED <<conf, soup, nextEntry, edits, latest, exposed>> /\ up.pc \in InHand
  BY DEF CreateOnServer, InHand
<1>2. up.row \in Row /\ up.row.edit \in Edits /\ up.row.key \in Edits
  BY <1>1, UpRecordOK
<1>3. settled \subseteq Edits
  BY DEF TypeInv, TypeOK, RecordsTypeOK
<1>4. ASSUME NEW i \in Created(up.row), NEW t \in Ticks,
             ServerWrites(i, [live |-> TRUE, edit |-> up.row.edit, mod |-> t,
                              key |-> up.row.key], t),
             Accepted(i)
      PROVE  Grows /\ RecordsTypeOK' /\ SoupInv' /\ UpTypeOK' /\ UpInv'
  <2> DEFINE r == [live |-> TRUE, edit |-> up.row.edit, mod |-> t, key |-> up.row.key]
  <2>1. i \in Ids
    BY DEF Created, UnusedId, Live, TypeInv, TypeOK, RecordsTypeOK
  <2>2. t \in Dates
    BY Bounds DEF Ticks, Dates, TypeInv, TypeOK
  <2>3. r \in Record
    BY <1>2, <2>2 DEF Record
  <2> HIDE DEF r
  <2>4. ServerWrites(i, r, t) /\ settled' \subseteq Edits
    BY <1>2, <1>3, <1>4 DEF Accepted, r
  <2>5. Grows /\ RecordsTypeOK' /\ SoupInv' /\ i \in DOMAIN server'
    BY <1>1, <2>1, <2>3, <2>4, WriteRequestOK
  <2>6. Answered("ok", i) \/ UpEnds
    BY <1>4 DEF Accepted
  <2>7. QED
    BY <1>1, <2>1, <2>5, <2>6, AnsweredOK, UpNextRecordOK DEF Answer
<1>5. CASE Refused
  <2>1. Grows /\ RecordsTypeOK' /\ SoupInv'
    BY <1>1, <1>3, <1>5, NoRequestOK DEF Refused, Unchanged
  <2>2. Answered("refused", LocalId) \/ UpEnds
    BY <1>5 DEF Refused
  <2>3. QED
    BY <1>1, <2>1, <2>2, AnsweredOK, UpNextRecordOK DEF Answer
<1>6. CASE Unchanged /\ (UpNextRecord \/ UpEnds)
  <2>1. Grows /\ RecordsTypeOK' /\ SoupInv'
    BY <1>1, <1>3, <1>6, NoRequestOK DEF Unchanged
  <2>2. QED
    BY <1>6, <2>1, UpNextRecordOK
<1>7. QED
  BY <1>4, <1>5, <1>6 DEF CreateOnServer

\* The record of an update, or of a delete that is sent, is known to the server.
LEMMA WantedId ==
  ASSUME TypeInv, up.pc = "send", "created" \notin up.row.flags
  PROVE  up.row.id \in DOMAIN server
BY KnownId DEF TypeInv, UpInv, InHand

LEMMA UpdateOnServerOK ==
  ASSUME TypeInv, UpdateOnServer, conf' = conf
  PROVE  Grows /\ RecordsTypeOK' /\ SoupInv' /\ UpTypeOK' /\ UpInv'
<1> DEFINE i == up.row.id
<1>1. UNCHANGED <<conf, soup, nextEntry, edits, latest, exposed>> /\ up.pc = "send"
      /\ up.pc \in InHand /\ Wants(up.row, "update")
  BY DEF UpdateOnServer, InHand
<1>2. i \in DOMAIN server
  BY <1>1, WantedId DEF Wants
<1> HIDE DEF i
<1>3. i \in Ids /\ server[i] \in Record /\ up.row.edit \in Edits /\ settled \subseteq Edits
  BY <1>1, <1>2, UpRecordOK, ServerRecordOK DEF TypeInv, TypeOK, RecordsTypeOK
<1>4. ASSUME NEW t \in Ticks, ServerWrites(i, [server[i] EXCEPT !.edit = up.row.edit], t),
             Accepted(i)
      PROVE  Grows /\ RecordsTypeOK' /\ SoupInv' /\ UpTypeOK' /\ UpInv'
  <2>1. [server[i] EXCEPT !.edit = up.row.edit] \in Record
    BY <1>3 DEF Record
  <2>2. settled' \subseteq Edits
    BY <1>3, <1>4 DEF Accepted
  <2>3. Grows /\ RecordsTypeOK' /\ SoupInv' /\ i \in DOMAIN server'
    BY <1>1, <1>3, <1>4, <2>1, <2>2, WriteRequestOK
  <2>4. Answered("ok", i) \/ UpEnds
    BY <1>4 DEF Accepted
  <2>5. QED
    BY <1>1, <1>3, <2>3, <2>4, AnsweredOK, UpNextRecordOK DEF Answer
<1>5. CASE Refused
  <2>1. Grows /\ RecordsTypeOK' /\ SoupInv'
    BY <1>1, <1>3, <1>5, NoRequestOK DEF Refused, Unchanged
  <2>2. Answered("refused", LocalId) \/ UpEnds
    BY <1>5 DEF Refused
  <2>3. QED
    BY <1>1, <2>1, <2>2, AnsweredOK, UpNextRecordOK DEF Answer
<1>6. CASE Unchanged /\ (up' = [up EXCEPT !.pc = "recreate"] \/ UpNextRecord)
  <2>1. Grows /\ RecordsTypeOK' /\ SoupInv'
    BY <1>1, <1>3, <1>6, NoRequestOK DEF Unchanged
  <2>2. CASE up' = [up EXCEPT !.pc = "recreate"]
    <3>1. up \in Up
      BY DEF TypeInv, TypeOK, UpTypeOK
    <3>2. up' \in Up /\ up'.pc = "recreate" /\ up'.entry = up.entry /\ up'.row = up.row
      BY <2>2, <3>1 DEF Up, UpPc
    <3>3. up.entry \in Entries /\ up.entry < nextEntry /\ RowOK(up.row, DOMAIN server')
      BY <1>1, <2>1, RowKnown DEF TypeInv, UpInv, Grows
    <3>4. QED
      BY <1>1, <2>1, <3>2, <3>3 DEF UpTypeOK, UpInv
  <2>3. QED
    BY <1>6, <2>1, <2>2, UpNextRecordOK
<1>7. QED
  BY <1>4, <1>5, <1>6 DEF UpdateOnServer, i

LEMMA DeleteOnServerOK ==
  ASSUME TypeInv, DeleteOnServer, conf' = conf
  PROVE  Grows /\ RecordsTypeOK' /\ SoupInv' /\ UpTypeOK' /\ UpInv'
<1> DEFINE i == up.row.id
<1>1. UNCHANGED <<conf, soup, nextEntry, edits, latest, exposed>> /\ up.pc = "send"
      /\ up.pc \in InHand /\ "deleted" \in up.row.flags
  BY DEF DeleteOnServer, InHand, Wants
<1>2. up.row.edit \in Edits /\ settled \subseteq Edits
  BY <1>1, UpRecordOK DEF TypeInv, TypeOK, RecordsTypeOK
<1>3. CASE /\ settled' = settled \union {up.row.edit}
           /\ Answered("gone", LocalId)
           /\ UNCHANGED <<server, clock>>
  <2>1. Grows /\ RecordsTypeOK' /\ SoupInv'
    BY <1>1, <1>2, <1>3, NoRequestOK
  <2>2. QED
    BY <1>1, <1>3, <2>1, AnsweredOK DEF Answer
<1>4. ASSUME "created" \notin up.row.flags, NEW t \in Ticks,
             ServerWrites(i, [server[i] EXCEPT !.live = FALSE], t), Accepted(i)
      PROVE  Grows /\ RecordsTypeOK' /\ SoupInv' /\ UpTypeOK' /\ UpInv'
  <2>0. i \in DOMAIN server
    BY <1>1, <1>4, WantedId
  <2> HIDE DEF i
  <2>1. i \in Ids /\ [server[i] EXCEPT !.live = FALSE] \in Record
    BY <2>0, ServerRecordOK DEF Record
  <2>2. settled' \subseteq Edits
    BY <1>2, <1>4 DEF Accepted
  <2>3. Grows /\ RecordsTypeOK' /\ SoupInv' /\ i \in DOMAIN server'
    BY <1>1, <1>4, <2>1, <2>2, WriteRequestOK
  <2>4. Answered("ok", i) \/ UpEnds
    BY <1>4 DEF Accepted
  <2>5. QED
    BY <1>1, <2>1, <2>3, <2>4, AnsweredOK, UpNextRecordOK DEF Answer
<1>5. CASE Refused
  <2>1. Grows /\ RecordsTypeOK' /\ SoupInv'
    BY <1>1, <1>2, <1>5, NoRequestOK DEF Refused, Unchanged
  <2>2. Answered("refused", LocalId) \/ UpEnds
    BY <1>5 DEF Refused
  <2>3. QED
    BY <1>1, <2>1, <2>2, AnsweredOK, UpNextRecordOK DEF Answer
<1>6. QED
  BY <1>3, <1>4, <1>5 DEF DeleteOnServer

\* A task saves a row of a known record, with its entry, or removes it.
LEMMA SavesOK ==
  ASSUME TypeInv, UNCHANGED <<conf, nextEntry, server, clock, edits, latest, exposed>>,
         settled' \subseteq Edits,
         NEW s, NEW row, RowOK(row, DOMAIN server),
         \/ soup' = soup
         \/ s \in DOMAIN soup /\ soup' = With(soup, s, row)
         \/ soup' = Without(soup, {s})
  PROVE  Grows /\ RecordsTypeOK' /\ SoupInv'
<1>1. Grows
  BY DEF Grows, TypeInv, TypeOK, RecordsTypeOK
<1>2. DOMAIN soup' \subseteq DOMAIN soup
  BY DEF With, Without
<1>3. \A y \in DOMAIN soup' : soup'[y] = soup[y] \/ soup'[y] = row
  BY DEF With, Without
<1>4. \A y \in DOMAIN soup' : y < nextEntry /\ RowOK(soup'[y], DOMAIN server)
  BY <1>2, <1>3 DEF TypeInv, SoupInv
<1>5. RecordsTypeOK'
  BY <1>2, <1>4 DEF TypeInv, TypeOK, RecordsTypeOK, RowOK
<1>6. QED
  BY <1>1, <1>4, <1>5 DEF SoupInv

LEMMA SaveRecordOK ==
  ASSUME TypeInv, SaveRecord, conf' = conf
  PROVE  Grows /\ RecordsTypeOK' /\ SoupInv' /\ UpTypeOK' /\ UpInv'
<1> DEFINE clean == [up.row EXCEPT !.flags = {}, !.id = up.id]
           s == up.entry
<1>1. /\ UNCHANGED <<conf, nextEntry, server, clock, edits, latest, exposed>>
      /\ up.pc = "save" /\ settled' = settled /\ UpNextRecord /\ soup' = Saved
  BY DEF SaveRecord
<1>2. RowOK(up.row, DOMAIN server) /\ up.row \in Row /\ up.answer \in Answer
  BY <1>1 DEF TypeInv, UpInv, RowOK, InHand, TypeOK, UpTypeOK, Up
<1>3. settled' \subseteq Edits
  BY <1>1 DEF TypeInv, TypeOK, RecordsTypeOK
<1>4. CASE soup' = soup \/ (s \in DOMAIN soup /\ soup' = With(soup, s, up.row))
           \/ soup' = Without(soup, {s})
  BY <1>1, <1>2, <1>3, <1>4, SavesOK, UpNextRecordOK
<1>5. CASE up.answer # "refused" /\ ~Wants(up.row, "delete") /\ s \in DOMAIN soup
           /\ soup' = With(soup, s, clean)
  <2>1. up.id \in DOMAIN server
    BY <1>1, <1>2, <1>5 DEF TypeInv, UpInv, Answer, Wants
  <2>2. DOMAIN server \subseteq Ids /\ LocalId \notin DOMAIN server
    BY DEF TypeInv, TypeOK, RecordsTypeOK, Ids, LocalId
  <2>3. clean \in Row /\ clean.id = up.id
    BY <1>2, <2>1, <2>2 DEF Row
  <2>4. RowOK(clean, DOMAIN server)
    BY <2>1, <2>2, <2>3 DEF RowOK
  <2> HIDE DEF clean
  <2>5. QED
    BY <1>1, <1>3, <1>5, <2>4, SavesOK, UpNextRecordOK
<1>6. QED
  BY <1>1, <1>4, <1>5 DEF Saved

LEMMA UpStepOK ==
  ASSUME TypeInv, UpStep, conf.target = "single", UNCHANGED <<conf, batch, sync, down>>
  PROVE  TypeInv'
<1>1. Grows /\ RecordsTypeOK' /\ SoupInv' /\ UpTypeOK' /\ UpInv'
  <2>1. CASE StartSyncUp
    <3>1. DirtyEntries \in SUBSET Entries
      BY DEF DirtyEntries, TypeInv, TypeOK, RecordsTypeOK
    <3>2. QED
      BY <2>1, <3>1, IdleRecordsOK, UpFreeOK DEF StartSyncUp
  <2>2. CASE EndSyncUp
    BY <2>2, IdleRecordsOK, UpNextRecordOK DEF EndSyncUp
  <2>3. CASE ReadRecord
    BY <2>3, IdleRecordsOK, ReadRecordOK DEF ReadRecord
  <2>4. CASE CheckModDate
    BY <2>4, IdleRecordsOK, CheckModDateOK DEF CheckModDate
  <2>5. QED
    BY <2>1, <2>2, <2>3, <2>4, CreateOnServerOK, UpdateOnServerOK, DeleteOnServerOK,
       SaveRecordOK DEF UpStep
<1>2. nextEntry' \in Nat
  BY <1>1 DEF RecordsTypeOK
<1>3. BatchTypeOK' /\ BatchInv' /\ DownTypeOK' /\ DownInv'
  BY <1>1, <1>2, BatchFrame, DownFrame DEF TypeInv
<1>4. TargetInv'
  BY DEF TypeInv, TargetInv
<1>5. QED
  BY <1>1, <1>3, <1>4 DEF TypeInv, TypeOK
----------------------------------------------------------------------------
\* The task of a sync down, and that of a removal of ghosts.

LEMMA ZeroDates == Dates \union {0} = 0 .. MaxClock /\ 0 \notin Dates
BY BoundsAssumption DEF Dates

LEMMA DownIdleOK ==
  ASSUME TypeInv, down' = IdleDown, sync' \in SyncRow
  PROVE  DownTypeOK' /\ DownInv'
<1>1. down' \in Down
  BY DEF IdleDown, Down, DownPc
<1>2. down'.page = {} /\ down'.rest = {}
  BY DEF IdleDown
<1>3. QED
  BY <1>1, <1>2, FS_EmptySet DEF DownTypeOK, DownInv

LEMMA EndsOK ==
  ASSUME TypeInv, NEW status \in Status, Ends(status)
  PROVE  DownTypeOK' /\ DownInv'
<1>1. down.syncMax \in Dates \union {0}
  BY DEF TypeInv, TypeOK, DownTypeOK, Down
<1>2. QED
  BY <1>1, DownIdleOK DEF Ends, SyncRow

LEMMA MayEndOK ==
  ASSUME TypeInv, NEW status \in {"STOPPED", "FAILED"}, MayEnd(status)
  PROVE  DownTypeOK' /\ DownInv'
BY EndsOK DEF MayEnd, Status

LEMMA MatchingOK ==
  ASSUME TypeInv, NEW date
  PROVE  /\ Matching(date) \in SUBSET Sent /\ IsFiniteSet(Matching(date))
         /\ \A x \in Matching(date) : x.id \in Live /\ x.record = server[x.id]
<1> DEFINE S == {j \in Live : server[j].mod > date}
           f == [i \in S |-> [id |-> i, record |-> server[i]]]
<1>1. S \subseteq Ids /\ \A i \in S : i \in Live /\ server[i] \in Record
  BY DEF Live, TypeInv, TypeOK, RecordsTypeOK
<1>2. IsFiniteSet(S)
  <2>1. IsFiniteSet(Ids)
    BY FS_Interval, BoundsAssumption DEF Ids
  <2>2. S \in SUBSET Ids
    BY <1>1
  <2> HIDE DEF S
  <2>3. QED
    BY <2>1, <2>2, FS_Subset
<1>3. Matching(date) = {[id |-> i, record |-> server[i]] : i \in S}
  BY DEF Matching
<1> HIDE DEF S
<1>4. f \in Surjection(S, Matching(date))
  BY <1>3 DEF Surjection
<1>5. IsFiniteSet(Matching(date))
  BY <1>2, <1>4, FS_Surjection
<1>6. QED
  BY <1>1, <1>3, <1>5 DEF Sent

LEMMA FetchPageOK ==
  ASSUME TypeInv, Grows, NEW pc \in {"prepare", "save"}, NEW rest \in SUBSET Sent,
         IsFiniteSet(rest), \A x \in rest : x.id \in DOMAIN server, FetchPage(pc, rest),
         sync' = sync
  PROVE  DownTypeOK' /\ DownInv'
<1>1. PICK page \in SUBSET rest :
         down' = [down EXCEPT !.pc = pc, !.page = page, !.rest = rest \ page]
  BY DEF FetchPage, Pages
<1>2. down \in Down /\ sync \in SyncRow
  BY DEF TypeInv, TypeOK, DownTypeOK
<1>3. down' \in Down /\ down'.page = page /\ down'.rest = rest \ page
  BY <1>1, <1>2 DEF Down, DownPc
<1>4. IsFiniteSet(page) /\ IsFiniteSet(rest \ page)
  BY FS_Subset
<1>5. QED
  BY <1>2, <1>3, <1>4 DEF DownTypeOK, DownInv, Grows

LEMMA GetIdsToSkipOK ==
  ASSUME TypeInv, Grows, GetIdsToSkip
  PROVE  DownTypeOK' /\ DownInv'
<1> DEFINE skip == IF DownMergeMode = "LEAVE_IF_CHANGED"
                   THEN {soup[s].id : s \in DirtyEntries} ELSE {}
<1>1. skip \in SUBSET (Ids \union {LocalId})
  BY DEF DirtyEntries, TypeInv, TypeOK, RecordsTypeOK, Row
<1>2. down' = [down EXCEPT !.pc = "save", !.skip = skip]
      /\ sync' = [status |-> "RUNNING", max |-> down.syncMax] /\ down \in Down
  BY DEF GetIdsToSkip, TypeInv, TypeOK, DownTypeOK
<1> HIDE DEF skip
<1>3. down' \in Down /\ down'.page = down.page /\ down'.rest = down.rest
  BY <1>1, <1>2 DEF Down, DownPc
<1>4. sync' \in SyncRow
  BY <1>2 DEF SyncRow, Status, Down
<1>5. QED
  BY <1>3, <1>4 DEF DownTypeOK, DownInv, TypeInv, Grows

\* What is saved: new elements in the places after the last, the others in theirs.
LEMMA UpsertedEffect ==
  ASSUME TypeInv,
         NEW order \in Bijection(NewOnes, nextEntry .. nextEntry + Cardinality(NewOnes) - 1)
  PROVE  LET fresh == nextEntry .. nextEntry + Cardinality(NewOnes) - 1 IN
         /\ DOMAIN Upserted(order) = DOMAIN soup \union fresh
         /\ \A s \in fresh : s \notin DOMAIN soup /\ \E x \in NewOnes :
               Upserted(order)[s] = Downloaded(x.id, x.record)
         /\ \A s \in DOMAIN soup : \A x \in ToSave : x.id = soup[s].id =>
               \E y \in ToSave : /\ y.id = soup[s].id
                                 /\ Upserted(order)[s] = Downloaded(y.id, y.record)
         /\ \A s \in DOMAIN soup : (\A x \in ToSave : x.id # soup[s].id) =>
               Upserted(order)[s] = soup[s]
<1> DEFINE fresh == nextEntry .. nextEntry + Cardinality(NewOnes) - 1
           placed(s) == IF \E x \in NewOnes : order[x] = s
                    THEN LET x == CHOOSE y \in NewOnes : order[y] = s IN
                         Downloaded(x.id, x.record)
                    ELSE IF \E x \in ToSave : x.id = soup[s].id
                    THEN LET x == CHOOSE y \in ToSave : y.id = soup[s].id IN
                         Downloaded(x.id, x.record)
                    ELSE soup[s]
<1>1. Upserted(order) = [s \in DOMAIN soup \union fresh |-> placed(s)]
  BY DEF Upserted
<1>2. \A x \in NewOnes : order[x] \in fresh
  BY DEF Bijection, Injection
<1>3. \A s \in fresh : \E x \in NewOnes : order[x] = s
  BY DEF Bijection, Surjection
<1>4. \A s \in DOMAIN soup : s \in Nat /\ s < nextEntry
  BY DEF TypeInv, SoupInv, TypeOK, RecordsTypeOK, Entries
<1>5. nextEntry \in Nat
  BY DEF TypeInv, TypeOK, RecordsTypeOK
<1>6. \A s \in DOMAIN soup : s \notin fresh
  BY <1>4, <1>5
<1> HIDE DEF fresh
<1>7. \A s \in fresh : \E x \in NewOnes : placed(s) = Downloaded(x.id, x.record)
  BY <1>3
<1>8. \A s \in DOMAIN soup : ~\E x \in NewOnes : order[x] = s
  BY <1>2, <1>6
<1>9. ASSUME NEW s \in DOMAIN soup, NEW x \in ToSave, x.id = soup[s].id
      PROVE  \E y \in ToSave : y.id = soup[s].id /\ placed(s) = Downloaded(y.id, y.record)
  BY <1>8, <1>9
<1>10. ASSUME NEW s \in DOMAIN soup, \A x \in ToSave : x.id # soup[s].id
       PROVE  placed(s) = soup[s]
  BY <1>8, <1>10
<1> HIDE DEF placed
<1>11. QED
  BY <1>1, <1>6, <1>7, <1>9, <1>10 DEF fresh

LEMMA DownloadedOK ==
  ASSUME TypeInv, NEW x \in down.page
  PROVE  /\ RowOK(Downloaded(x.id, x.record), DOMAIN server)
         /\ x.id \in DOMAIN server /\ x.id \in Ids /\ x.record \in Record
         /\ Downloaded(x.id, x.record).id = x.id
<1>1. x \in Sent /\ x.id \in DOMAIN server
  BY DEF TypeInv, DownInv, TypeOK, DownTypeOK, Down
<1>2. x.id \in Ids /\ x.record \in Record
  BY <1>1 DEF Sent
<1>3. Downloaded(x.id, x.record) \in Row
  BY <1>2 DEF Downloaded, Row, Record, Flag
<1>4. QED
  BY <1>1, <1>2, <1>3 DEF RowOK, Downloaded, LocalId, Ids

LEMMA SavedPageOK ==
  ASSUME TypeInv, UNCHANGED <<conf, server, clock, edits, settled, exposed>>,
         nextEntry + Cardinality(NewOnes) - 1 <= MaxEntries,
         nextEntry' = nextEntry + Cardinality(NewOnes),
         NEW order \in Bijection(NewOnes, nextEntry .. nextEntry + Cardinality(NewOnes) - 1),
         soup' = Upserted(order),
         latest' \in [Entries -> Edits \union {0}]
  PROVE  Grows /\ RecordsTypeOK' /\ SoupInv'
<1> DEFINE n == Cardinality(NewOnes)
           fresh == nextEntry .. nextEntry + n - 1
<1>1. IsFiniteSet(NewOnes) /\ NewOnes \subseteq ToSave /\ ToSave \subseteq down.page
  <2>1. NewOnes \in SUBSET down.page /\ IsFiniteSet(down.page)
    BY DEF NewOnes, ToSave, TypeInv, DownInv
  <2>2. QED
    BY <2>1, FS_Subset DEF NewOnes, ToSave
<1>2. n \in Nat
  BY <1>1, FS_CardinalityType
<1>3. nextEntry \in 1 .. MaxEntries + 1 /\ MaxEntries \in Nat
  BY BoundsAssumption DEF TypeInv, TypeOK, RecordsTypeOK
<1>4. /\ DOMAIN soup' = DOMAIN soup \union fresh
      /\ \A s \in fresh : \E x \in NewOnes : soup'[s] = Downloaded(x.id, x.record)
      /\ \A s \in DOMAIN soup :
            soup'[s] = soup[s] \/ \E x \in ToSave : soup'[s] = Downloaded(x.id, x.record)
  BY UpsertedEffect
<1> HIDE DEF n
<1>5. \A s \in fresh : s \in Entries /\ s < nextEntry'
  BY <1>2, <1>3 DEF Entries, n
<1>6. nextEntry' \in 1 .. MaxEntries + 1 /\ nextEntry <= nextEntry'
  BY <1>2, <1>3 DEF n
<1> HIDE DEF fresh
<1>7. ASSUME NEW s \in DOMAIN soup'
      PROVE  RowOK(soup'[s], DOMAIN server) /\ s < nextEntry' /\ s \in Entries
  <2>1. CASE s \in fresh
    BY <1>1, <1>4, <1>5, <2>1, DownloadedOK
  <2>2. CASE s \in DOMAIN soup
    <3>1. RowOK(soup[s], DOMAIN server) /\ s \in Nat /\ s < nextEntry /\ s \in Entries
      BY <2>2 DEF TypeInv, SoupInv, TypeOK, RecordsTypeOK, Entries
    <3>2. s < nextEntry'
      BY <1>3, <1>6, <3>1
    <3>3. RowOK(soup'[s], DOMAIN server)
      BY <1>1, <1>4, <2>2, <3>1, DownloadedOK
    <3>4. QED
      BY <3>1, <3>2, <3>3
  <2>3. QED
    BY <1>4, <2>1, <2>2
<1>8. RecordsTypeOK'
  BY <1>6, <1>7 DEF TypeInv, TypeOK, RecordsTypeOK, RowOK
<1>9. QED
  BY <1>6, <1>7, <1>8 DEF SoupInv, Grows

\* The date after a page is the greatest of those of its records.
LEMMA NewMaxOK ==
  ASSUME TypeInv
  PROVE  LET dates == {down.max} \union {x.record.mod : x \in down.page} IN
         Max(dates) \in Dates \union {0} /\ \A t \in dates : t <= Max(dates)
<1> DEFINE dates == {down.max} \union {x.record.mod : x \in down.page}
<1>1. \A x \in down.page : x.record.mod \in Dates
  BY DownloadedOK DEF Record
<1>2. down.max \in Dates \union {0}
  BY DEF TypeInv, TypeOK, DownTypeOK, Down
<1>3. dates \in SUBSET (0 .. MaxClock) /\ dates # {} /\ MaxClock \in Nat
  BY <1>1, <1>2, ZeroDates, BoundsAssumption
<1> HIDE DEF dates
<1>4. Max(dates) \in dates /\ \A t \in dates : Max(dates) >= t
  BY <1>3, MaxOf
<1>5. \A t \in dates : t \in 0 .. MaxClock
  BY <1>3
<1>6. ASSUME NEW t \in dates PROVE t <= Max(dates)
  <2>1. t \in 0 .. MaxClock /\ Max(dates) \in 0 .. MaxClock /\ Max(dates) >= t
    BY <1>4, <1>5
  <2>2. QED
    BY <1>3, <2>1
<1>7. Max(dates) \in Dates \union {0}
  BY <1>3, <1>4, ZeroDates
<1>8. QED
  BY <1>6, <1>7 DEF dates

LEMMA SavePageOK ==
  ASSUME TypeInv, SavePage, conf' = conf
  PROVE  Grows /\ RecordsTypeOK' /\ SoupInv' /\ DownTypeOK' /\ DownInv'
<1> DEFINE n == Cardinality(NewOnes)
           newMax == Max({down.max} \union {x.record.mod : x \in down.page})
<1>1. UNCHANGED <<conf, server, clock, edits, settled, exposed>>
  BY DEF SavePage
<1>2. CASE /\ nextEntry + n - 1 <= MaxEntries
           /\ \E order \in Bijection(NewOnes, nextEntry .. nextEntry + n - 1) :
                 soup' = Upserted(order)
           /\ nextEntry' = nextEntry + n
           /\ latest' = [s \in Entries |->
                           IF s \in DOMAIN soup /\ (\E x \in ToSave : x.id = soup[s].id)
                              /\ DownMergeMode = "OVERWRITE"
                           THEN 0 ELSE latest[s]]
           /\ down' = [down EXCEPT !.pc = "saved", !.max = newMax,
                                   !.syncMax = Progress(newMax)]
           /\ UNCHANGED sync
  <2>1. latest' \in [Entries -> Edits \union {0}]
    BY <1>2 DEF TypeInv, TypeOK, RecordsTypeOK
  <2>2. Grows /\ RecordsTypeOK' /\ SoupInv'
    BY <1>1, <1>2, <2>1, SavedPageOK
  <2>3. newMax \in Dates \union {0}
    BY NewMaxOK
  <2>4. down \in Down /\ sync \in SyncRow
    BY DEF TypeInv, TypeOK, DownTypeOK
  <2> HIDE DEF newMax
  <2>5. Progress(newMax) \in Dates \union {0}
    BY <2>3, <2>4 DEF Progress, Down
  <2>6. down' \in Down /\ down'.page = down.page /\ down'.rest = down.rest
    BY <1>2, <2>3, <2>4, <2>5 DEF Down, DownPc
  <2>7. QED
    BY <1>1, <1>2, <2>2, <2>4, <2>6 DEF DownTypeOK, DownInv, TypeInv
<1>3. CASE (Ends("FAILED") \/ MayEnd("STOPPED")) /\ UNCHANGED <<soup, nextEntry, latest>>
  <2>1. Grows /\ RecordsTypeOK' /\ SoupInv'
    BY <1>1, <1>3, IdleRecordsOK DEF recordVars
  <2>2. QED
    BY <1>3, <2>1, EndsOK, MayEndOK DEF Status
<1>4. QED
  BY <1>2, <1>3 DEF SavePage

LEMMA DeleteGhostsOK ==
  ASSUME TypeInv, DeleteGhosts, conf' = conf
  PROVE  Grows /\ RecordsTypeOK' /\ SoupInv' /\ DownTypeOK' /\ DownInv'
<1>1. DOMAIN soup' \subseteq DOMAIN soup /\ \A y \in DOMAIN soup' : soup'[y] = soup[y]
  BY DEF DeleteGhosts, Without
<1>2. UNCHANGED <<nextEntry, server, clock, edits, latest, settled, exposed, sync>>
      /\ down' = IdleDown
  BY DEF DeleteGhosts
<1>3. RecordsTypeOK'
  BY <1>1, <1>2 DEF TypeInv, TypeOK, RecordsTypeOK
<1>4. SoupInv' /\ Grows
  BY <1>1, <1>2 DEF TypeInv, SoupInv, Grows, TypeOK, RecordsTypeOK
<1>5. QED
  BY <1>2, <1>3, <1>4, DownIdleOK DEF TypeInv, TypeOK, DownTypeOK

LEMMA DownOnlyOK ==
  ASSUME TypeInv, conf' = conf, UNCHANGED recordVars,
         \/ StartSyncDown \/ StartFetch \/ SaveProgress \/ ContinueFetch \/ EndSyncDown
         \/ StartGhosts \/ GetRemoteIds
  PROVE  DownTypeOK' /\ DownInv'
<1>1. Grows /\ server' = server
  BY IdleRecordsOK DEF recordVars
<1>2. down \in Down /\ sync \in SyncRow /\ DownEnds \subseteq {"STOPPED", "FAILED"}
  BY DownAssumption DEF TypeInv, TypeOK, DownTypeOK, RecordsTypeOK, DownEnds
<1>3. CASE StartSyncDown
  <2>1. ResumeFrom \in Dates \union {0}
    <3>1. sync.max \in 0 .. MaxClock
      BY <1>2, ZeroDates DEF SyncRow
    <3>2. ResumeFrom \in 0 .. MaxClock
      BY <3>1, BoundsAssumption DEF ResumeFrom
    <3>3. QED
      BY <3>2, ZeroDates
  <2>2. down' = [IdleDown EXCEPT !.pc = "start", !.max = ResumeFrom, !.syncMax = ResumeFrom]
        /\ sync' = [status |-> "RUNNING", max |-> ResumeFrom]
    BY <1>3 DEF StartSyncDown
  <2>3. down' \in Down /\ down'.page = {} /\ down'.rest = {}
    BY <2>1, <2>2 DEF IdleDown, Down, DownPc
  <2>4. sync' \in SyncRow
    BY <2>1, <2>2 DEF SyncRow, Status
  <2>5. QED
    BY <2>3, <2>4, FS_EmptySet DEF DownTypeOK, DownInv
<1>4. CASE StartFetch
  <2>1. CASE FetchPage("prepare", Matching(down.max)) /\ sync' = sync
    <3>1. /\ Matching(down.max) \in SUBSET Sent /\ IsFiniteSet(Matching(down.max))
          /\ \A x \in Matching(down.max) : x.id \in DOMAIN server
      BY MatchingOK DEF Live
    <3>2. QED
      BY <1>1, <2>1, <3>1, FetchPageOK
  <2>2. QED
    BY <1>4, <2>1, MayEndOK DEF StartFetch
<1>5. CASE SaveProgress
  <2>1. down' = [down EXCEPT !.pc = "fetch", !.page = {}]
    BY <1>5 DEF SaveProgress
  <2>2. down' \in Down /\ down'.page = {} /\ down'.rest = down.rest
    BY <1>2, <2>1 DEF Down, DownPc
  <2>3. sync' \in SyncRow
    BY <1>2, <1>5 DEF SaveProgress, SyncRow, Status, Down
  <2>4. QED
    BY <1>1, <2>2, <2>3, FS_EmptySet DEF DownTypeOK, DownInv, TypeInv
<1>6. CASE ContinueFetch
  <2>1. CASE FetchPage("save", down.rest) /\ sync' = sync
    <3>1. /\ down.rest \in SUBSET Sent /\ IsFiniteSet(down.rest)
          /\ \A x \in down.rest : x.id \in DOMAIN server
      BY <1>2 DEF Down, TypeInv, DownInv
    <3>2. QED
      BY <1>1, <2>1, <3>1, FetchPageOK
  <2>2. QED
    BY <1>6, <2>1, MayEndOK DEF ContinueFetch
<1>7. CASE EndSyncDown
  <2>1. sync' \in SyncRow
    BY <1>2, <1>7 DEF EndSyncDown, SyncRow, Status, Down
  <2>2. QED
    BY <1>7, <2>1, DownIdleOK DEF EndSyncDown
<1>8. CASE StartGhosts
  <2> DEFINE ids == {soup[s].id : s \in DOMAIN soup \ DirtyEntries}
  <2>1. ids \in SUBSET (Ids \union {LocalId})
    BY DEF TypeInv, TypeOK, RecordsTypeOK, Row
  <2>2. down' = [IdleDown EXCEPT !.pc = "list", !.ids = ids, !.syncMax = sync.max]
        /\ sync' = sync
    BY <1>8 DEF StartGhosts
  <2> HIDE DEF ids
  <2>3. down' \in Down /\ down'.page = {} /\ down'.rest = {}
    BY <1>2, <2>1, <2>2 DEF IdleDown, Down, DownPc, SyncRow
  <2>4. QED
    BY <1>2, <2>2, <2>3, FS_EmptySet DEF DownTypeOK, DownInv
<1>9. CASE GetRemoteIds
  <2>1. CASE down' = [down EXCEPT !.pc = "ghosts", !.remote = Live]
    <3>1. Live \in SUBSET Ids
      BY DEF Live, TypeInv, TypeOK, RecordsTypeOK
    <3>2. down' \in Down /\ down'.page = down.page /\ down'.rest = down.rest
      BY <1>2, <2>1, <3>1 DEF Down, DownPc
    <3>3. QED
      BY <1>1, <1>2, <1>9, <3>2 DEF GetRemoteIds, DownTypeOK, DownInv, TypeInv
  <2>2. CASE down' = IdleDown
    BY <1>2, <1>9, <2>2, DownIdleOK DEF GetRemoteIds
  <2>3. QED
    BY <1>9, <2>1, <2>2 DEF GetRemoteIds
<1>10. QED
  BY <1>3, <1>4, <1>5, <1>6, <1>7, <1>8, <1>9

LEMMA DownStepOK ==
  ASSUME TypeInv, DownStep, UNCHANGED <<conf, up, batch>>
  PROVE  TypeInv'
<1>1. Grows /\ RecordsTypeOK' /\ SoupInv' /\ DownTypeOK' /\ DownInv'
  <2>1. CASE UNCHANGED recordVars
    <3>1. Grows /\ RecordsTypeOK' /\ SoupInv'
      BY <2>1, IdleRecordsOK
    <3>2. CASE GetIdsToSkip
      BY <3>1, <3>2, GetIdsToSkipOK
    <3>3. QED
      BY <2>1, <3>1, <3>2, DownOnlyOK, SavePageOK, DeleteGhostsOK DEF DownStep
  <2>2. CASE SavePage \/ DeleteGhosts
    BY <2>2, SavePageOK, DeleteGhostsOK
  <2>3. QED
    BY <2>1, <2>2 DEF DownStep, StartSyncDown, StartFetch, GetIdsToSkip, SaveProgress,
       ContinueFetch, EndSyncDown, StartGhosts, GetRemoteIds
<1>2. nextEntry' \in Nat
  BY <1>1 DEF RecordsTypeOK
<1>3. UpTypeOK' /\ UpInv' /\ BatchTypeOK' /\ BatchInv'
  BY <1>1, <1>2, UpFrame, BatchFrame DEF TypeInv
<1>4. TargetInv'
  BY DEF TypeInv, TargetInv
<1>5. QED
  BY <1>1, <1>3, <1>4 DEF TypeInv, TypeOK
----------------------------------------------------------------------------
\* The task of a sync up in batches.

LEMMA BatchFields ==
  ASSUME TypeInv
  PROVE  /\ DOMAIN batch = {"pc", "left", "rows", "missing", "check", "todo", "sending", "kinds",
                            "answers", "ids", "unsaved", "reRun", "seen"}
         /\ batch.left \subseteq Entries /\ batch.check \subseteq Entries
         /\ batch.todo \subseteq Entries /\ batch.sending \subseteq Entries
         /\ batch.unsaved \subseteq Entries /\ batch.pc \in BatchPc
         /\ batch.missing \in BOOLEAN /\ batch.reRun \in BOOLEAN
         /\ batch.kinds \in 0 .. Len(RequestType)
         /\ DOMAIN batch.rows \subseteq Entries
         /\ PartialTo(batch.answers, Answer) /\ PartialTo(batch.ids, Ids)
         /\ PartialTo(batch.seen, Edits)
BY DEF TypeInv, TypeOK, BatchTypeOK, IdleBatch

LEMMA EmptyPartial == ASSUME NEW T PROVE DOMAIN None = {} /\ PartialTo(None, T)
BY DEF None, PartialTo, Range

LEMMA Kinds == Len(RequestType) = 4
BY DEF RequestType

LEMMA IdleBatchFields ==
  /\ IdleBatch.pc = "idle" /\ IdleBatch.left = {} /\ IdleBatch.rows = None
  /\ IdleBatch.missing = FALSE /\ IdleBatch.check = {} /\ IdleBatch.todo = {}
  /\ IdleBatch.sending = {} /\ IdleBatch.kinds = 0 /\ IdleBatch.answers = None
  /\ IdleBatch.ids = None /\ IdleBatch.unsaved = {} /\ IdleBatch.reRun = FALSE
  /\ IdleBatch.seen = None
  /\ DOMAIN IdleBatch = {"pc", "left", "rows", "missing", "check", "todo", "sending", "kinds",
                         "answers", "ids", "unsaved", "reRun", "seen"}
BY DEF IdleBatch

LEMMA BatchClearOK ==
  ASSUME TypeInv, DOMAIN batch' = DOMAIN IdleBatch, batch'.pc \in {"idle", "read"},
         batch'.left \subseteq Entries, batch'.check = {}, batch'.todo = {}, batch'.sending = {},
         batch'.unsaved = {}, batch'.missing = FALSE, batch'.reRun = FALSE, batch'.kinds = 0,
         batch'.rows = None, batch'.answers = None, batch'.ids = None, batch'.seen = None
  PROVE  BatchTypeOK' /\ BatchInv'
<1>1. UNION {batch'.left, batch'.check, batch'.todo, batch'.sending, batch'.unsaved}
        \subseteq Entries
  OBVIOUS
<1>2. batch'.missing \in BOOLEAN /\ batch'.reRun \in BOOLEAN
  OBVIOUS
<1>3. batch'.kinds \in 0 .. Len(RequestType) /\ batch'.pc \in BatchPc
  BY Kinds DEF BatchPc
<1>4. DOMAIN batch'.rows = {}
  BY EmptyPartial
<1>5. PartialTo(batch'.answers, Answer) /\ PartialTo(batch'.ids, Ids)
      /\ PartialTo(batch'.seen, Edits)
  BY EmptyPartial
<1>6. BatchTypeOK'
  BY <1>1, <1>2, <1>3, <1>4, <1>5, Zenon DEF BatchTypeOK
<1>7. BatchInv'
  BY EmptyPartial DEF BatchInv, Pending
<1>8. QED
  BY <1>6, <1>7

LEMMA BatchIdleOK ==
  ASSUME TypeInv,
         \/ batch' = IdleBatch
         \/ \E left \in SUBSET Entries : batch' = [IdleBatch EXCEPT !.pc = "read", !.left = left]
  PROVE  BatchTypeOK' /\ BatchInv'
<1>1. CASE batch' = IdleBatch
  BY <1>1, IdleBatchFields, BatchClearOK
<1>2. ASSUME NEW left \in SUBSET Entries,
             batch' = [IdleBatch EXCEPT !.pc = "read", !.left = left]
      PROVE  BatchTypeOK' /\ BatchInv'
  <2>1. /\ DOMAIN batch' = DOMAIN IdleBatch /\ batch'.pc = "read" /\ batch'.left = left
        /\ batch'.check = IdleBatch.check /\ batch'.todo = IdleBatch.todo
        /\ batch'.sending = IdleBatch.sending /\ batch'.unsaved = IdleBatch.unsaved
        /\ batch'.missing = IdleBatch.missing /\ batch'.reRun = IdleBatch.reRun
        /\ batch'.kinds = IdleBatch.kinds /\ batch'.rows = IdleBatch.rows
        /\ batch'.answers = IdleBatch.answers /\ batch'.ids = IdleBatch.ids
        /\ batch'.seen = IdleBatch.seen
    BY <1>2, IdleBatchFields
  <2>2. QED
    BY <2>1, IdleBatchFields, BatchClearOK
<1>3. QED
  BY <1>1, <1>2

LEMMA BatchEndsOK ==
  ASSUME TypeInv, BatchEnds
  PROVE  BatchTypeOK' /\ BatchInv'
BY BatchIdleOK DEF BatchEnds

LEMMA ReadRecordsOK ==
  ASSUME TypeInv, ReadRecords, conf' = conf
  PROVE  BatchTypeOK' /\ BatchInv'
<1> DEFINE found == batch.left \intersect DOMAIN soup
           asked == {s \in found : UpMergeMode = "LEAVE_IF_CHANGED"
                                   /\ "created" \notin soup[s].flags}
<1>1. UNCHANGED <<nextEntry, server>> /\ Grows
  BY IdleRecordsOK DEF ReadRecords, recordVars
<1>2. batch' = [batch EXCEPT !.pc = "check", !.left = {}, !.rows = Restrict(soup, found),
                             !.missing = (found # batch.left),
                             !.check = asked, !.todo = found \ asked]
  BY DEF ReadRecords
<1>3. found \subseteq Entries /\ found \subseteq DOMAIN soup /\ asked \subseteq found
      /\ \A s \in asked : "created" \notin soup[s].flags
  BY BatchFields
<1> HIDE DEF found, asked
<1>4. /\ DOMAIN batch' = DOMAIN batch
      /\ batch'.pc = "check" /\ batch'.left = {} /\ batch'.rows = Restrict(soup, found)
      /\ batch'.missing = (found # batch.left)
      /\ batch'.check = asked /\ batch'.todo = found \ asked
      /\ batch'.sending = batch.sending /\ batch'.unsaved = batch.unsaved
      /\ batch'.reRun = batch.reRun /\ batch'.kinds = batch.kinds
      /\ batch'.answers = batch.answers /\ batch'.ids = batch.ids /\ batch'.seen = batch.seen
  BY <1>2, BatchFields
<1>5. batch.sending = {} /\ batch.unsaved = {} /\ batch.answers = None /\ batch.ids = None
  BY DEF ReadRecords, TypeInv, BatchInv
<1>6. DOMAIN batch'.rows = found /\ \A s \in found : batch'.rows[s] = soup[s]
  BY <1>4 DEF Restrict
<1>7. \A s \in found : s < nextEntry /\ RowOK(soup[s], DOMAIN server) /\ soup[s] \in Row
  BY <1>3 DEF TypeInv, SoupInv, RowOK
<1>8. BatchTypeOK'
  BY <1>3, <1>4, <1>6, <1>7, BatchFields DEF BatchTypeOK, BatchPc, IdleBatch
<1>9. BatchInv'
  BY <1>1, <1>3, <1>4, <1>5, <1>6, <1>7, EmptyPartial DEF BatchInv, Pending
<1>10. QED
  BY <1>8, <1>9

LEMMA MergeEffect ==
  ASSUME NEW f, NEW g
  PROVE  /\ DOMAIN Merge(f, g) = DOMAIN f \union DOMAIN g
         /\ \A x \in DOMAIN f : Merge(f, g)[x] = f[x]
         /\ \A x \in DOMAIN g \ DOMAIN f : Merge(f, g)[x] = g[x]
BY DEF Merge

LEMMA MergePartial ==
  ASSUME NEW T, NEW f, NEW g, PartialTo(f, T), PartialTo(g, T)
  PROVE  PartialTo(Merge(f, g), T)
<1>1. DOMAIN Merge(f, g) \subseteq Entries
  BY MergeEffect DEF PartialTo
<1>2. ASSUME NEW x \in DOMAIN Merge(f, g) PROVE Merge(f, g)[x] \in T
  <2>1. CASE x \in DOMAIN f
    BY <2>1 DEF Merge, PartialTo, Range
  <2>2. CASE x \in DOMAIN g \ DOMAIN f
    BY <2>2 DEF Merge, PartialTo, Range
  <2>3. QED
    BY <2>1, <2>2, MergeEffect
<1>3. QED
  BY <1>1, <1>2 DEF PartialTo, Range

LEMMA PartialFunction ==
  ASSUME NEW T, NEW f, DOMAIN f \subseteq Entries, \A s \in DOMAIN f : f[s] \in T
  PROVE  PartialTo(f, T)
BY DEF PartialTo, Range

LEMMA CheckModDatesOK ==
  ASSUME TypeInv, CheckModDates, conf' = conf
  PROVE  BatchTypeOK' /\ BatchInv'
<1> DEFINE asked == IF Collection THEN batch.check ELSE {Min(batch.check)}
           dates(result) == [s \in result |-> server[Rows[s].id].edit]
<1>1. UNCHANGED <<nextEntry, server>> /\ Grows
  BY IdleRecordsOK DEF CheckModDates, recordVars
<1>2. asked \subseteq batch.check
  <2>1. batch.check \in SUBSET Nat /\ batch.check # {}
    BY BatchFields DEF CheckModDates, Entries
  <2>2. QED
    BY <2>1, MinOf
<1>3. ASSUME NEW result \in SUBSET asked,
             batch' = [batch EXCEPT !.check = @ \ asked, !.todo = @ \union result,
                                    !.seen = Merge(@, dates(result))]
      PROVE  BatchTypeOK' /\ BatchInv'
  <2>1. \A s \in result : s \in DOMAIN batch.rows /\ RowOK(batch.rows[s], DOMAIN server)
                          /\ "created" \notin batch.rows[s].flags /\ s \in batch.check
    BY <1>2 DEF TypeInv, BatchInv, Pending
  <2>2. \A s \in result : server[Rows[s].id].edit \in Edits
    BY <2>1, KnownId, ServerRecordOK DEF Rows
  <2>3. PartialTo(dates(result), Edits)
    BY <1>2, <2>1, <2>2, BatchFields, PartialFunction
  <2> HIDE DEF asked, dates
  <2>4. PartialTo(Merge(batch.seen, dates(result)), Edits)
    BY <2>3, BatchFields, MergePartial
  <2>5. /\ DOMAIN batch' = DOMAIN batch
        /\ batch'.check = batch.check \ asked /\ batch'.todo = batch.todo \union result
        /\ batch'.seen = Merge(batch.seen, dates(result))
        /\ batch'.pc = batch.pc /\ batch'.left = batch.left /\ batch'.rows = batch.rows
        /\ batch'.missing = batch.missing /\ batch'.sending = batch.sending
        /\ batch'.kinds = batch.kinds /\ batch'.answers = batch.answers
        /\ batch'.ids = batch.ids /\ batch'.unsaved = batch.unsaved /\ batch'.reRun = batch.reRun
    BY <1>3, BatchFields
  <2>6. BatchTypeOK'
    <3>1. UNION {batch'.left, batch'.check, batch'.todo, batch'.sending, batch'.unsaved}
            \subseteq Entries
      BY <1>2, <2>5, BatchFields
    <3>2. \A s \in DOMAIN batch.rows : batch.rows[s] \in Row
      BY DEF TypeInv, TypeOK, BatchTypeOK
    <3>3. PartialTo(batch'.seen, Edits)
      BY <2>4, <2>5
    <3>4. QED
      BY <2>5, <3>1, <3>2, <3>3, BatchFields DEF BatchTypeOK, IdleBatch
  <2>7. Pending' \subseteq Pending
    BY <1>2, <2>5 DEF Pending
  <2>8. batch.pc = "check"
    BY DEF CheckModDates
  <2>9. QED
    BY <1>1, <2>5, <2>6, <2>7, <2>8 DEF TypeInv, BatchInv
<1>4. CASE BatchEnds
  BY <1>4, BatchEndsOK
<1>5. QED
  <2>1. {s \in asked : IsNewer(Rows[s], server[Rows[s].id])} \in SUBSET asked
        /\ {s \in asked : Rows[s].mod = NoDate} \in SUBSET asked
    OBVIOUS
  <2>2. QED
    BY <1>3, <1>4, <2>1 DEF CheckModDates

LEMMA FillBatchOK ==
  ASSUME TypeInv, FillBatch, conf' = conf
  PROVE  BatchTypeOK' /\ BatchInv'
<1> DEFINE next == FirstOf(batch.todo)
<1>1. UNCHANGED <<nextEntry, server>> /\ Grows
  BY IdleRecordsOK DEF FillBatch, recordVars
<1>2. next \subseteq batch.todo
  BY DEF FirstOf
<1>3. CASE batch' = [batch EXCEPT !.pc = "send", !.todo = @ \ next, !.sending = next]
  <2> HIDE DEF next
  <2>1. /\ DOMAIN batch' = DOMAIN batch
        /\ batch'.pc = "send" /\ batch'.todo = batch.todo \ next /\ batch'.sending = next
        /\ batch'.check = batch.check /\ batch'.seen = batch.seen
        /\ batch'.left = batch.left /\ batch'.rows = batch.rows
        /\ batch'.missing = batch.missing
        /\ batch'.kinds = batch.kinds /\ batch'.answers = batch.answers
        /\ batch'.ids = batch.ids /\ batch'.unsaved = batch.unsaved /\ batch'.reRun = batch.reRun
    BY <1>3, BatchFields
  <2>2. UNION {batch'.left, batch'.check, batch'.todo, batch'.sending, batch'.unsaved}
          \subseteq Entries
    BY <1>2, <2>1, BatchFields
  <2>3. BatchTypeOK'
    BY <2>1, <2>2 DEF TypeInv, TypeOK, BatchTypeOK, BatchPc
  <2>4. batch.pc = "fill"
    BY DEF FillBatch
  <2>5. Pending' \subseteq Pending /\ batch.unsaved = {}
    BY <1>2, <2>1, <2>4 DEF Pending, TypeInv, BatchInv
  <2>6. QED
    BY <1>1, <2>1, <2>3, <2>4, <2>5 DEF TypeInv, BatchInv
<1>4. QED
  BY <1>3, BatchEndsOK DEF FillBatch

LEMMA CheckedModDatesOK ==
  ASSUME TypeInv, CheckedModDates, conf' = conf
  PROVE  BatchTypeOK' /\ BatchInv'
<1>1. UNCHANGED <<nextEntry, server>> /\ Grows
  BY IdleRecordsOK DEF CheckedModDates, recordVars
<1>2. /\ DOMAIN batch' = DOMAIN batch /\ batch'.pc = "fill"
      /\ batch'.check = batch.check /\ batch'.todo = batch.todo
      /\ batch'.seen = batch.seen /\ batch'.left = batch.left /\ batch'.rows = batch.rows
      /\ batch'.missing = batch.missing /\ batch'.sending = batch.sending
      /\ batch'.kinds = batch.kinds /\ batch'.answers = batch.answers
      /\ batch'.ids = batch.ids /\ batch'.unsaved = batch.unsaved /\ batch'.reRun = batch.reRun
  BY BatchFields DEF CheckedModDates
<1>3. BatchTypeOK'
  BY <1>2 DEF TypeInv, TypeOK, BatchTypeOK, BatchPc
<1>4. batch.pc = "check" /\ batch.check = {} /\ Pending' = Pending
  BY <1>2 DEF CheckedModDates, Pending
<1>5. QED
  BY <1>1, <1>2, <1>3, <1>4 DEF TypeInv, BatchInv

\* The records of requests that the server carries out, at a place of its own each.
LEMMA RequestedOK ==
  ASSUME TypeInv, NEW s \in Requested
  PROVE  /\ s \in batch.sending /\ s \in DOMAIN batch.rows /\ Rows[s] \in Row
         /\ HasRequest(s)
         /\ ~Wants(Rows[s], "create") => Rows[s].id \in DOMAIN server
                                         /\ "created" \notin Rows[s].flags
<1>1. s \in batch.sending /\ HasRequest(s)
  BY DEF Requested
<1>2. s \in DOMAIN batch.rows
  BY <1>1 DEF TypeInv, BatchInv, Pending
<1>3. RowOK(Rows[s], DOMAIN server) /\ Rows[s] \in Row
  BY <1>2 DEF TypeInv, BatchInv, RowOK, Rows
<1>4. ASSUME ~Wants(Rows[s], "create") PROVE "created" \notin Rows[s].flags
  BY <1>1, <1>4 DEF HasRequest, Wants
<1>5. QED
  BY <1>1, <1>2, <1>3, <1>4, KnownId

LEMMA ServerRecordsOK ==
  ASSUME TypeInv, NEW s \in Requested, NEW t \in Dates
  PROVE  ServerRecord(s, t) \in Record
<1>1. Rows[s].edit \in Edits /\ Rows[s].key \in Edits
  BY RequestedOK DEF Row
<1>2. CASE Wants(Rows[s], "create")
  BY <1>1, <1>2 DEF ServerRecord, Record
<1>3. CASE ~Wants(Rows[s], "create")
  <2>1. server[Rows[s].id] \in Record
    BY <1>3, RequestedOK, ServerRecordOK
  <2>2. QED
    BY <1>1, <1>3, <2>1 DEF ServerRecord, Record
<1>4. QED
  BY <1>2, <1>3

LEMMA CarriesOutEffect ==
  ASSUME TypeInv, NEW done \in SUBSET Requested, CarriesOut(done)
  PROVE  /\ \A s \in done : ServerId(s, done) \in Ids /\ ServerId(s, done) \in DOMAIN server'
         /\ \E t \in Dates :
               /\ clock' = t
               /\ done # {} => t \in Ticks
               /\ done = {} => t = clock
               /\ \A i \in DOMAIN server' :
                     \/ /\ i \in DOMAIN server /\ server'[i] = server[i]
                        /\ \A s \in done : i # ServerId(s, done)
                     \/ \E s \in done : i = ServerId(s, done) /\ server'[i] = ServerRecord(s, t)
         /\ DOMAIN server' = DOMAIN server \union {ServerId(s, done) : s \in done}
<1> DEFINE id == [s \in done |-> ServerId(s, done)]
<1>1. PICK t \in IF done = {} THEN {clock} ELSE Ticks :
         /\ server' = [i \in DOMAIN server \union Range(id) |->
                           IF i \in Range(id)
                           THEN ServerRecord(CHOOSE s \in done : id[s] = i, t) ELSE server[i]]
         /\ clock' = t
  BY DEF CarriesOut
<1>2. Range(id) \subseteq Ids /\ Range(id) = {ServerId(s, done) : s \in done}
  BY DEF CarriesOut, Range
<1>3. t \in Dates
  BY Bounds DEF Ticks, Dates, TypeInv, TypeOK, RecordsTypeOK
<1>4. \A s \in done : id[s] = ServerId(s, done)
  OBVIOUS
<1> HIDE DEF id
<1>5. ASSUME NEW i \in Range(id)
      PROVE  \E s \in done : i = ServerId(s, done) /\ server'[i] = ServerRecord(s, t)
  <2> DEFINE s == CHOOSE r \in done : id[r] = i
  <2>1. \E r \in done : id[r] = i
    BY <1>2, <1>4
  <2>2. s \in done /\ id[s] = i
    BY <2>1
  <2>3. server'[i] = ServerRecord(s, t)
    BY <1>1
  <2>4. QED
    BY <1>4, <2>2, <2>3
<1>6. DOMAIN server' = DOMAIN server \union Range(id)
  BY <1>1
<1>7. ASSUME NEW i \in DOMAIN server', i \notin Range(id)
      PROVE  /\ i \in DOMAIN server /\ server'[i] = server[i]
             /\ \A s \in done : i # ServerId(s, done)
  BY <1>1, <1>2, <1>7
<1>8. QED
  BY <1>1, <1>2, <1>3, <1>5, <1>6, <1>7

LEMMA GivenIdsOK ==
  ASSUME TypeInv, NEW done \in SUBSET Requested, CarriesOut(done), NEW s \in done
  PROVE  ServerId(s, done) \in Ids /\ ServerId(s, done) \in DOMAIN server'
BY CarriesOutEffect

LEMMA CarriesOutOK ==
  ASSUME TypeInv, NEW done \in SUBSET Requested, CarriesOut(done),
         UNCHANGED <<conf, soup, nextEntry, edits, latest, exposed>>, settled' \subseteq Edits
  PROVE  Grows /\ RecordsTypeOK' /\ SoupInv'
<1>1. PICK t \in Dates :
         /\ clock' = t
         /\ done # {} => t \in Ticks
         /\ done = {} => t = clock
         /\ \A i \in DOMAIN server' :
               \/ /\ i \in DOMAIN server /\ server'[i] = server[i]
                  /\ \A s \in done : i # ServerId(s, done)
               \/ \E s \in done : i = ServerId(s, done) /\ server'[i] = ServerRecord(s, t)
  BY CarriesOutEffect
<1>2. DOMAIN server' \subseteq Ids /\ DOMAIN server \subseteq DOMAIN server'
  BY CarriesOutEffect DEF TypeInv, TypeOK, RecordsTypeOK
<1>3. \A i \in DOMAIN server' : server'[i] \in Record
  BY <1>1, ServerRecordsOK, ServerRecordOK
<1>4. Grows
  BY <1>2 DEF Grows, TypeInv, TypeOK, RecordsTypeOK
<1>5. QED
  BY <1>1, <1>2, <1>3, <1>4, ServerStepOK

LEMMA NextKindOK ==
  ASSUME TypeInv
  PROVE  NextKind \in 0 .. Len(RequestType)
<1>1. CASE Collection /\ KindsLeft # {}
  <2>1. KindsLeft \subseteq batch.kinds + 1 .. 4
    BY Kinds DEF KindsLeft
  <2>2. batch.kinds \in 0 .. 4
    BY BatchFields, Kinds
  <2>3. KindsLeft \in SUBSET Nat /\ \A k \in KindsLeft : k \in 0 .. 4
    BY <2>1, <2>2
  <2>4. Min(KindsLeft) \in KindsLeft
    BY <1>1, <2>3, MinOf
  <2>5. QED
    BY <1>1, <2>3, <2>4, Kinds DEF NextKind
<1>2. CASE ~(Collection /\ KindsLeft # {})
  BY <1>2, Kinds DEF NextKind
<1>3. QED
  BY <1>1, <1>2

LEMMA SendRequestsOK ==
  ASSUME TypeInv, SendRequests, conf' = conf
  PROVE  Grows /\ RecordsTypeOK' /\ SoupInv' /\ BatchTypeOK' /\ BatchInv'
<1> DEFINE more == Collection /\ \E k \in KindsLeft : k > NextKind
           gone(refused) == {s \in Requested \ refused : Gone(s)}
           done(refused) == Requested \ (refused \union gone(refused))
<1>1. UNCHANGED <<conf, soup, nextEntry, edits, latest, exposed>> /\ batch.pc = "send"
  BY DEF SendRequests
<1>2. ASSUME NEW refused \in SUBSET Requested, CarriesOut(done(refused)),
             settled' = settled \union
                   {Rows[s].edit : s \in done(refused)
                                   \union {r \in gone(refused) : Wants(Rows[r], "delete")}}
      PROVE  /\ Grows /\ RecordsTypeOK' /\ SoupInv'
             /\ BatchEnds => BatchTypeOK' /\ BatchInv'
             /\ batch' = [batch EXCEPT
                               !.pc      = IF more THEN "send" ELSE "save",
                               !.kinds   = NextKind,
                               !.answers = Answers(done(refused), gone(refused), refused),
                               !.ids     = Merge(@, AnsweredIds(done(refused))),
                               !.unsaved = {s \in batch.sending : IsDirty(Rows[s])}]
                => BatchTypeOK' /\ BatchInv'
  <2> DEFINE D == done(refused)
             G == gone(refused)
             A == [s \in D \union G \union refused |->
                            IF s \in D THEN "ok" ELSE IF s \in G THEN "gone" ELSE "refused"]
  <2>1. D \in SUBSET Requested /\ G \in SUBSET Requested
    OBVIOUS
  <2>2. \A s \in Requested : Rows[s].edit \in Edits /\ s \in Entries
    BY RequestedOK, BatchFields DEF Row
  <2>3. settled' \subseteq Edits
    <3>1. settled \subseteq Edits
      BY DEF TypeInv, TypeOK, RecordsTypeOK
    <3>2. QED
      BY <1>2, <2>2, <3>1
  <2>4. Answers(D, G, refused) = Merge(batch.answers, A)
    BY DEF Answers
  <2> HIDE DEF D, G
  <2>5. CarriesOut(D)
    BY <1>2 DEF D
  <2>6. Grows /\ RecordsTypeOK' /\ SoupInv'
    BY <1>1, <2>1, <2>3, <2>5, CarriesOutOK
  <2>7. CASE BatchEnds
    BY <2>6, <2>7, BatchEndsOK
  <2>8. CASE batch' = [batch EXCEPT
                               !.pc      = IF more THEN "send" ELSE "save",
                               !.kinds   = NextKind,
                               !.answers = Answers(D, G, refused),
                               !.ids     = Merge(@, AnsweredIds(D)),
                               !.unsaved = {s \in batch.sending : IsDirty(Rows[s])}]
    <3> DEFINE pc == IF more THEN "send" ELSE "save"
    <3>1. pc \in {"send", "save"}
      OBVIOUS
    <3> HIDE DEF more, pc
    <3>2. /\ DOMAIN batch' = DOMAIN batch
          /\ batch'.pc = pc /\ batch'.kinds = NextKind
          /\ batch'.answers = Merge(batch.answers, A)
          /\ batch'.ids = Merge(batch.ids, AnsweredIds(D))
          /\ batch'.unsaved = {s \in batch.sending : IsDirty(Rows[s])}
          /\ batch'.check = batch.check /\ batch'.todo = batch.todo
          /\ batch'.seen = batch.seen /\ batch'.left = batch.left /\ batch'.rows = batch.rows
          /\ batch'.missing = batch.missing /\ batch'.sending = batch.sending
          /\ batch'.reRun = batch.reRun
      BY <2>4, <2>8, BatchFields DEF pc
    <3>3. PartialTo(A, Answer)
      <4>1. DOMAIN A \subseteq Entries
        BY <2>1, <2>2
      <4>2. \A s \in DOMAIN A : A[s] \in Answer
        BY DEF Answer
      <4> HIDE DEF A
      <4>3. QED
        BY <4>1, <4>2, PartialFunction
    <3>4. PartialTo(AnsweredIds(D), Ids)
      <4>1. DOMAIN AnsweredIds(D) = D /\ \A s \in D : AnsweredIds(D)[s] = ServerId(s, D)
        BY DEF AnsweredIds
      <4>2. \A s \in D : AnsweredIds(D)[s] \in Ids
        BY <2>1, <2>5, <4>1, GivenIdsOK
      <4>3. QED
        BY <2>1, <2>2, <4>1, <4>2, PartialFunction
    <3>5. PartialTo(batch'.answers, Answer) /\ PartialTo(batch'.ids, Ids)
          /\ PartialTo(batch'.seen, Edits)
      BY <3>2, <3>3, <3>4, MergePartial, BatchFields
    <3>6. UNION {batch'.left, batch'.check, batch'.todo, batch'.sending, batch'.unsaved}
            \subseteq Entries
      BY <3>2, BatchFields
    <3>7. batch'.kinds \in 0 .. Len(RequestType)
      BY <3>2, NextKindOK
    <3>8. \A s \in DOMAIN batch.rows : batch.rows[s] \in Row
      BY DEF TypeInv, TypeOK, BatchTypeOK
    <3>9. BatchTypeOK'
      BY <3>1, <3>2, <3>5, <3>6, <3>7, <3>8, BatchFields DEF BatchTypeOK, BatchPc, IdleBatch
    <3>10. ASSUME NEW s \in DOMAIN batch'.answers, batch'.answers[s] = "ok"
           PROVE  s \in DOMAIN batch'.ids
      <4>1. CASE s \in DOMAIN batch.answers
        <5>1. batch'.answers[s] = batch.answers[s]
          BY <3>2, <4>1 DEF Merge
        <5>2. s \in DOMAIN batch.ids
          BY <3>10, <4>1, <5>1 DEF TypeInv, BatchInv
        <5>3. QED
          BY <3>2, <5>2 DEF Merge
      <4>2. CASE s \notin DOMAIN batch.answers
        <5>1. s \in DOMAIN A /\ batch'.answers[s] = A[s]
          BY <3>2, <4>2 DEF Merge
        <5>2. s \in D
          BY <3>10, <5>1
        <5>3. QED
          BY <3>2, <5>2 DEF Merge, AnsweredIds
      <4>3. QED
        BY <4>1, <4>2
    <3> HIDE DEF A
    <3>11. ASSUME NEW s \in DOMAIN batch'.ids
           PROVE  batch'.ids[s] \in DOMAIN server'
      <4>1. CASE s \in DOMAIN batch.ids
        <5>1. batch'.ids[s] = batch.ids[s]
          BY <3>2, <4>1 DEF Merge
        <5>2. QED
          BY <2>6, <4>1, <5>1 DEF TypeInv, BatchInv, Grows
      <4>2. CASE s \notin DOMAIN batch.ids
        <5>1. s \in D /\ batch'.ids[s] = ServerId(s, D)
          BY <3>2, <4>2 DEF Merge, AnsweredIds
        <5>2. QED
          BY <2>1, <2>5, <5>1, GivenIdsOK
      <4>3. QED
        BY <4>1, <4>2
    <3>12. Pending' = Pending
      BY <3>2 DEF Pending
    <3>13. \A s \in DOMAIN batch.rows : s < nextEntry /\ RowOK(batch.rows[s], DOMAIN server')
      BY <2>6, RowKnown DEF TypeInv, BatchInv, Grows
    <3>14. BatchInv'
      BY <1>1, <3>1, <3>2, <3>10, <3>11, <3>12, <3>13 DEF TypeInv, BatchInv
    <3>15. QED
      BY <2>6, <3>9, <3>14
  <2>9. QED
    BY <2>6, <2>7, <2>8 DEF D, G
<1>3. CASE BatchEnds /\ Unchanged
  <2>1. settled' \subseteq Edits
    BY <1>3 DEF Unchanged, TypeInv, TypeOK, RecordsTypeOK
  <2>2. Grows /\ RecordsTypeOK' /\ SoupInv'
    BY <1>1, <1>3, <2>1, NoRequestOK DEF Unchanged
  <2>3. QED
    BY <1>3, <2>2, BatchEndsOK
<1>4. CASE ~(BatchEnds /\ Unchanged)
  <2>1. PICK refused \in SUBSET Requested :
          /\ CarriesOut(done(refused))
          /\ settled' = settled \union
                   {Rows[s].edit : s \in done(refused)
                                   \union {r \in gone(refused) : Wants(Rows[r], "delete")}}
          /\ \/ batch' = [batch EXCEPT
                               !.pc      = IF more THEN "send" ELSE "save",
                               !.kinds   = NextKind,
                               !.answers = Answers(done(refused), gone(refused), refused),
                               !.ids     = Merge(@, AnsweredIds(done(refused))),
                               !.unsaved = {s \in batch.sending : IsDirty(Rows[s])}]
             \/ BatchEnds
    BY <1>4 DEF SendRequests
  <2>2. QED
    BY <1>2, <2>1
<1>5. QED
  BY <1>3, <1>4

LEMMA SaveAnswerOK ==
  ASSUME TypeInv, SaveAnswer, conf' = conf
  PROVE  Grows /\ RecordsTypeOK' /\ SoupInv' /\ BatchTypeOK' /\ BatchInv'
<1> DEFINE s == Min(batch.unsaved)
           clean == [Rows[s] EXCEPT !.flags = {}, !.id = batch.ids[s]]
<1>1. UNCHANGED <<conf, nextEntry, server, clock, edits, latest, exposed>> /\ batch.pc = "save"
  BY DEF SaveAnswer
<1>2. s \in batch.unsaved
  <2>1. batch.unsaved \in SUBSET Nat /\ batch.unsaved # {}
    BY BatchFields DEF SaveAnswer, Entries
  <2>2. QED
    BY <2>1, MinOf
<1>3. s \in batch.sending /\ s \in DOMAIN batch.rows /\ s < nextEntry
      /\ RowOK(Rows[s], DOMAIN server) /\ Rows[s] \in Row
  BY <1>2 DEF TypeInv, BatchInv, Pending, RowOK, Rows
<1>4. ASSUME Cleans(s) PROVE RowOK(clean, DOMAIN server)
  <2>1. batch.ids[s] \in DOMAIN server
    BY <1>4 DEF Cleans, Got, TypeInv, BatchInv
  <2>2. DOMAIN server \subseteq Ids /\ LocalId \notin DOMAIN server
    BY DEF TypeInv, TypeOK, RecordsTypeOK, Ids, LocalId
  <2>3. clean \in Row /\ clean.id = batch.ids[s]
    BY <1>3, <2>1, <2>2 DEF Row
  <2>4. QED
    BY <2>1, <2>2, <2>3 DEF RowOK
<1> HIDE DEF s, clean
<1>5. ASSUME NEW row, RowOK(row, DOMAIN server), SavedNext(s, row)
      PROVE  BatchTypeOK' /\ BatchInv'
  <2>1. /\ DOMAIN batch' = DOMAIN batch
        /\ batch'.unsaved = batch.unsaved \ {s}
        /\ batch'.rows = [batch.rows EXCEPT ![s] = row]
        /\ batch'.check = batch.check /\ batch'.todo = batch.todo
        /\ batch'.seen = batch.seen /\ batch'.left = batch.left /\ batch'.pc = batch.pc
        /\ batch'.missing = batch.missing /\ batch'.sending = batch.sending
        /\ batch'.kinds = batch.kinds /\ batch'.answers = batch.answers
        /\ batch'.ids = batch.ids /\ batch'.reRun = batch.reRun
    BY <1>5, BatchFields DEF SavedNext
  <2>2. DOMAIN batch'.rows = DOMAIN batch.rows /\ batch'.rows[s] = row
        /\ \A r \in DOMAIN batch.rows : r # s => batch'.rows[r] = batch.rows[r]
    BY <1>3, <2>1
  <2>3. \A r \in DOMAIN batch'.rows : r < nextEntry /\ RowOK(batch'.rows[r], DOMAIN server)
    BY <1>3, <1>5, <2>2 DEF TypeInv, BatchInv
  <2>4. \A r \in DOMAIN batch'.rows : batch'.rows[r] \in Row
    BY <2>3 DEF RowOK
  <2>5. UNION {batch'.left, batch'.check, batch'.todo, batch'.sending, batch'.unsaved}
          \subseteq Entries
    BY <2>1, BatchFields
  <2>6. BatchTypeOK'
    BY <2>1, <2>2, <2>4, <2>5, BatchFields DEF BatchTypeOK, IdleBatch
  <2>7. Pending' = Pending /\ batch.check = {}
    BY <1>1, <2>1 DEF Pending, TypeInv, BatchInv
  <2>8. QED
    BY <1>1, <2>1, <2>2, <2>3, <2>6, <2>7 DEF TypeInv, BatchInv
<1>6. ASSUME ReRun(s) PROVE BatchTypeOK' /\ BatchInv'
  <2> DEFINE row == [Rows[s] EXCEPT !.flags = @ \union {"created"}]
  <2>1. row \in Row /\ row.id = Rows[s].id /\ "created" \in row.flags
    BY <1>3 DEF Row, Flag
  <2>2. RowOK(row, DOMAIN server)
    BY <1>3, <2>1 DEF RowOK
  <2>3. /\ DOMAIN batch' = DOMAIN batch
        /\ batch'.pc = "send" /\ batch'.kinds = 0 /\ batch'.answers = None
        /\ batch'.ids = None /\ batch'.unsaved = {} /\ batch'.reRun = TRUE
        /\ batch'.rows = [batch.rows EXCEPT ![s] = row]
        /\ batch'.check = batch.check /\ batch'.todo = batch.todo
        /\ batch'.seen = batch.seen /\ batch'.left = batch.left
        /\ batch'.missing = batch.missing /\ batch'.sending = batch.sending
    BY <1>6, BatchFields DEF ReRun, Rows
  <2> HIDE DEF row
  <2>4. DOMAIN batch'.rows = DOMAIN batch.rows /\ batch'.rows[s] = row
        /\ \A r \in DOMAIN batch.rows : r # s => batch'.rows[r] = batch.rows[r]
    BY <1>3, <2>3
  <2>5. \A r \in DOMAIN batch'.rows : r < nextEntry /\ RowOK(batch'.rows[r], DOMAIN server)
    BY <1>3, <2>2, <2>4 DEF TypeInv, BatchInv
  <2>6. \A r \in DOMAIN batch'.rows : batch'.rows[r] \in Row
    BY <2>5 DEF RowOK
  <2>7. UNION {batch'.left, batch'.check, batch'.todo, batch'.sending, batch'.unsaved}
          \subseteq Entries
    BY <2>3, BatchFields
  <2>8. /\ PartialTo(batch'.answers, Answer) /\ PartialTo(batch'.ids, Ids)
        /\ batch'.kinds \in 0 .. Len(RequestType) /\ DOMAIN batch'.answers = {}
        /\ DOMAIN batch'.ids = {}
    BY <2>3, EmptyPartial, Kinds
  <2>9. batch'.reRun \in BOOLEAN
    BY <2>3
  <2>10. batch'.missing \in BOOLEAN
    BY <2>3, BatchFields
  <2>11. BatchTypeOK'
    <3>1. DOMAIN batch' = DOMAIN IdleBatch /\ batch'.pc \in BatchPc
      BY <2>3 DEF TypeInv, TypeOK, BatchTypeOK, BatchPc
    <3>2. DOMAIN batch'.rows \subseteq Entries /\ PartialTo(batch'.seen, Edits)
      BY <2>3, <2>4, BatchFields
    <3>3. QED
      BY <2>6, <2>7, <2>8, <2>9, <2>10, <3>1, <3>2, Zenon DEF BatchTypeOK
  <2>12. Pending' = Pending /\ batch.check = {}
    BY <1>1, <2>3 DEF Pending, TypeInv, BatchInv
  <2>13. QED
    BY <1>1, <2>3, <2>4, <2>5, <2>8, <2>11, <2>12 DEF TypeInv, BatchInv
<1>7. settled \subseteq Edits /\ Rows[s].edit \in Edits
  BY <1>3 DEF TypeInv, TypeOK, RecordsTypeOK, Row
<1>8. CASE /\ soup' = Without(soup, {s})
           /\ settled' = settled \union IF "created" \in Rows[s].flags THEN {Rows[s].edit} ELSE {}
           /\ SavedNext(s, Rows[s])
  <2>1. settled' \subseteq Edits
    BY <1>7, <1>8
  <2>2. QED
    BY <1>1, <1>3, <1>5, <1>8, <2>1, SavesOK
<1>9. ASSUME NEW row, RowOK(row, DOMAIN server), Save(s, row), SavedNext(s, row),
             settled' = settled
      PROVE  Grows /\ RecordsTypeOK' /\ SoupInv' /\ BatchTypeOK' /\ BatchInv'
  BY <1>1, <1>5, <1>7, <1>9, SavesOK DEF Save
<1>10. CASE ReRun(s) /\ UNCHANGED <<soup, settled>>
  BY <1>1, <1>3, <1>6, <1>7, <1>10, SavesOK
<1>11. QED
  <2>1. \/ /\ soup' = Without(soup, {s})
           /\ settled' = settled \union IF "created" \in Rows[s].flags THEN {Rows[s].edit} ELSE {}
           /\ SavedNext(s, Rows[s])
        \/ Cleans(s) /\ Save(s, clean) /\ SavedNext(s, clean) /\ UNCHANGED settled
        \/ ReRun(s) /\ UNCHANGED <<soup, settled>>
        \/ Save(s, Rows[s]) /\ SavedNext(s, Rows[s]) /\ UNCHANGED settled
    BY DEF SaveAnswer, s, clean
  <2>2. QED
    BY <1>3, <1>4, <1>8, <1>9, <1>10, <2>1

LEMMA NextBatchOK ==
  ASSUME TypeInv, NextBatch, conf' = conf
  PROVE  BatchTypeOK' /\ BatchInv'
<1>1. UNCHANGED <<nextEntry, server>> /\ Grows
  BY IdleRecordsOK DEF NextBatch, recordVars
<1>2. /\ DOMAIN batch' = DOMAIN batch
      /\ batch'.pc = "fill" /\ batch'.rows = Restrict(batch.rows, batch.todo)
      /\ batch'.sending = {} /\ batch'.kinds = 0 /\ batch'.answers = None /\ batch'.ids = None
      /\ batch'.reRun = FALSE
      /\ batch'.seen = Restrict(batch.seen, DOMAIN batch.seen \intersect batch.todo)
      /\ batch'.check = batch.check /\ batch'.todo = batch.todo /\ batch'.left = batch.left
      /\ batch'.missing = batch.missing /\ batch'.unsaved = batch.unsaved
  BY BatchFields DEF NextBatch
<1>3. batch.pc = "save" /\ batch.unsaved = {} /\ batch.check = {}
      /\ batch.todo \subseteq DOMAIN batch.rows
  BY DEF NextBatch, TypeInv, BatchInv, Pending
<1>4. DOMAIN batch'.rows = batch.todo
      /\ \A s \in batch.todo : batch'.rows[s] = batch.rows[s]
  BY <1>2 DEF Restrict
<1>5. \A s \in DOMAIN batch'.rows : s < nextEntry /\ RowOK(batch'.rows[s], DOMAIN server)
  BY <1>3, <1>4 DEF TypeInv, BatchInv
<1>6. \A s \in DOMAIN batch'.rows : batch'.rows[s] \in Row
  BY <1>5 DEF RowOK
<1>7. PartialTo(batch'.seen, Edits)
  <2>1. DOMAIN batch'.seen = DOMAIN batch.seen \intersect batch.todo
        /\ \A s \in DOMAIN batch'.seen : batch'.seen[s] = batch.seen[s]
    BY <1>2 DEF Restrict
  <2>2. \A s \in DOMAIN batch.seen : batch.seen[s] \in Edits
    BY BatchFields DEF PartialTo, Range
  <2>3. QED
    BY <2>1, <2>2, BatchFields, PartialFunction
<1>8. UNION {batch'.left, batch'.check, batch'.todo, batch'.sending, batch'.unsaved}
        \subseteq Entries
  BY <1>2, BatchFields
<1>9. /\ PartialTo(batch'.answers, Answer) /\ PartialTo(batch'.ids, Ids)
      /\ batch'.kinds \in 0 .. Len(RequestType) /\ DOMAIN batch'.answers = {}
      /\ DOMAIN batch'.ids = {}
  BY <1>2, EmptyPartial, Kinds
<1>10. batch'.reRun \in BOOLEAN
  BY <1>2
<1>11. batch'.missing \in BOOLEAN
  BY <1>2, BatchFields
<1>12. BatchTypeOK'
  <2>1. DOMAIN batch' = DOMAIN IdleBatch /\ batch'.pc \in BatchPc
    BY <1>2 DEF TypeInv, TypeOK, BatchTypeOK, BatchPc
  <2>2. DOMAIN batch'.rows \subseteq Entries
    BY <1>4, BatchFields
  <2>3. QED
    BY <1>6, <1>7, <1>8, <1>9, <1>10, <1>11, <2>1, <2>2, Zenon DEF BatchTypeOK
<1>13. Pending' \subseteq DOMAIN batch'.rows
  BY <1>2, <1>3, <1>4 DEF Pending
<1>14. QED
  BY <1>1, <1>2, <1>3, <1>5, <1>9, <1>12, <1>13 DEF BatchInv

LEMMA BatchStepOK ==
  ASSUME TypeInv, BatchStep, conf.target # "single", UNCHANGED <<conf, up, sync, down>>
  PROVE  TypeInv'
<1>1. Grows /\ RecordsTypeOK' /\ SoupInv' /\ BatchTypeOK' /\ BatchInv'
  <2>1. CASE StartBatchSyncUp
    <3>1. DirtyEntries \in SUBSET Entries
      BY DEF DirtyEntries, TypeInv, TypeOK, RecordsTypeOK
    <3>2. QED
      BY <2>1, <3>1, IdleRecordsOK, BatchIdleOK DEF StartBatchSyncUp
  <2>2. CASE EndBatchSyncUp
    BY <2>2, IdleRecordsOK, BatchEndsOK DEF EndBatchSyncUp
  <2>3. CASE ReadRecords
    BY <2>3, IdleRecordsOK, ReadRecordsOK DEF ReadRecords
  <2>4. CASE CheckModDates
    BY <2>4, IdleRecordsOK, CheckModDatesOK DEF CheckModDates
  <2>5. CASE CheckedModDates
    BY <2>5, IdleRecordsOK, CheckedModDatesOK DEF CheckedModDates
  <2>6. CASE FillBatch
    BY <2>6, IdleRecordsOK, FillBatchOK DEF FillBatch
  <2>7. CASE NextBatch
    BY <2>7, IdleRecordsOK, NextBatchOK DEF NextBatch
  <2>8. QED
    BY <2>1, <2>2, <2>3, <2>4, <2>5, <2>6, <2>7, SendRequestsOK, SaveAnswerOK DEF BatchStep
<1>2. nextEntry' \in Nat
  BY <1>1 DEF RecordsTypeOK
<1>3. UpTypeOK' /\ UpInv' /\ DownTypeOK' /\ DownInv'
  BY <1>1, <1>2, UpFrame, DownFrame DEF TypeInv
<1>4. TargetInv'
  BY DEF TypeInv, TargetInv
<1>5. QED
  BY <1>1, <1>3, <1>4 DEF TypeInv, TypeOK
----------------------------------------------------------------------------
LEMMA CrashOK ==
  ASSUME TypeInv, Crash, conf' = conf
  PROVE  TypeInv'
<1>1. UNCHANGED recordVars /\ UpEnds /\ BatchEnds /\ DownCrash
  BY DEF Crash
<1>2. Grows /\ RecordsTypeOK' /\ SoupInv'
  BY <1>1, IdleRecordsOK
<1>3. UpTypeOK' /\ UpInv' /\ BatchTypeOK' /\ BatchInv'
  BY <1>1, <1>2, UpNextRecordOK, BatchEndsOK
<1>4. sync' \in SyncRow
  BY <1>1 DEF DownCrash, TypeInv, TypeOK, DownTypeOK, SyncRow, Status
<1>5. DownTypeOK' /\ DownInv'
  BY <1>1, <1>4, DownIdleOK DEF DownCrash
<1>6. TargetInv'
  BY <1>1 DEF TargetInv, UpEnds, BatchEnds
<1>7. QED
  BY <1>2, <1>3, <1>5, <1>6 DEF TypeInv, TypeOK

LEMMA NextInv ==
  ASSUME TypeInv, [Next]_vars
  PROVE  TypeInv'
<1>1. CASE Worker /\ UNCHANGED conf
  BY <1>1, UpStepOK, BatchStepOK, DownStepOK DEF Worker
<1>2. CASE (App(Held) \/ Others) /\ UNCHANGED <<up, batch, sync, down>> /\ UNCHANGED conf
  BY <1>2, SurroundingsOK
<1>3. CASE Crash /\ UNCHANGED conf
  BY <1>3, CrashOK
<1>4. CASE UNCHANGED vars
  <2>1. Grows /\ RecordsTypeOK' /\ SoupInv'
    BY <1>4, IdleRecordsOK DEF vars
  <2>2. QED
    BY <1>4, <2>1, RecordsFrame DEF vars
<1>5. QED
  BY <1>1, <1>2, <1>3, <1>4 DEF Next

LEMMA InitRecords ==
  ASSUME Init
  PROVE  RecordsTypeOK /\ SoupInv
<1>1. PICK n \in 0 .. InitialRecords, mod \in [1 .. InitialRecords -> Dates],
           synced \in BOOLEAN :
        /\ server = [i \in 1 .. n |-> [live |-> TRUE, edit |-> i, mod |-> mod[i], key |-> i]]
        /\ \A i \in n + 1 .. InitialRecords : mod[i] = 1
        /\ \A i \in 1 .. n : mod[i] <= 2
        /\ clock = IF \E i \in 1 .. n : mod[i] = 2 THEN 2 ELSE 1
        /\ soup = IF synced THEN [i \in 1 .. n |-> Downloaded(i, server[i])]
                  ELSE [i \in {} |-> 0]
        /\ nextEntry = Cardinality(DOMAIN soup) + 1
        /\ edits = n
        /\ latest = [s \in Entries |-> 0]
        /\ settled = {}
        /\ exposed = {}
  BY Zenon DEF Init, RecordsInit
<1>2. /\ conf \in Confs /\ InitialRecords \in Nat /\ InitialRecords <= MaxEntries
      /\ InitialRecords <= MaxRecords /\ InitialRecords <= MaxEdits
      /\ MaxEntries \in Nat /\ MaxRecords \in Nat /\ MaxEdits \in Nat /\ MaxClock \in Nat \ {0}
  BY BoundsAssumption, ConfsAssumption DEF Init, InitialRecords
<1>3. n \in Nat /\ \A i \in 1 .. n : i \in Entries /\ i \in Ids /\ i \in Edits
                                     /\ mod[i] \in Dates
  BY <1>2 DEF Entries, Ids, Edits
<1>4. DOMAIN server = 1 .. n
      /\ \A i \in 1 .. n : server[i] \in Record
  BY <1>1, <1>3 DEF Record
<1>5. \A i \in 1 .. n : Downloaded(i, server[i]) \in Row
                        /\ RowOK(Downloaded(i, server[i]), DOMAIN server)
  BY <1>3, <1>4 DEF Downloaded, Record, Row, Flag, RowOK, Ids, LocalId
<1>6. clock \in Dates
  BY <1>1, <1>2, <1>3 DEF Dates
<1>7. latest \in [Entries -> Edits \union {0}] /\ edits \in 0 .. MaxEdits
      /\ settled \subseteq Edits /\ exposed \subseteq Edits
  BY <1>1, <1>2, <1>3
<1>8. CASE synced
  <2>1. DOMAIN soup = 1 .. n /\ \A i \in 1 .. n : soup[i] = Downloaded(i, server[i])
    BY <1>1, <1>8
  <2>2. Cardinality(1 .. n) = n
    BY <1>3, FS_Interval
  <2>3. nextEntry = n + 1
    BY <1>1, <2>1, <2>2
  <2>4. nextEntry \in 1 .. MaxEntries + 1 /\ \A i \in 1 .. n : i < nextEntry
    BY <1>2, <1>3, <2>3
  <2>5. QED
    BY <1>2, <1>3, <1>4, <1>5, <1>6, <1>7, <2>1, <2>4 DEF RecordsTypeOK, SoupInv
<1>9. CASE ~synced
  <2>1. DOMAIN soup = {}
    BY <1>1, <1>9
  <2>2. nextEntry = 1
    <3>1. Cardinality(DOMAIN soup) = 0
      BY <2>1, FS_EmptySet
    <3>2. nextEntry = Cardinality(DOMAIN soup) + 1
      BY <1>1
    <3>3. QED
      BY <3>1, <3>2
  <2>3. nextEntry \in 1 .. MaxEntries + 1
    BY <1>2, <2>2
  <2>4. QED
    BY <1>2, <1>3, <1>4, <1>6, <1>7, <2>1, <2>3 DEF RecordsTypeOK, SoupInv
<1>10. QED
  BY <1>8, <1>9

LEMMA InitInv == Init => TypeInv
<1> SUFFICES ASSUME Init PROVE TypeInv
  OBVIOUS
<1>1. RecordsTypeOK /\ SoupInv
  BY InitRecords
<1>2. up = IdleUp /\ batch = IdleBatch /\ down = IdleDown
      /\ sync = [status |-> "NEW", max |-> 0]
  BY DEF Init, UpInit, BatchInit, DownInit
<1>3. UpTypeOK /\ UpInv
  BY <1>2 DEF UpTypeOK, Up, UpPc, Answer, IdleUp, UpInv, InHand
<1>4. BatchTypeOK
  <2>1. UNION {batch.left, batch.check, batch.todo, batch.sending, batch.unsaved} \subseteq Entries
    BY <1>2, IdleBatchFields
  <2>2. batch.missing \in BOOLEAN /\ batch.reRun \in BOOLEAN
    BY <1>2, IdleBatchFields
  <2>3. batch.kinds \in 0 .. Len(RequestType) /\ batch.pc \in BatchPc
    BY <1>2, Kinds, IdleBatchFields DEF BatchPc
  <2>4. DOMAIN batch.rows = {} /\ PartialTo(batch.answers, Answer) /\ PartialTo(batch.ids, Ids)
        /\ PartialTo(batch.seen, Edits)
    BY <1>2, IdleBatchFields, EmptyPartial
  <2>5. QED
    BY <1>2, <2>1, <2>2, <2>3, <2>4, Zenon DEF BatchTypeOK
<1>5. BatchInv
  BY <1>2, IdleBatchFields, EmptyPartial DEF BatchInv, Pending
<1>6. DownTypeOK
  BY <1>2 DEF DownTypeOK, SyncRow, Status, IdleDown, Down, DownPc
<1>7. DownInv
  BY <1>2, FS_EmptySet DEF IdleDown, DownInv
<1>8. TargetInv
  BY <1>2 DEF TargetInv
<1>9. QED
  BY <1>1, <1>3, <1>4, <1>5, <1>6, <1>7, <1>8 DEF TypeInv, TypeOK

\* Whatever the tasks, the application, other clients and a crash do in between,
\* the soup, the records of the server and the state of the tasks keep their
\* shape: every id a task has in hand is one the server has given, every element
\* that has never been sent is flagged as created here.
THEOREM TypeCorrect == Spec => []TypeOK
<1>1. TypeInv /\ [Next]_vars => TypeInv'
  BY NextInv
<1>2. TypeInv => TypeOK
  BY DEF TypeInv
<1>3. QED
  BY InitInv, <1>1, <1>2, PTL DEF Spec
=============================================================================
