------------------------ MODULE MobileSyncKeysProofs ------------------------
(***************************************************************************)
(* The ids and the keys of MobileSync: IdsMatch, IdsAreUnique and          *)
(* OneRecordPerKey.                                                        *)
(*                                                                         *)
(* All three rest on KeyInv.  The key of a record never changes, and every *)
(* place that has a copy of a record, or the id the server gave for one,   *)
(* has the key with it: the soup, the record in hand, the records and the  *)
(* answers of a batch, a page.  IdInv adds that an id has one holder among *)
(* all these places, OneElementPerKey and OneRecord that a key has one     *)
(* element and one record; which of them the code keeps depends on the     *)
(* external id field and on sync downs, and each says for which it speaks. *)
(***************************************************************************)
EXTENDS MobileSyncProofs

\* The id of an element is that of the record made from it, if it has one.
Keyed(row, known) == row.id # LocalId => row.key = known[row.id].key

\* Edits are numbered as they come: the next number is that of no key so far.
Numbered(row, n) == row.key <= n /\ row.edit <= n

\* The server gives the ids 1, 2, ... and keeps the records it has deleted.
ServerKeys ==
    /\ \A i \in DOMAIN server : i <= Cardinality(DOMAIN server)
    /\ \A i \in DOMAIN server : Numbered(server[i], edits)

SoupKeys == \A s \in DOMAIN soup : Keyed(soup[s], server) /\ Numbered(soup[s], edits)

UpKeys ==
    /\ up.pc \in InHand =>
          /\ Keyed(up.row, server) /\ Numbered(up.row, edits)
          /\ up.entry \in DOMAIN soup => soup[up.entry].key = up.row.key
    /\ up.pc = "save" /\ up.answer = "ok" => server[up.id].key = up.row.key

BatchKeys ==
    /\ batch.pc = "idle" => batch.rows = None
    /\ \A s \in DOMAIN batch.rows :
          /\ Keyed(batch.rows[s], server) /\ Numbered(batch.rows[s], edits)
          /\ s \in DOMAIN soup => soup[s].key = batch.rows[s].key
    /\ \A s \in DOMAIN batch.ids :
          s \in DOMAIN batch.rows /\ server[batch.ids[s]].key = batch.rows[s].key

DownKeys ==
    /\ \A x \in down.page \union down.rest :
          x.record.key = server[x.id].key /\ Numbered(x.record, edits)
    /\ \A x, y \in down.page \union down.rest : x.id = y.id => x = y
    /\ down.pc \in {"start", "prepare", "save", "saved", "fetch"} => "down" \in DownRuns

KeyInv == ServerKeys /\ SoupKeys /\ UpKeys /\ BatchKeys /\ DownKeys

\* Without sync downs no element is made but by the application.
OneElementPerKey ==
    "down" \notin DownRuns =>
        /\ \A s, t \in DOMAIN soup : soup[s].key = soup[t].key => s = t
        /\ \A s, t \in DOMAIN batch.rows : batch.rows[s].key = batch.rows[t].key => s = t

\* The element that has id i, or that the task in hand will give it to.
Holds(s, i) ==
    /\ i # LocalId
    /\ \/ s \in DOMAIN soup /\ soup[s].id = i
       \/ up.pc \in InHand /\ s = up.entry /\ up.row.id = i
       \/ up.pc = "save" /\ up.answer = "ok" /\ s = up.entry /\ up.id = i
       \/ s \in DOMAIN batch.rows /\ batch.rows[s].id = i
       \/ s \in DOMAIN batch.ids /\ batch.ids[s] = i

\* Without an external id field each create makes a record with an id of its own.
IdInv ==
    ~ExternalIds => \A i \in Ids : \A s, t \in Entries : Holds(s, i) /\ Holds(t, i) => s = t

OneRecord ==
    ExternalIds /\ (conf.target = "single" \/ "down" \notin DownRuns) =>
        \A i, j \in Live : server[i].key = server[j].key => i = j
----------------------------------------------------------------------------
\* What a step may do to the records a task has a copy of, or the id of.
KeysKept ==
    \A i \in DOMAIN server :
        /\ i \in DOMAIN server' /\ server'[i].key = server[i].key
        /\ server'[i].live => server[i].live

SoupKept ==
    \A s \in DOMAIN soup' : s < nextEntry => s \in DOMAIN soup /\ soup'[s].key = soup[s].key

Keeps == KeysKept /\ SoupKept /\ edits' \in Nat /\ edits <= edits'

LEMMA KeyedStays ==
  ASSUME NEW row, RowOK(row, DOMAIN server), Keyed(row, server), KeysKept
  PROVE  Keyed(row, server')
BY DEF Keyed, RowOK, KeysKept

LEMMA NumberedStays ==
  ASSUME NEW row, row.key \in Nat, row.edit \in Nat, NEW n \in Nat, NEW m \in Nat, n <= m,
         Numbered(row, n)
  PROVE  Numbered(row, m)
BY DEF Numbered

LEMMA RowNumbers ==
  ASSUME NEW row, NEW ids, RowOK(row, ids)
  PROVE  row.key \in Nat /\ row.edit \in Nat
BY BoundsAssumption DEF RowOK, Row, Edits

LEMMA RecordNumbers ==
  ASSUME NEW r \in Record
  PROVE  r.key \in Nat /\ r.edit \in Nat
BY BoundsAssumption DEF Record, Edits

LEMMA EditsNat == TypeInv => edits \in Nat /\ nextEntry \in Nat
BY BoundsAssumption DEF TypeInv, TypeOK, RecordsTypeOK

\* A row that stays as it is keeps its key.
LEMMA RowKeyStays ==
  ASSUME TypeInv, Keeps, NEW row, RowOK(row, DOMAIN server), Keyed(row, server),
         Numbered(row, edits)
  PROVE  Keyed(row, server') /\ Numbered(row, edits')
BY KeyedStays, NumberedStays, RowNumbers, EditsNat DEF Keeps

LEMMA UpKeysFrame ==
  ASSUME TypeInv, UpKeys, Keeps, up' = up
  PROVE  UpKeys'
<1>1. ASSUME up.pc \in InHand
      PROVE  /\ Keyed(up.row, server') /\ Numbered(up.row, edits')
             /\ up.entry \in DOMAIN soup' => soup'[up.entry].key = up.row.key
  <2>1. RowOK(up.row, DOMAIN server) /\ up.entry < nextEntry
    BY <1>1 DEF TypeInv, UpInv
  <2>2. Keyed(up.row, server') /\ Numbered(up.row, edits')
    BY <1>1, <2>1, RowKeyStays DEF UpKeys
  <2>3. QED
    BY <1>1, <2>1, <2>2 DEF UpKeys, Keeps, SoupKept
<1>2. ASSUME up.pc = "save", up.answer = "ok" PROVE server'[up.id].key = up.row.key
  BY <1>2 DEF UpKeys, Keeps, KeysKept, TypeInv, UpInv
<1>3. QED
  BY <1>1, <1>2 DEF UpKeys

LEMMA BatchKeysFrame ==
  ASSUME TypeInv, BatchKeys, Keeps, batch' = batch
  PROVE  BatchKeys'
<1>1. ASSUME NEW s \in DOMAIN batch.rows
      PROVE  /\ Keyed(batch.rows[s], server') /\ Numbered(batch.rows[s], edits')
             /\ s \in DOMAIN soup' => soup'[s].key = batch.rows[s].key
  <2>1. RowOK(batch.rows[s], DOMAIN server) /\ s < nextEntry
    BY DEF TypeInv, BatchInv
  <2>2. Keyed(batch.rows[s], server') /\ Numbered(batch.rows[s], edits')
    BY <2>1, RowKeyStays DEF BatchKeys
  <2>3. QED
    BY <2>1, <2>2 DEF BatchKeys, Keeps, SoupKept
<1>2. ASSUME NEW s \in DOMAIN batch.ids
      PROVE  s \in DOMAIN batch.rows /\ server'[batch.ids[s]].key = batch.rows[s].key
  BY DEF BatchKeys, Keeps, KeysKept, TypeInv, BatchInv
<1>3. QED
  BY <1>1, <1>2 DEF BatchKeys

\* A record a page has brought keeps its key, which is that of the server.
LEMMA SentKeyStays ==
  ASSUME TypeInv, Keeps, NEW x \in down.page \union down.rest,
         x.record.key = server[x.id].key, Numbered(x.record, edits)
  PROVE  x.record.key = server'[x.id].key /\ Numbered(x.record, edits')
<1>1. x.id \in DOMAIN server /\ x.record \in Record
  BY DEF TypeInv, DownInv, TypeOK, DownTypeOK, Down, Sent
<1>2. x.record.key = server'[x.id].key
  BY <1>1 DEF Keeps, KeysKept
<1>3. QED
  BY <1>1, <1>2, RecordNumbers, NumberedStays, EditsNat DEF Keeps

LEMMA DownKeysFrame ==
  ASSUME TypeInv, DownKeys, Keeps, down' = down, conf' = conf
  PROVE  DownKeys'
BY SentKeyStays DEF DownKeys, DownRuns

\* The soup, when it stays as it is.
LEMMA SoupKeysFrame ==
  ASSUME TypeInv, SoupKeys, Keeps, soup' = soup
  PROVE  SoupKeys'
BY RowKeyStays DEF TypeInv, SoupInv, SoupKeys

LEMMA IdleKeeps ==
  ASSUME TypeInv, UNCHANGED recordVars
  PROVE  Keeps
BY EditsNat DEF recordVars, Keeps, KeysKept, SoupKept

LEMMA ServerKeysFrame ==
  ASSUME TypeInv, ServerKeys, Keeps, server' = server
  PROVE  ServerKeys'
<1>1. \A i \in DOMAIN server : Numbered(server[i], edits')
  BY RecordNumbers, NumberedStays, EditsNat
     DEF Keeps, ServerKeys, TypeInv, TypeOK, RecordsTypeOK
<1>2. QED
  BY <1>1 DEF ServerKeys
----------------------------------------------------------------------------
\* The ids of the server.
LEMMA ServerFinite ==
  ASSUME TypeInv
  PROVE  IsFiniteSet(DOMAIN server) /\ Cardinality(DOMAIN server) \in Nat
<1>1. IsFiniteSet(Ids) /\ DOMAIN server \in SUBSET Ids
  BY FS_Interval, BoundsAssumption DEF Ids, TypeInv, TypeOK, RecordsTypeOK
<1>2. IsFiniteSet(DOMAIN server)
  BY <1>1, FS_Subset
<1>3. QED
  BY <1>2, FS_CardinalityType

LEMMA UnusedIds ==
  ASSUME TypeInv, ServerKeys, NEW i \in UnusedId
  PROVE  /\ i \notin DOMAIN server /\ i \in Ids
         /\ i = Cardinality(DOMAIN server) + 1
         /\ Cardinality(DOMAIN server \union {i}) = i
<1>1. i \in Ids /\ i = Cardinality(DOMAIN server) + 1
  BY DEF UnusedId
<1>2. i \notin DOMAIN server
  BY <1>1, ServerFinite DEF ServerKeys
<1>3. QED
  BY <1>1, <1>2, ServerFinite, FS_AddElement

\* One record is written: one that is there, or the next.
LEMMA ServerWritesKeys ==
  ASSUME TypeInv, ServerKeys, NEW i \in Ids, NEW r \in Record, NEW t \in Ticks,
         ServerWrites(i, r, t), edits' \in Nat, edits <= edits', Numbered(r, edits'),
         \/ i \in DOMAIN server /\ r.key = server[i].key /\ (r.live => server[i].live)
         \/ i \in UnusedId
  PROVE  KeysKept /\ ServerKeys' /\ server'[i].key = r.key
<1>1. /\ DOMAIN server' = DOMAIN server \union {i}
      /\ \A j \in DOMAIN server : j # i => server'[j] = server[j]
      /\ server'[i] = [r EXCEPT !.mod = t]
  BY ServerWritesOK DEF TypeInv, TypeOK
<1>2. server'[i].key = r.key /\ server'[i].edit = r.edit /\ server'[i].live = r.live
  BY <1>1 DEF Record
<1>3. KeysKept
  BY <1>1, <1>2, UnusedIds DEF KeysKept
<1>4. \A j \in DOMAIN server' : j <= Cardinality(DOMAIN server')
  <2>1. CASE i \in DOMAIN server
    <3>1. DOMAIN server' = DOMAIN server
      BY <1>1, <2>1
    <3>2. QED
      BY <3>1 DEF ServerKeys
  <2>2. CASE i \in UnusedId
    <3>1. Cardinality(DOMAIN server') = i /\ i = Cardinality(DOMAIN server) + 1
      BY <1>1, <2>2, UnusedIds
    <3>2. \A j \in DOMAIN server : j \in Nat /\ j <= Cardinality(DOMAIN server)
      BY DEF ServerKeys, TypeInv, TypeOK, RecordsTypeOK, Ids
    <3>3. QED
      BY <1>1, <3>1, <3>2, ServerFinite
  <2>3. QED
    BY <2>1, <2>2
<1>5. ASSUME NEW j \in DOMAIN server' PROVE Numbered(server'[j], edits')
  <2>1. CASE j = i
    BY <1>2, <2>1 DEF Numbered
  <2>2. CASE j # i
    <3>1. j \in DOMAIN server /\ server'[j] = server[j] /\ server[j] \in Record
      BY <1>1, <2>2 DEF TypeInv, TypeOK, RecordsTypeOK
    <3>2. QED
      BY <3>1, RecordNumbers, NumberedStays, EditsNat DEF ServerKeys
  <2>3. QED
    BY <2>1, <2>2
<1>6. QED
  BY <1>2, <1>3, <1>4, <1>5 DEF ServerKeys
----------------------------------------------------------------------------
\* The application and the other clients.

\* The tasks stay as they are.
LEMMA KeysFrame ==
  ASSUME TypeInv, KeyInv, Keeps, ServerKeys', SoupKeys', UNCHANGED <<conf, up, batch, down>>
  PROVE  KeyInv'
BY UpKeysFrame, BatchKeysFrame, DownKeysFrame DEF KeyInv

LEMMA AppWritesKeys ==
  ASSUME TypeInv, KeyInv, NEW s \in Entries, NEW row, NEW held, AppWrites(s, row, held),
         RowOK(row, DOMAIN server), edits' = edits + 1, row.key <= edits', Keyed(row, server),
         s = nextEntry \/ (s \in DOMAIN soup /\ row.key = soup[s].key)
  PROVE  Keeps /\ ServerKeys' /\ SoupKeys'
<1> DEFINE new == [row EXCEPT !.edit = edits']
<1>1. edits \in Nat /\ edits' \in Nat /\ edits <= edits' /\ nextEntry \in Nat
  BY EditsNat
<1>2. new.key = row.key /\ new.id = row.id /\ new.edit = edits'
  BY DEF RowOK, Row
<1>3. soup' = With(soup, s, new) /\ server' = server
  BY DEF AppWrites
<1>4. Keyed(new, server) /\ Numbered(new, edits')
  BY <1>1, <1>2 DEF Keyed, Numbered
<1> HIDE DEF new
<1>5. DOMAIN soup' = DOMAIN soup \union {s} /\ soup'[s] = new
      /\ \A y \in DOMAIN soup : y # s => soup'[y] = soup[y]
  BY <1>3 DEF With
<1>6. SoupKept
  BY <1>1, <1>2, <1>5 DEF SoupKept
<1>7. KeysKept
  BY <1>3 DEF KeysKept
<1>8. Keeps
  BY <1>1, <1>6, <1>7 DEF Keeps
<1>9. ASSUME NEW y \in DOMAIN soup' PROVE Keyed(soup'[y], server') /\ Numbered(soup'[y], edits')
  <2>1. CASE y = s
    BY <1>3, <1>4, <1>5, <2>1
  <2>2. CASE y # s
    <3>1. y \in DOMAIN soup /\ soup'[y] = soup[y]
      BY <1>5, <2>2
    <3>2. QED
      BY <1>8, <3>1, RowKeyStays DEF KeyInv, SoupKeys, TypeInv, SoupInv
  <2>3. QED
    BY <2>1, <2>2
<1>10. QED
  BY <1>3, <1>8, <1>9, ServerKeysFrame DEF SoupKeys, KeyInv

LEMMA AppKeys ==
  ASSUME TypeInv, KeyInv, NEW held, App(held), conf' = conf
  PROVE  Keeps /\ ServerKeys' /\ SoupKeys'
<1>1. CASE AppCreate
  <2> DEFINE row == [id |-> LocalId, edit |-> edits', mod |-> NoDate, key |-> edits',
                     flags |-> {"created"}]
  <2>1. edits' = edits + 1 /\ edits' \in Edits
    BY <1>1, NewEditOK DEF AppCreate, TypeInv, TypeOK
  <2>2. RowOK(row, DOMAIN server)
    BY <2>1 DEF RowOK, Row, Flag
  <2>3. row.key <= edits' /\ Keyed(row, server)
    BY <2>1, EditsNat DEF Keyed
  <2> HIDE DEF row
  <2>4. AppWrites(nextEntry, row, {}) /\ nextEntry \in Entries
    BY <1>1, Bounds DEF AppCreate, row, TypeInv, TypeOK, RecordsTypeOK, Entries
  <2>5. QED
    BY <2>1, <2>2, <2>3, <2>4, AppWritesKeys
<1>2. ASSUME NEW flag \in Flag, NEW op, AppFlags(flag, op, held)
      PROVE  Keeps /\ ServerKeys' /\ SoupKeys'
  <2>1. edits' = edits + 1
    BY <1>2, NewEditOK DEF AppFlags, TypeInv, TypeOK
  <2>2. PICK s \in DOMAIN soup :
           AppWrites(s, [soup[s] EXCEPT !.flags = @ \union {flag}], held)
    BY <1>2 DEF AppFlags
  <2> DEFINE row == [soup[s] EXCEPT !.flags = @ \union {flag}]
  <2>3. s \in Entries /\ RowOK(soup[s], DOMAIN server)
    BY DEF TypeInv, SoupInv, TypeOK, RecordsTypeOK
  <2>4. RowOK(row, DOMAIN server) /\ row.key = soup[s].key /\ row.id = soup[s].id
    BY <2>3 DEF RowOK, Row
  <2> HIDE DEF row
  <2>5. Keyed(row, server) /\ row.key <= edits'
    <3>1. Keyed(soup[s], server) /\ soup[s].key <= edits /\ soup[s].key \in Nat
      BY <2>3, RowNumbers DEF KeyInv, SoupKeys, Numbered
    <3>2. QED
      BY <2>1, <2>4, <3>1, EditsNat DEF Keyed
  <2>6. AppWrites(s, row, held)
    BY <2>2 DEF row
  <2>7. QED
    BY <2>1, <2>3, <2>4, <2>5, <2>6, AppWritesKeys
<1>3. CASE AppPurge
  <2>1. DOMAIN soup' \subseteq DOMAIN soup /\ \A y \in DOMAIN soup' : soup'[y] = soup[y]
    BY <1>3 DEF AppPurge, Without
  <2>2. server' = server /\ edits' = edits
    BY <1>3 DEF AppPurge
  <2>3. Keeps
    BY <2>1, <2>2, EditsNat DEF Keeps, KeysKept, SoupKept
  <2>4. QED
    BY <2>1, <2>2, <2>3, ServerKeysFrame DEF KeyInv, SoupKeys
<1>4. QED
  BY <1>1, <1>2, <1>3 DEF App, AppUpdate, AppDelete, Flag

LEMMA OtherWritesKeys ==
  ASSUME TypeInv, KeyInv, NEW op, NEW i \in Ids, NEW r \in Record, OtherWrites(op, i, r),
         r.edit = edits + 1, r.key <= edits + 1,
         \/ i \in DOMAIN server /\ r.key = server[i].key /\ (r.live => server[i].live)
         \/ i \in UnusedId
  PROVE  Keeps /\ ServerKeys' /\ SoupKeys'
<1>1. edits' = edits + 1 /\ edits' \in Nat /\ edits <= edits'
  BY NewEditOK, EditsNat DEF OtherWrites, TypeInv, TypeOK
<1>2. PICK t \in Ticks : ServerWrites(i, r, t)
  BY DEF OtherWrites
<1>3. Numbered(r, edits')
  BY <1>1 DEF Numbered
<1>4. KeysKept /\ ServerKeys'
  BY <1>1, <1>2, <1>3, ServerWritesKeys DEF KeyInv
<1>5. soup' = soup /\ SoupKept
  BY DEF OtherWrites, SoupKept
<1>6. Keeps
  BY <1>1, <1>4, <1>5 DEF Keeps
<1>7. QED
  BY <1>4, <1>5, <1>6, SoupKeysFrame DEF KeyInv

LEMMA OthersKeys ==
  ASSUME TypeInv, KeyInv, Others
  PROVE  Keeps /\ ServerKeys' /\ SoupKeys'
<1>1. \A i \in Live : i \in Ids /\ i \in DOMAIN server /\ server[i] \in Record
                      /\ server[i].live /\ server[i].key <= edits /\ server[i].key \in Nat
  BY RecordNumbers DEF Live, TypeInv, TypeOK, RecordsTypeOK, KeyInv, ServerKeys, Numbered
<1>2. CASE OtherCreate
  <2> DEFINE r == [live |-> TRUE, edit |-> edits + 1, mod |-> clock, key |-> edits + 1]
  <2>1. PICK i \in UnusedId : OtherWrites("other_create", i, r)
    BY <1>2 DEF OtherCreate
  <2>2. edits + 1 \in Edits /\ clock \in Dates /\ i \in Ids
    BY <2>1, NewEditOK DEF OtherWrites, UnusedId, TypeInv, TypeOK, RecordsTypeOK
  <2>3. r \in Record /\ r.edit = edits + 1 /\ r.key <= edits + 1
    BY <2>2, EditsNat DEF Record
  <2> HIDE DEF r
  <2>4. QED
    BY <2>1, <2>2, <2>3, OtherWritesKeys
<1>3. CASE OtherUpdate
  <2>1. PICK i \in Live : OtherWrites("other_update", i, [server[i] EXCEPT !.edit = edits + 1])
    BY <1>3 DEF OtherUpdate
  <2> DEFINE r == [server[i] EXCEPT !.edit = edits + 1]
  <2>2. edits + 1 \in Edits
    BY <2>1, NewEditOK DEF OtherWrites, TypeInv, TypeOK
  <2>3. r \in Record /\ r.key = server[i].key /\ r.edit = edits + 1 /\ r.live = server[i].live
    BY <1>1, <2>2 DEF Record
  <2> HIDE DEF r
  <2>4. OtherWrites("other_update", i, r)
    BY <2>1 DEF r
  <2>5. r.key <= edits + 1
    BY <1>1, <2>3, EditsNat
  <2>6. QED
    BY <1>1, <2>3, <2>4, <2>5, OtherWritesKeys
<1>4. CASE OtherDelete
  <2>1. PICK i \in Live : OtherWrites("other_delete", i, [server[i] EXCEPT !.live = FALSE])
    BY <1>4 DEF OtherDelete
  <2> DEFINE r == [server[i] EXCEPT !.live = FALSE]
  <2>2. r \in Record /\ r.key = server[i].key /\ r.edit = server[i].edit /\ r.live = FALSE
    BY <1>1 DEF Record
  <2> HIDE DEF r
  <2>3. PICK t \in Ticks : ServerWrites(i, r, t)
    BY <2>1 DEF OtherWrites, r
  <2>4. edits' = edits + 1 /\ edits' \in Nat /\ edits <= edits' /\ soup' = soup
    BY <2>1, NewEditOK, EditsNat DEF OtherWrites, TypeInv, TypeOK
  <2>5. Numbered(r, edits')
    <3>1. Numbered(server[i], edits) /\ server[i].edit \in Nat
      BY <1>1, RecordNumbers DEF KeyInv, ServerKeys
    <3>2. QED
      BY <1>1, <2>2, <2>4, <3>1, EditsNat DEF Numbered
  <2>6. KeysKept /\ ServerKeys'
    BY <1>1, <2>2, <2>3, <2>4, <2>5, ServerWritesKeys DEF KeyInv
  <2>7. Keeps
    BY <2>4, <2>6 DEF Keeps, SoupKept
  <2>8. QED
    BY <2>4, <2>6, <2>7, SoupKeysFrame DEF KeyInv
<1>5. QED
  BY <1>2, <1>3, <1>4 DEF Others
----------------------------------------------------------------------------
\* A sync up that takes its records one by one.

LEMMA RestKeys ==
  ASSUME NEW left, up' = Rest(left)
  PROVE  UpKeys'
<1>1. up' = [pc |-> "next", left |-> left, entry |-> 0, row |-> [flags |-> {}],
             answer |-> "ok", id |-> LocalId, seen |-> 0]
  BY DEF Rest, IdleUp
<1>2. QED
  BY <1>1 DEF UpKeys, InHand

LEMMA UpFreeKeys ==
  ASSUME UpNextRecord \/ UpEnds
  PROVE  UpKeys'
<1>1. CASE UpEnds
  BY <1>1 DEF UpEnds, IdleUp, UpKeys, InHand
<1>2. CASE UpNextRecord
  BY <1>2, RestKeys DEF UpNextRecord
<1>3. QED
  BY <1>1, <1>2

LEMMA AnsweredKeys ==
  ASSUME TypeInv, UpKeys, Keeps, up.pc \in InHand, NEW answer, NEW id, Answered(answer, id),
         answer = "ok" => server'[id].key = up.row.key, soup' = soup
  PROVE  UpKeys'
<1>1. up' = [up EXCEPT !.pc = "save", !.answer = answer, !.id = id] /\ up \in Up
  BY DEF Answered, TypeInv, TypeOK, UpTypeOK
<1>2. up'.pc = "save" /\ up'.answer = answer /\ up'.id = id
      /\ up'.entry = up.entry /\ up'.row = up.row
  BY <1>1 DEF Up
<1>3. RowOK(up.row, DOMAIN server)
  BY DEF TypeInv, UpInv
<1>4. Keyed(up.row, server') /\ Numbered(up.row, edits')
  BY <1>3, RowKeyStays DEF UpKeys
<1>5. QED
  BY <1>2, <1>4 DEF UpKeys

\* A request that creates the record in hand, in one with its key or in a new one.
LEMMA CreatedKey ==
  ASSUME TypeInv, KeyInv, NEW row, NEW i \in Created(row)
  PROVE  \/ i \in DOMAIN server /\ server[i].key = row.key /\ server[i].live
         \/ i \in UnusedId
BY DEF Created, Live

LEMMA ServerStepKeys ==
  ASSUME TypeInv, KeyInv, NEW i \in Ids, NEW r \in Record, NEW t \in Ticks,
         ServerWrites(i, r, t), Numbered(r, edits),
         \/ i \in DOMAIN server /\ r.key = server[i].key /\ (r.live => server[i].live)
         \/ i \in UnusedId,
         UNCHANGED <<soup, edits>>
  PROVE  Keeps /\ ServerKeys' /\ SoupKeys' /\ server'[i].key = r.key
<1>1. edits' \in Nat /\ edits <= edits' /\ Numbered(r, edits')
  BY EditsNat
<1>2. KeysKept /\ ServerKeys' /\ server'[i].key = r.key
  BY <1>1, ServerWritesKeys DEF KeyInv
<1>3. Keeps
  BY <1>1, <1>2 DEF Keeps, SoupKept
<1>4. QED
  BY <1>2, <1>3, SoupKeysFrame DEF KeyInv

LEMMA NoServerStepKeys ==
  ASSUME TypeInv, KeyInv, UNCHANGED <<soup, edits, server>>
  PROVE  Keeps /\ ServerKeys' /\ SoupKeys'
<1>1. Keeps
  BY EditsNat DEF Keeps, KeysKept, SoupKept
<1>2. QED
  BY <1>1, ServerKeysFrame, SoupKeysFrame DEF KeyInv

LEMMA CreateOnServerKeys ==
  ASSUME TypeInv, KeyInv, CreateOnServer
  PROVE  Keeps /\ ServerKeys' /\ SoupKeys' /\ UpKeys'
<1>1. UNCHANGED <<soup, edits>> /\ up.pc \in InHand
  BY DEF CreateOnServer, InHand
<1>2. up.row \in Row /\ Numbered(up.row, edits) /\ UpKeys
  BY <1>1, UpRecordOK DEF KeyInv, UpKeys
<1>3. ASSUME NEW i \in Created(up.row), NEW t \in Ticks,
             ServerWrites(i, [live |-> TRUE, edit |-> up.row.edit, mod |-> t,
                              key |-> up.row.key], t),
             Accepted(i)
      PROVE  Keeps /\ ServerKeys' /\ SoupKeys' /\ UpKeys'
  <2> DEFINE r == [live |-> TRUE, edit |-> up.row.edit, mod |-> t, key |-> up.row.key]
  <2>1. t \in Dates /\ i \in Ids
    BY Bounds DEF Ticks, Dates, Created, UnusedId, Live, TypeInv, TypeOK, RecordsTypeOK
  <2>2. r \in Record /\ r.key = up.row.key /\ Numbered(r, edits)
    BY <1>2, <2>1 DEF Record, Row, Numbered
  <2>3. \/ i \in DOMAIN server /\ up.row.key = server[i].key /\ server[i].live
        \/ i \in UnusedId
    BY CreatedKey
  <2> HIDE DEF r
  <2>4. ServerWrites(i, r, t)
    BY <1>3 DEF r
  <2>5. Keeps /\ ServerKeys' /\ SoupKeys' /\ server'[i].key = up.row.key
    BY <1>1, <2>1, <2>2, <2>3, <2>4, ServerStepKeys
  <2>6. Answered("ok", i) \/ UpEnds
    BY <1>3 DEF Accepted
  <2>7. QED
    BY <1>1, <1>2, <2>5, <2>6, AnsweredKeys, UpFreeKeys
<1>4. CASE UNCHANGED server /\ (Answered("refused", LocalId) \/ UpNextRecord \/ UpEnds)
  <2>1. Keeps /\ ServerKeys' /\ SoupKeys'
    BY <1>1, <1>4, NoServerStepKeys
  <2>2. QED
    BY <1>1, <1>2, <1>4, <2>1, AnsweredKeys, UpFreeKeys
<1>5. QED
  BY <1>3, <1>4 DEF CreateOnServer, Refused, Unchanged

LEMMA UpdateOnServerKeys ==
  ASSUME TypeInv, KeyInv, UpdateOnServer
  PROVE  Keeps /\ ServerKeys' /\ SoupKeys' /\ UpKeys'
<1> DEFINE i == up.row.id
<1>1. UNCHANGED <<soup, edits>> /\ up.pc = "send" /\ up.pc \in InHand
      /\ Wants(up.row, "update")
  BY DEF UpdateOnServer, InHand
<1>2. i \in DOMAIN server
  BY <1>1, WantedId DEF Wants
<1>3. i # LocalId
  BY <1>2 DEF TypeInv, TypeOK, RecordsTypeOK, Ids, LocalId
<1>4. up.row \in Row /\ Numbered(up.row, edits) /\ UpKeys /\ server[i].key = up.row.key
  BY <1>1, <1>3, UpRecordOK DEF KeyInv, UpKeys, Keyed
<1> HIDE DEF i
<1>5. i \in Ids /\ server[i] \in Record
  BY <1>2, ServerRecordOK
<1>6. ASSUME NEW t \in Ticks, ServerWrites(i, [server[i] EXCEPT !.edit = up.row.edit], t),
             Accepted(i)
      PROVE  Keeps /\ ServerKeys' /\ SoupKeys' /\ UpKeys'
  <2> DEFINE r == [server[i] EXCEPT !.edit = up.row.edit]
  <2>1. r \in Record /\ r.key = server[i].key /\ r.live = server[i].live
        /\ Numbered(r, edits)
    BY <1>4, <1>5 DEF Record, Row, Numbered
  <2> HIDE DEF r
  <2>2. ServerWrites(i, r, t)
    BY <1>6 DEF r
  <2>3. Keeps /\ ServerKeys' /\ SoupKeys' /\ server'[i].key = r.key
    BY <1>1, <1>2, <1>5, <2>1, <2>2, ServerStepKeys
  <2>4. Answered("ok", i) \/ UpEnds
    BY <1>6 DEF Accepted
  <2>5. QED
    BY <1>1, <1>4, <2>1, <2>3, <2>4, AnsweredKeys, UpFreeKeys
<1>7. CASE UNCHANGED server /\ (Answered("refused", LocalId) \/ UpNextRecord \/ UpEnds)
  <2>1. Keeps /\ ServerKeys' /\ SoupKeys'
    BY <1>1, <1>7, NoServerStepKeys
  <2>2. QED
    BY <1>1, <1>4, <1>7, <2>1, AnsweredKeys, UpFreeKeys
<1>8. CASE UNCHANGED server /\ up' = [up EXCEPT !.pc = "recreate"]
  <2>1. Keeps /\ ServerKeys' /\ SoupKeys'
    BY <1>1, <1>8, NoServerStepKeys
  <2>2. up'.pc = "recreate" /\ up'.entry = up.entry /\ up'.row = up.row
    BY <1>8 DEF TypeInv, TypeOK, UpTypeOK, Up
  <2>3. UpKeys'
    BY <1>1, <1>4, <1>8, <2>2, EditsNat DEF UpKeys, InHand
  <2>4. QED
    BY <2>1, <2>3
<1>9. QED
  BY <1>6, <1>7, <1>8 DEF UpdateOnServer, Refused, Unchanged, i

LEMMA DeleteOnServerKeys ==
  ASSUME TypeInv, KeyInv, DeleteOnServer
  PROVE  Keeps /\ ServerKeys' /\ SoupKeys' /\ UpKeys'
<1> DEFINE i == up.row.id
<1>1. UNCHANGED <<soup, edits>> /\ up.pc = "send" /\ up.pc \in InHand /\ UpKeys
  BY DEF DeleteOnServer, InHand, KeyInv
<1>2. ASSUME "created" \notin up.row.flags, NEW t \in Ticks,
             ServerWrites(i, [server[i] EXCEPT !.live = FALSE], t), Accepted(i)
      PROVE  Keeps /\ ServerKeys' /\ SoupKeys' /\ UpKeys'
  <2> DEFINE r == [server[i] EXCEPT !.live = FALSE]
  <2>1. i \in DOMAIN server
    BY <1>1, <1>2, WantedId
  <2>2. i # LocalId /\ i \in Ids /\ server[i] \in Record
    BY <2>1, ServerRecordOK DEF Ids, LocalId
  <2>3. server[i].key = up.row.key
    BY <1>1, <2>2 DEF UpKeys, Keyed
  <2> HIDE DEF i
  <2>4. r \in Record /\ r.key = server[i].key /\ r.live = FALSE /\ Numbered(r, edits)
    BY <2>1, <2>2 DEF Record, Numbered, KeyInv, ServerKeys
  <2> HIDE DEF r
  <2>5. ServerWrites(i, r, t)
    BY <1>2 DEF r
  <2>6. Keeps /\ ServerKeys' /\ SoupKeys' /\ server'[i].key = r.key
    BY <1>1, <2>1, <2>2, <2>4, <2>5, ServerStepKeys
  <2>7. Answered("ok", i) \/ UpEnds
    BY <1>2 DEF Accepted
  <2>8. QED
    BY <1>1, <2>3, <2>4, <2>6, <2>7, AnsweredKeys, UpFreeKeys
<1>3. CASE UNCHANGED server /\ (Answered("refused", LocalId) \/ Answered("gone", LocalId)
                                \/ UpNextRecord \/ UpEnds)
  <2>1. Keeps /\ ServerKeys' /\ SoupKeys'
    BY <1>1, <1>3, NoServerStepKeys
  <2>2. QED
    BY <1>1, <1>3, <2>1, AnsweredKeys, UpFreeKeys
<1>4. QED
  BY <1>2, <1>3 DEF DeleteOnServer, Refused, Unchanged

\* An element is saved with its key, or removed.
LEMMA SavesKeys ==
  ASSUME TypeInv, KeyInv, UNCHANGED <<server, edits>>,
         NEW s, NEW row, Keyed(row, server), Numbered(row, edits),
         s \in DOMAIN soup => soup[s].key = row.key,
         \/ soup' = soup
         \/ s \in DOMAIN soup /\ soup' = With(soup, s, row)
         \/ soup' = Without(soup, {s})
  PROVE  Keeps /\ ServerKeys' /\ SoupKeys'
<1>1. DOMAIN soup' \subseteq DOMAIN soup
  BY DEF With, Without
<1>2. \A y \in DOMAIN soup' : soup'[y] = soup[y] \/ (soup'[y] = row /\ row.key = soup[y].key)
  BY DEF With, Without
<1>3. Keeps
  BY <1>1, <1>2, EditsNat DEF Keeps, KeysKept, SoupKept
<1>4. SoupKeys'
  BY <1>1, <1>2 DEF KeyInv, SoupKeys
<1>5. QED
  BY <1>3, <1>4, ServerKeysFrame DEF KeyInv

LEMMA SaveRecordKeys ==
  ASSUME TypeInv, KeyInv, SaveRecord
  PROVE  Keeps /\ ServerKeys' /\ SoupKeys' /\ UpKeys'
<1> DEFINE clean == [up.row EXCEPT !.flags = {}, !.id = up.id]
           s == up.entry
<1>1. /\ UNCHANGED <<server, edits>> /\ up.pc = "save" /\ up.pc \in InHand
      /\ UpNextRecord /\ soup' = Saved
  BY DEF SaveRecord, InHand
<1>2. up.row \in Row /\ up.answer \in Answer
      /\ Keyed(up.row, server) /\ Numbered(up.row, edits)
      /\ (s \in DOMAIN soup => soup[s].key = up.row.key)
  BY <1>1, UpRecordOK DEF KeyInv, UpKeys, TypeInv, TypeOK, UpTypeOK, Up
<1>3. CASE soup' = soup \/ (s \in DOMAIN soup /\ soup' = With(soup, s, up.row))
           \/ soup' = Without(soup, {s})
  BY <1>1, <1>2, <1>3, SavesKeys, UpFreeKeys
<1>4. CASE up.answer # "refused" /\ ~Wants(up.row, "delete") /\ s \in DOMAIN soup
           /\ soup' = With(soup, s, clean)
  <2>1. server[up.id].key = up.row.key
    BY <1>1, <1>2, <1>4 DEF KeyInv, UpKeys, TypeInv, UpInv, Answer, Wants
  <2>2. clean.key = up.row.key /\ clean.id = up.id /\ clean.edit = up.row.edit
    BY <1>2 DEF Row
  <2>3. Keyed(clean, server) /\ Numbered(clean, edits)
    BY <1>2, <2>1, <2>2 DEF Keyed, Numbered
  <2> HIDE DEF clean
  <2>4. QED
    BY <1>1, <1>2, <1>4, <2>2, <2>3, SavesKeys, UpFreeKeys
<1>5. QED
  BY <1>1, <1>3, <1>4 DEF Saved

LEMMA UpReadsKeys ==
  ASSUME TypeInv, KeyInv, StartSyncUp \/ EndSyncUp \/ ReadRecord \/ CheckModDate
  PROVE  UNCHANGED recordVars /\ UpKeys'
<1>1. UNCHANGED recordVars
  BY DEF StartSyncUp, EndSyncUp, ReadRecord, CheckModDate
<1>2. UNCHANGED <<soup, server, edits>>
  BY <1>1 DEF recordVars
<1> SUFFICES UpKeys'
  BY <1>1
<1>3. CASE StartSyncUp \/ EndSyncUp
  BY <1>3, RestKeys, UpFreeKeys DEF StartSyncUp, EndSyncUp
<1>4. CASE ReadRecord
  <2> DEFINE s == Min(up.left)
             pc == IF UpMergeMode = "LEAVE_IF_CHANGED" /\ "created" \notin soup[s].flags
                   THEN "check" ELSE "send"
  <2>1. CASE up' = IdleUp
    BY <2>1, UpFreeKeys DEF UpEnds
  <2>2. CASE s \in DOMAIN soup /\ up' = [up EXCEPT !.pc = pc, !.left = @ \ {s}, !.entry = s,
                                                   !.row = soup[s]]
    <3>1. pc \in {"check", "send"}
      OBVIOUS
    <3> HIDE DEF s, pc
    <3>2. up'.pc = pc /\ up'.entry = s /\ up'.row = soup[s]
      BY <2>2 DEF TypeInv, TypeOK, UpTypeOK, Up
    <3>3. QED
      BY <1>2, <2>2, <3>1, <3>2 DEF KeyInv, SoupKeys, UpKeys
  <2>3. QED
    BY <1>4, <2>1, <2>2 DEF ReadRecord
<1>5. CASE CheckModDate
  <2>1. CASE UpNextRecord \/ UpEnds
    BY <2>1, UpFreeKeys
  <2>2. CASE up' = [up EXCEPT !.pc = "send", !.seen = server[up.row.id].edit]
    <3>1. up.pc = "check"
      BY <1>5 DEF CheckModDate
    <3>2. up'.pc = "send" /\ up'.entry = up.entry /\ up'.row = up.row
      BY <2>2 DEF TypeInv, TypeOK, UpTypeOK, Up
    <3>3. QED
      BY <1>2, <3>1, <3>2 DEF KeyInv, UpKeys, InHand
  <2>3. QED
    BY <1>5, <2>1, <2>2 DEF CheckModDate
<1>6. QED
  BY <1>1, <1>3, <1>4, <1>5

LEMMA UpStepKeys ==
  ASSUME TypeInv, KeyInv, UpStep, UNCHANGED <<conf, batch, down>>
  PROVE  KeyInv' /\ Keeps
<1>1. Keeps /\ ServerKeys' /\ SoupKeys' /\ UpKeys'
  <2>1. CASE StartSyncUp \/ EndSyncUp \/ ReadRecord \/ CheckModDate
    <3>1. UNCHANGED <<soup, edits, server>> /\ UpKeys'
      BY <2>1, UpReadsKeys DEF recordVars
    <3>2. QED
      BY <3>1, NoServerStepKeys
  <2>2. QED
    BY <2>1, CreateOnServerKeys, UpdateOnServerKeys, DeleteOnServerKeys, SaveRecordKeys
       DEF UpStep
<1>2. QED
  BY <1>1, BatchKeysFrame, DownKeysFrame DEF KeyInv
----------------------------------------------------------------------------
\* A sync down, and a removal of ghosts.

DownPhases == {"start", "prepare", "save", "saved", "fetch"}

LEMMA DownFreeKeys ==
  ASSUME down' = IdleDown \/ (down'.pc \in {"list", "ghosts"} /\ down'.page = {} /\ down'.rest = {})
  PROVE  DownKeys'
BY DEF IdleDown, DownKeys

\* The pages in hand are some of those there were.
LEMMA DownLessKeys ==
  ASSUME TypeInv, DownKeys, Keeps, conf' = conf,
         down'.page \union down'.rest \subseteq down.page \union down.rest,
         down.pc \in DownPhases \/ down'.pc \notin DownPhases
  PROVE  DownKeys'
BY SentKeyStays DEF DownKeys, DownRuns, DownPhases

LEMMA FetchPageKeys ==
  ASSUME TypeInv, KeyInv, conf' = conf, UNCHANGED <<server, edits>>, down.pc \in DownPhases,
         NEW pc, NEW rest, FetchPage(pc, rest),
         rest = down.rest \/ \E date : rest = Matching(date)
  PROVE  DownKeys'
<1>1. PICK page \in SUBSET rest :
         down' = [down EXCEPT !.pc = pc, !.page = page, !.rest = rest \ page]
  BY DEF FetchPage, Pages
<1>2. down'.page \union down'.rest \subseteq rest
  BY <1>1 DEF TypeInv, TypeOK, DownTypeOK, Down
<1>3. /\ \A x \in rest : x.record.key = server[x.id].key /\ Numbered(x.record, edits)
      /\ \A x, y \in rest : x.id = y.id => x = y
  <2>1. CASE rest = down.rest
    BY <2>1 DEF KeyInv, DownKeys
  <2>2. CASE \E date : rest = Matching(date)
    BY <2>2 DEF Matching, KeyInv, ServerKeys, Live
  <2>3. QED
    BY <2>1, <2>2
<1>4. "down" \in DownRuns'
  BY DEF KeyInv, DownKeys, DownPhases, DownRuns
<1>5. QED
  BY <1>2, <1>3, <1>4 DEF DownKeys

LEMMA DownReadsKeys ==
  ASSUME TypeInv, KeyInv, conf' = conf,
         \/ StartSyncDown \/ StartFetch \/ GetIdsToSkip \/ SaveProgress \/ ContinueFetch
         \/ EndSyncDown \/ StartGhosts \/ GetRemoteIds
  PROVE  UNCHANGED recordVars /\ DownKeys'
<1>1. UNCHANGED recordVars
  BY DEF StartSyncDown, StartFetch, GetIdsToSkip, SaveProgress, ContinueFetch, EndSyncDown,
         StartGhosts, GetRemoteIds
<1>2. Keeps /\ UNCHANGED <<server, edits>>
  BY <1>1, IdleKeeps DEF recordVars
<1>3. DownKeys /\ down \in Down
  BY DEF KeyInv, TypeInv, TypeOK, DownTypeOK
<1> SUFFICES DownKeys'
  BY <1>1
<1>4. CASE StartSyncDown
  <2>1. down'.page = {} /\ down'.rest = {} /\ "down" \in DownRuns
    BY <1>4 DEF StartSyncDown, IdleDown
  <2>2. QED
    BY <2>1 DEF DownKeys, DownRuns
<1>5. CASE StartFetch
  <2>1. down.pc \in DownPhases
    BY <1>5 DEF StartFetch, DownPhases
  <2>2. CASE FetchPage("prepare", Matching(down.max))
    BY <1>2, <2>1, <2>2, FetchPageKeys
  <2>3. CASE down' = IdleDown
    BY <2>3, DownFreeKeys
  <2>4. QED
    BY <1>5, <2>2, <2>3 DEF StartFetch, MayEnd, Ends
<1>6. CASE GetIdsToSkip
  <2>1. down'.page = down.page /\ down'.rest = down.rest /\ down.pc \in DownPhases
    BY <1>3, <1>6 DEF GetIdsToSkip, Down, DownPhases
  <2>2. QED
    BY <1>2, <1>3, <2>1, DownLessKeys
<1>7. CASE SaveProgress
  <2>1. down'.page = {} /\ down'.rest = down.rest /\ down.pc \in DownPhases
    BY <1>3, <1>7 DEF SaveProgress, Down, DownPhases
  <2>2. QED
    BY <1>2, <1>3, <2>1, DownLessKeys
<1>8. CASE ContinueFetch
  <2>1. down.pc \in DownPhases
    BY <1>8 DEF ContinueFetch, DownPhases
  <2>2. CASE FetchPage("save", down.rest)
    BY <1>2, <2>1, <2>2, FetchPageKeys
  <2>3. CASE down' = IdleDown
    BY <2>3, DownFreeKeys
  <2>4. QED
    BY <1>8, <2>2, <2>3 DEF ContinueFetch, MayEnd, Ends
<1>9. CASE EndSyncDown
  BY <1>9, DownFreeKeys DEF EndSyncDown
<1>10. CASE StartGhosts
  <2>1. down'.page = {} /\ down'.rest = {} /\ down'.pc = "list"
    BY <1>10 DEF StartGhosts, IdleDown
  <2>2. QED
    BY <2>1, DownFreeKeys
<1>11. CASE GetRemoteIds
  <2>1. CASE down' = IdleDown
    BY <2>1, DownFreeKeys
  <2>2. CASE down' = [down EXCEPT !.pc = "ghosts", !.remote = Live]
    <3>1. down'.page = down.page /\ down'.rest = down.rest /\ down'.pc = "ghosts"
      BY <1>3, <2>2 DEF Down
    <3>2. QED
      BY <1>2, <1>3, <3>1, DownLessKeys DEF DownPhases
  <2>3. QED
    BY <1>11, <2>1, <2>2 DEF GetRemoteIds
<1>12. QED
  BY <1>4, <1>5, <1>6, <1>7, <1>8, <1>9, <1>10, <1>11

\* A record that a page brought, in the soup.
LEMMA DownloadedKeys ==
  ASSUME TypeInv, KeyInv, NEW x \in down.page
  PROVE  LET row == Downloaded(x.id, x.record) IN
         /\ Keyed(row, server) /\ Numbered(row, edits)
         /\ row.key = server[x.id].key /\ row.id = x.id
BY DEF Downloaded, Keyed, Numbered, KeyInv, DownKeys

LEMMA ElementOfId ==
  ASSUME TypeInv, KeyInv, NEW s \in DOMAIN soup, NEW x \in down.page, x.id = soup[s].id
  PROVE  server[x.id].key = soup[s].key
<1>1. x.id \in Ids
  BY DownloadedOK
<1>2. x.id # LocalId
  BY <1>1 DEF Ids, LocalId
<1>3. QED
  BY <1>2 DEF KeyInv, SoupKeys, Keyed

\* What a page that is saved makes of the soup.
LEMMA SavedPageEffect ==
  ASSUME TypeInv, KeyInv,
         NEW order \in Bijection(NewOnes, nextEntry .. nextEntry + Cardinality(NewOnes) - 1),
         soup' = Upserted(order)
  PROVE  /\ \A s \in DOMAIN soup' :
               \/ /\ s \in DOMAIN soup /\ soup'[s].id = soup[s].id
                  /\ soup'[s].key = soup[s].key
                  /\ soup'[s] = soup[s]
                        \/ \E x \in ToSave : soup'[s] = Downloaded(x.id, x.record)
               \/ /\ s \notin DOMAIN soup /\ s >= nextEntry
                  /\ \E x \in NewOnes :
                        order[x] = s /\ soup'[s] = Downloaded(x.id, x.record)
         /\ DOMAIN soup \subseteq DOMAIN soup'
<1> DEFINE fresh == nextEntry .. nextEntry + Cardinality(NewOnes) - 1
<1>1. /\ DOMAIN soup' = DOMAIN soup \union fresh
      /\ \A s \in fresh : s \notin DOMAIN soup
      /\ \A s \in DOMAIN soup : \A x \in ToSave : x.id = soup[s].id =>
               \E y \in ToSave : /\ y.id = soup[s].id
                                 /\ soup'[s] = Downloaded(y.id, y.record)
      /\ \A s \in DOMAIN soup : (\A x \in ToSave : x.id # soup[s].id) => soup'[s] = soup[s]
  BY UpsertedEffect
<1>2. \A s \in fresh : s >= nextEntry
  BY EditsNat
<1> HIDE DEF fresh
<1>3. ToSave \subseteq down.page
  BY DEF ToSave
<1>4. ASSUME NEW s \in DOMAIN soup
      PROVE  /\ soup'[s].id = soup[s].id /\ soup'[s].key = soup[s].key
             /\ soup'[s] = soup[s] \/ \E x \in ToSave : soup'[s] = Downloaded(x.id, x.record)
  <2>1. CASE \A x \in ToSave : x.id # soup[s].id
    BY <1>1, <2>1
  <2>2. CASE \E x \in ToSave : x.id = soup[s].id
    <3>1. PICK y \in ToSave : y.id = soup[s].id /\ soup'[s] = Downloaded(y.id, y.record)
      BY <1>1, <2>2
    <3>2. y \in down.page
      BY <1>3
    <3>3. soup'[s].key = server[y.id].key /\ soup'[s].id = y.id
      BY <3>1, <3>2, DownloadedKeys
    <3>4. server[y.id].key = soup[s].key
      BY <3>1, <3>2, ElementOfId
    <3>5. QED
      BY <3>1, <3>3, <3>4
  <2>3. QED
    BY <2>1, <2>2
<1>5. ASSUME NEW s \in fresh
      PROVE  \E x \in NewOnes : order[x] = s /\ soup'[s] = Downloaded(x.id, x.record)
  <2> DEFINE x == CHOOSE y \in NewOnes : order[y] = s
  <2>1. \E y \in NewOnes : order[y] = s
    BY DEF Bijection, Surjection, fresh
  <2>2. x \in NewOnes /\ order[x] = s
    BY <2>1
  <2>3. s \in DOMAIN soup \union nextEntry .. nextEntry + Cardinality(NewOnes) - 1
    BY DEF fresh
  <2>4. soup'[s] = Downloaded(x.id, x.record)
    BY <2>1, <2>3 DEF Upserted
  <2> HIDE DEF x
  <2>5. QED
    BY <2>2, <2>4
<1>6. QED
  BY <1>1, <1>2, <1>4, <1>5

LEMMA SavePageKeys ==
  ASSUME TypeInv, KeyInv, SavePage, conf' = conf
  PROVE  Keeps /\ ServerKeys' /\ SoupKeys' /\ DownKeys'
<1>1. UNCHANGED <<server, edits>> /\ down \in Down /\ down.pc \in DownPhases /\ DownKeys
  BY DEF SavePage, KeyInv, TypeInv, TypeOK, DownTypeOK, DownPhases
<1>2. ASSUME NEW order \in Bijection(NewOnes, nextEntry .. nextEntry + Cardinality(NewOnes) - 1),
             soup' = Upserted(order)
      PROVE  Keeps /\ SoupKeys'
  <2>1. /\ \A s \in DOMAIN soup' :
               \/ /\ s \in DOMAIN soup /\ soup'[s].id = soup[s].id
                  /\ soup'[s].key = soup[s].key
                  /\ soup'[s] = soup[s]
                        \/ \E x \in ToSave : soup'[s] = Downloaded(x.id, x.record)
               \/ /\ s \notin DOMAIN soup /\ s >= nextEntry
                  /\ \E x \in NewOnes :
                        order[x] = s /\ soup'[s] = Downloaded(x.id, x.record)
    BY <1>2, SavedPageEffect
  <2>2. SoupKept
    <3>1. ASSUME NEW s \in DOMAIN soup', s < nextEntry, ~(s >= nextEntry)
          PROVE  s \in DOMAIN soup /\ soup'[s].key = soup[s].key
      BY <2>1, <3>1
    <3>2. \A s \in DOMAIN soup' : s < nextEntry => ~(s >= nextEntry)
      <4>1. \A s \in DOMAIN soup' : s \in DOMAIN soup \/ s >= nextEntry
        BY <2>1
      <4>2. DOMAIN soup' = DOMAIN soup \union nextEntry .. nextEntry + Cardinality(NewOnes) - 1
        BY <1>2 DEF Upserted
      <4>3. DOMAIN soup \subseteq Nat /\ nextEntry \in Nat
        BY EditsNat DEF TypeInv, TypeOK, RecordsTypeOK, Entries
      <4>4. \A s \in DOMAIN soup' : s \in Int
        BY <4>2, <4>3
      <4>5. QED
        BY <4>3, <4>4
    <3>3. QED
      BY <3>1, <3>2 DEF SoupKept
  <2>3. Keeps
    BY <1>1, <2>2, EditsNat DEF Keeps, KeysKept
  <2>4. ToSave \subseteq down.page /\ NewOnes \subseteq down.page
    BY DEF ToSave, NewOnes
  <2>5. ASSUME NEW s \in DOMAIN soup'
        PROVE  Keyed(soup'[s], server) /\ Numbered(soup'[s], edits)
    <3>1. CASE s \in DOMAIN soup /\ soup'[s] = soup[s]
      BY <3>1 DEF KeyInv, SoupKeys
    <3>2. CASE \E x \in down.page : soup'[s] = Downloaded(x.id, x.record)
      BY <3>2, DownloadedKeys
    <3>3. QED
      BY <2>1, <2>4, <3>1, <3>2
  <2>6. QED
    BY <1>1, <2>3, <2>5 DEF SoupKeys
<1>3. ASSUME soup' = soup PROVE Keeps /\ SoupKeys'
  BY <1>1, <1>3, NoServerStepKeys
<1>4. Keeps /\ SoupKeys'
  BY <1>2, <1>3 DEF SavePage
<1>5. DownKeys'
  <2>1. CASE down' = IdleDown
    BY <2>1, DownFreeKeys
  <2>2. ASSUME NEW max, NEW syncMax,
               down' = [down EXCEPT !.pc = "saved", !.max = max, !.syncMax = syncMax]
        PROVE  DownKeys'
    <3>1. down'.page = down.page /\ down'.rest = down.rest
      BY <1>1, <2>2 DEF Down
    <3>2. QED
      BY <1>1, <1>4, <3>1, DownLessKeys
  <2>3. QED
    BY <2>1, <2>2 DEF SavePage, MayEnd, Ends
<1>6. QED
  BY <1>1, <1>4, <1>5, ServerKeysFrame DEF KeyInv

LEMMA DeleteGhostsKeys ==
  ASSUME TypeInv, KeyInv, DeleteGhosts
  PROVE  Keeps /\ ServerKeys' /\ SoupKeys' /\ DownKeys'
<1>1. DOMAIN soup' \subseteq DOMAIN soup /\ \A s \in DOMAIN soup' : soup'[s] = soup[s]
  BY DEF DeleteGhosts, Without
<1>2. UNCHANGED <<server, edits>> /\ down' = IdleDown
  BY DEF DeleteGhosts
<1>3. Keeps
  BY <1>1, <1>2, EditsNat DEF Keeps, KeysKept, SoupKept
<1>4. SoupKeys'
  BY <1>1, <1>2 DEF KeyInv, SoupKeys
<1>5. QED
  BY <1>2, <1>3, <1>4, ServerKeysFrame, DownFreeKeys DEF KeyInv

LEMMA DownStepKeys ==
  ASSUME TypeInv, KeyInv, DownStep, UNCHANGED <<conf, up, batch>>
  PROVE  KeyInv' /\ Keeps
<1>1. Keeps /\ ServerKeys' /\ SoupKeys' /\ DownKeys'
  <2>1. CASE SavePage
    BY <2>1, SavePageKeys
  <2>2. CASE DeleteGhosts
    BY <2>2, DeleteGhostsKeys
  <2>3. CASE ~(SavePage \/ DeleteGhosts)
    <3>1. UNCHANGED <<soup, edits, server>> /\ DownKeys'
      BY <2>3, DownReadsKeys DEF recordVars, DownStep
    <3>2. QED
      BY <3>1, NoServerStepKeys
  <2>4. QED
    BY <2>1, <2>2, <2>3
<1>2. QED
  BY <1>1, UpKeysFrame, BatchKeysFrame DEF KeyInv
----------------------------------------------------------------------------
\* A sync up in batches: the ids of the records that a request makes.

New(done)     == {r \in done : IsNew(r)}
Rank(s, done) == Cardinality({r \in done : r <= s /\ IsNew(r)})

LEMMA DoneFinite ==
  ASSUME TypeInv, NEW done \in SUBSET Requested
  PROVE  /\ done \subseteq Entries /\ done \subseteq Nat /\ IsFiniteSet(done)
         /\ IsFiniteSet(New(done)) /\ Cardinality(New(done)) \in Nat
<1>1. done \subseteq Entries
  BY RequestedOK, BatchFields
<1>2. IsFiniteSet(Entries) /\ Entries \subseteq Nat
  BY FS_Interval, BoundsAssumption DEF Entries
<1>3. IsFiniteSet(done)
  BY <1>1, <1>2, FS_Subset
<1>4. New(done) \in SUBSET done
  BY DEF New
<1>5. QED
  BY <1>1, <1>2, <1>3, <1>4, FS_Subset, FS_CardinalityType

LEMMA Ranks ==
  ASSUME TypeInv, NEW done \in SUBSET Requested, NEW s \in New(done)
  PROVE  /\ Rank(s, done) \in Nat \ {0} /\ Rank(s, done) <= Cardinality(New(done))
         /\ \A t \in New(done) : s < t => Rank(s, done) < Rank(t, done)
<1> DEFINE below(x) == {r \in done : r <= x /\ IsNew(r)}
<1>1. IsFiniteSet(New(done)) /\ Cardinality(New(done)) \in Nat /\ done \subseteq Nat
  BY DoneFinite
<1>2. \A x \in done : below(x) \in SUBSET New(done)
  BY DEF New
<1>3. s \in below(s) /\ s \in done
  BY <1>1 DEF New
<1>4. Rank(s, done) = Cardinality(below(s))
  BY DEF Rank
<1>5. IsFiniteSet(below(s)) /\ below(s) \in SUBSET New(done)
  BY <1>1, <1>2, <1>3, FS_Subset
<1>6. Cardinality(below(s)) # 0 /\ Cardinality(below(s)) \in Nat
  <2>1. below(s) # {}
    BY <1>3
  <2> HIDE DEF below
  <2>2. QED
    BY <1>5, <2>1, FS_CardinalityType, FS_EmptySet
<1>7. ASSUME NEW t \in New(done), s < t
      PROVE  Rank(s, done) < Rank(t, done)
  <2>1. t \in done /\ t \in Nat /\ s \in Nat /\ IsNew(t)
    BY <1>1, <1>3 DEF New
  <2>2. below(t) \in SUBSET New(done) /\ t \in below(t)
    BY <1>2, <2>1
  <2>3. t \notin below(s) /\ below(s) \subseteq below(t)
    <3>1. ~(t <= s)
      BY <1>7, <2>1
    <3>2. \A r \in done : r <= s => r <= t
      <4>1. ASSUME NEW r \in done, r <= s PROVE r <= t
        <5>1. r \in Nat
          BY <1>1
        <5>2. QED
          BY <1>7, <2>1, <4>1, <5>1
      <4>2. QED
        BY <4>1
    <3>3. QED
      BY <3>1, <3>2
  <2>4. Rank(t, done) = Cardinality(below(t))
    BY DEF Rank
  <2> HIDE DEF below
  <2>5. IsFiniteSet(below(t))
    BY <1>1, <2>2, FS_Subset
  <2>6. Cardinality(below(s)) <= Cardinality(below(t)) /\ Cardinality(below(t)) \in Nat
        /\ Cardinality(below(s)) # Cardinality(below(t))
    BY <2>2, <2>3, <2>5, FS_Subset, FS_CardinalityType
  <2>7. QED
    BY <1>4, <1>6, <2>4, <2>6
<1> HIDE DEF below
<1>8. Cardinality(below(s)) <= Cardinality(New(done))
  BY <1>1, <1>5, FS_Subset
<1>9. QED
  BY <1>4, <1>6, <1>7, <1>8

LEMMA NewIds ==
  ASSUME TypeInv, NEW done \in SUBSET Requested
  PROVE  /\ \A s \in New(done) :
               ServerId(s, done) = Cardinality(DOMAIN server) + Rank(s, done)
         /\ \A s, t \in New(done) : ServerId(s, done) = ServerId(t, done) => s = t
<1>1. \A s \in New(done) : ServerId(s, done) = Cardinality(DOMAIN server) + Rank(s, done)
  BY DEF New, IsNew, ServerId, Rank
<1>2. ASSUME NEW s \in New(done), NEW t \in New(done), ServerId(s, done) = ServerId(t, done)
      PROVE  s = t
  <2>1. s \in Nat /\ t \in Nat
    BY DoneFinite DEF New
  <2>2. Rank(s, done) \in Nat /\ Rank(t, done) \in Nat /\ Cardinality(DOMAIN server) \in Nat
    BY Ranks, ServerFinite
  <2>3. Rank(s, done) = Rank(t, done)
    BY <1>1, <1>2, <2>2
  <2>4. ~(s < t) /\ ~(t < s)
    <3>1. s < t => Rank(s, done) < Rank(t, done)
      BY Ranks
    <3>2. t < s => Rank(t, done) < Rank(s, done)
      BY Ranks
    <3>3. QED
      BY <2>2, <2>3, <3>1, <3>2
  <2>5. QED
    BY <2>1, <2>4
<1>3. QED
  BY <1>1, <1>2

\* The others are those of records that are there, with the key of the row.
LEMMA KnownIds ==
  ASSUME TypeInv, KeyInv, NEW done \in SUBSET Requested, NEW s \in done, ~IsNew(s)
  PROVE  /\ ServerId(s, done) \in DOMAIN server
         /\ server[ServerId(s, done)].key = Rows[s].key
         /\ Wants(Rows[s], "create") => server[ServerId(s, done)].live
         /\ ~Wants(Rows[s], "create") => ServerId(s, done) = Rows[s].id
<1>1. s \in DOMAIN batch.rows /\ Rows[s] \in Row
  BY RequestedOK
<1>2. CASE ~Wants(Rows[s], "create")
  <2>1. ServerId(s, done) = Rows[s].id /\ Rows[s].id \in DOMAIN server
    BY <1>2, RequestedOK DEF ServerId
  <2>2. Rows[s].id # LocalId
    BY <2>1, ServerRecordOK DEF Ids, LocalId
  <2>3. QED
    BY <1>1, <1>2, <2>1, <2>2 DEF KeyInv, BatchKeys, Keyed, Rows
<1>3. CASE Wants(Rows[s], "create")
  <2> DEFINE found == {i \in Live : ExternalIds /\ server[i].key = Rows[s].key}
  <2>1. Created(Rows[s]) = found /\ found # {}
    BY <1>3 DEF IsNew, Created
  <2>2. found \in SUBSET Nat
    BY ServerRecordOK DEF Live, Ids
  <2>3. Min(found) \in found
    BY <2>1, <2>2, MinOf
  <2>4. ServerId(s, done) = Min(found)
    BY <1>3, <2>1 DEF ServerId
  <2> HIDE DEF found
  <2>5. ServerId(s, done) \in found
    BY <2>3, <2>4
  <2>6. QED
    BY <1>3, <2>5 DEF found, Live
<1>4. QED
  BY <1>2, <1>3

LEMMA NewIsUnknown ==
  ASSUME TypeInv, KeyInv, NEW done \in SUBSET Requested, NEW s \in New(done)
  PROVE  ServerId(s, done) \notin DOMAIN server
<1>1. ServerId(s, done) = Cardinality(DOMAIN server) + Rank(s, done)
  BY NewIds
<1>2. Rank(s, done) \in Nat \ {0}
  BY Ranks
<1>3. \A i \in DOMAIN server : i \in Nat /\ i <= Cardinality(DOMAIN server)
  BY ServerRecordOK DEF KeyInv, ServerKeys, Ids
<1>4. QED
  BY <1>1, <1>2, <1>3, ServerFinite

\* What the server has for two rows with one id is of one key.
LEMMA SameIdSameKey ==
  ASSUME TypeInv, KeyInv, NEW done \in SUBSET Requested, NEW s \in done, NEW r \in done,
         ServerId(s, done) = ServerId(r, done)
  PROVE  Rows[s].key = Rows[r].key
<1>1. CASE IsNew(s) /\ IsNew(r)
  BY <1>1, NewIds DEF New
<1>2. CASE ~IsNew(s) /\ ~IsNew(r)
  BY <1>2, KnownIds
<1>3. CASE IsNew(s) /\ ~IsNew(r)
  BY <1>3, KnownIds, NewIsUnknown DEF New
<1>4. CASE ~IsNew(s) /\ IsNew(r)
  BY <1>4, KnownIds, NewIsUnknown DEF New
<1>5. QED
  BY <1>1, <1>2, <1>3, <1>4

LEMMA ServerRecordKey ==
  ASSUME TypeInv, KeyInv, NEW done \in SUBSET Requested, NEW s \in done, NEW t
  PROVE  /\ ServerRecord(s, t).key = Rows[s].key
         /\ Numbered(ServerRecord(s, t), edits)
         /\ ServerRecord(s, t).live /\ ~IsNew(s) => server[ServerId(s, done)].live
<1>1. s \in DOMAIN batch.rows /\ Rows[s] \in Row /\ Numbered(Rows[s], edits)
  BY RequestedOK DEF KeyInv, BatchKeys, Rows
<1>2. CASE Wants(Rows[s], "create")
  BY <1>1, <1>2, KnownIds DEF ServerRecord, Numbered
<1>3. CASE ~Wants(Rows[s], "create")
  <2>1. ~IsNew(s)
    BY <1>3 DEF IsNew
  <2>2. Rows[s].id \in DOMAIN server /\ server[Rows[s].id].key = Rows[s].key
        /\ ServerId(s, done) = Rows[s].id
    BY <1>3, <2>1, KnownIds
  <2>3. server[Rows[s].id] \in Record /\ Numbered(server[Rows[s].id], edits)
    BY <2>2, ServerRecordOK DEF KeyInv, ServerKeys
  <2>4. QED
    BY <1>1, <1>3, <2>2, <2>3 DEF ServerRecord, Numbered, Record, Row
<1>4. QED
  BY <1>2, <1>3

LEMMA CarriesOutKeys ==
  ASSUME TypeInv, KeyInv, NEW done \in SUBSET Requested, CarriesOut(done),
         UNCHANGED <<soup, edits>>
  PROVE  /\ Keeps /\ ServerKeys' /\ SoupKeys'
         /\ \A s \in done : server'[ServerId(s, done)].key = Rows[s].key
<1>1. PICK t \in Dates :
         \A i \in DOMAIN server' :
               \/ /\ i \in DOMAIN server /\ server'[i] = server[i]
                  /\ \A s \in done : i # ServerId(s, done)
               \/ \E s \in done : i = ServerId(s, done) /\ server'[i] = ServerRecord(s, t)
  BY CarriesOutEffect
<1>2. DOMAIN server' = DOMAIN server \union {ServerId(s, done) : s \in done}
  BY CarriesOutEffect
<1>3. ASSUME NEW i \in DOMAIN server
      PROVE  /\ i \in DOMAIN server' /\ server'[i].key = server[i].key
             /\ server'[i].live => server[i].live
  <2>1. i \in DOMAIN server'
    BY <1>2
  <2>2. CASE server'[i] = server[i]
    BY <2>1, <2>2
  <2>3. ASSUME NEW s \in done, i = ServerId(s, done), server'[i] = ServerRecord(s, t)
        PROVE  server'[i].key = server[i].key /\ (server'[i].live => server[i].live)
    <3>1. ~IsNew(s)
      BY <2>3, NewIsUnknown DEF New
    <3>2. server[i].key = Rows[s].key
      BY <2>3, <3>1, KnownIds
    <3>3. ServerRecord(s, t).key = Rows[s].key
      BY ServerRecordKey
    <3>4. ServerRecord(s, t).live => server[i].live
      BY <2>3, <3>1, ServerRecordKey
    <3>5. QED
      BY <2>3, <3>2, <3>3, <3>4
  <2>4. QED
    BY <1>1, <2>1, <2>2, <2>3
<1>4. Keeps
  BY <1>3, EditsNat DEF Keeps, KeysKept, SoupKept
<1>5. ASSUME NEW s \in done PROVE server'[ServerId(s, done)].key = Rows[s].key
  <2>1. ServerId(s, done) \in DOMAIN server'
    BY <1>2
  <2>2. PICK r \in done : ServerId(s, done) = ServerId(r, done)
                          /\ server'[ServerId(s, done)] = ServerRecord(r, t)
    BY <1>1, <2>1
  <2>3. ServerRecord(r, t).key = Rows[r].key
    BY ServerRecordKey
  <2>4. Rows[s].key = Rows[r].key
    BY <2>2, SameIdSameKey
  <2>5. QED
    BY <2>2, <2>3, <2>4
<1>6. \A i \in DOMAIN server' : i <= Cardinality(DOMAIN server')
  <2> DEFINE N == Cardinality(DOMAIN server)
             new == {ServerId(s, done) : s \in New(done)}
             f == [s \in New(done) |-> ServerId(s, done)]
  <2>1. DOMAIN server' = DOMAIN server \union new
    BY <1>2, KnownIds DEF New
  <2>2. f \in Bijection(New(done), new)
    <3>1. f \in [New(done) -> new] /\ \A i \in new : \E s \in New(done) : f[s] = i
      OBVIOUS
    <3>2. \A r, s \in New(done) : ServerId(r, done) = ServerId(s, done) => r = s
      BY NewIds
    <3>3. \A r, s \in New(done) : f[r] = f[s] => r = s
      BY <3>2
    <3> HIDE DEF f, new
    <3>4. QED
      BY <3>1, <3>3 DEF Bijection, Injection, Surjection, IsInjective
  <2>3. ExistsBijection(New(done), new)
    BY <2>2 DEF ExistsBijection
  <2>4. DOMAIN server \intersect new = {}
    BY NewIsUnknown
  <2> HIDE DEF f
  <2>5. IsFiniteSet(New(done)) /\ Cardinality(New(done)) \in Nat
    BY DoneFinite
  <2>6. \A i \in new : i \in Nat /\ i <= N + Cardinality(New(done))
    <3>1. ASSUME NEW s \in New(done)
          PROVE  ServerId(s, done) \in Nat /\ ServerId(s, done) <= N + Cardinality(New(done))
      <4>1. ServerId(s, done) = N + Rank(s, done)
        BY NewIds
      <4>2. Rank(s, done) \in Nat /\ Rank(s, done) <= Cardinality(New(done))
        BY Ranks
      <4>3. QED
        BY <2>5, <4>1, <4>2, ServerFinite
    <3>2. QED
      BY <3>1
  <2> HIDE DEF new, N
  <2>7. IsFiniteSet(new) /\ Cardinality(new) = Cardinality(New(done))
    BY <2>3, <2>5, FS_Bijection
  <2>8. Cardinality(DOMAIN server') = N + Cardinality(New(done)) - Cardinality({})
    BY <2>1, <2>4, <2>7, ServerFinite, FS_Union DEF N
  <2>9. Cardinality(DOMAIN server') = N + Cardinality(New(done)) /\ N \in Nat
    BY <2>5, <2>8, FS_EmptySet, ServerFinite DEF N
  <2>10. \A i \in DOMAIN server : i \in Nat /\ i <= N
    BY ServerRecordOK DEF KeyInv, ServerKeys, Ids, N
  <2>11. QED
    BY <2>1, <2>5, <2>6, <2>9, <2>10
<1>7. \A i \in DOMAIN server' : Numbered(server'[i], edits')
  BY <1>1, ServerRecordKey DEF KeyInv, ServerKeys
<1>8. QED
  BY <1>4, <1>5, <1>6, <1>7, SoupKeysFrame DEF ServerKeys, KeyInv

LEMMA BatchFreeKeys ==
  ASSUME batch' = IdleBatch \/ \E left : batch' = [IdleBatch EXCEPT !.pc = "read", !.left = left]
  PROVE  BatchKeys'
<1>1. batch'.rows = None /\ batch'.ids = None
  <2>1. CASE batch' = IdleBatch
    BY <2>1, IdleBatchFields
  <2>2. ASSUME NEW left, batch' = [IdleBatch EXCEPT !.pc = "read", !.left = left]
        PROVE  batch'.rows = None /\ batch'.ids = None
    BY <2>2, IdleBatchFields
  <2>3. QED
    BY <2>1, <2>2
<1>2. DOMAIN batch'.rows = {} /\ DOMAIN batch'.ids = {}
  BY <1>1, EmptyPartial
<1>3. QED
  BY <1>1, <1>2 DEF BatchKeys

\* The rows are those there were, or some of them.
LEMMA BatchRowsKeys ==
  ASSUME TypeInv, KeyInv, Keeps, batch'.pc # "idle",
         DOMAIN batch'.rows \subseteq DOMAIN batch.rows,
         \A s \in DOMAIN batch'.rows : batch'.rows[s] = batch.rows[s],
         \/ batch'.ids = None
         \/ batch'.ids = batch.ids /\ DOMAIN batch'.rows = DOMAIN batch.rows
  PROVE  BatchKeys'
<1>1. ASSUME NEW s \in DOMAIN batch'.rows
      PROVE  /\ Keyed(batch'.rows[s], server') /\ Numbered(batch'.rows[s], edits')
             /\ s \in DOMAIN soup' => soup'[s].key = batch'.rows[s].key
  <2>1. s \in DOMAIN batch.rows /\ batch'.rows[s] = batch.rows[s]
    OBVIOUS
  <2>2. RowOK(batch.rows[s], DOMAIN server) /\ s < nextEntry
    BY <2>1 DEF TypeInv, BatchInv
  <2>3. Keyed(batch.rows[s], server') /\ Numbered(batch.rows[s], edits')
    BY <2>1, <2>2, RowKeyStays DEF KeyInv, BatchKeys
  <2>4. QED
    BY <2>1, <2>2, <2>3 DEF KeyInv, BatchKeys, Keeps, SoupKept
<1>2. ASSUME NEW s \in DOMAIN batch'.ids
      PROVE  s \in DOMAIN batch'.rows /\ server'[batch'.ids[s]].key = batch'.rows[s].key
  <2>1. batch'.ids = batch.ids /\ DOMAIN batch'.rows = DOMAIN batch.rows
    BY <1>2, EmptyPartial
  <2>2. s \in DOMAIN batch.rows /\ server[batch.ids[s]].key = batch.rows[s].key
        /\ batch.ids[s] \in DOMAIN server
    BY <1>2, <2>1 DEF KeyInv, BatchKeys, TypeInv, BatchInv
  <2>3. QED
    BY <2>1, <2>2 DEF Keeps, KeysKept
<1>3. QED
  BY <1>1, <1>2 DEF BatchKeys

LEMMA BatchReadsKeys ==
  ASSUME TypeInv, KeyInv,
         \/ StartBatchSyncUp \/ ReadRecords \/ CheckModDates \/ CheckedModDates
         \/ FillBatch \/ NextBatch \/ EndBatchSyncUp
  PROVE  UNCHANGED recordVars /\ BatchKeys'
<1>1. UNCHANGED recordVars
  BY DEF StartBatchSyncUp, ReadRecords, CheckModDates, CheckedModDates, FillBatch, NextBatch,
         EndBatchSyncUp
<1>2. Keeps /\ UNCHANGED <<soup, server, edits>>
  BY <1>1, IdleKeeps DEF recordVars
<1> SUFFICES BatchKeys'
  BY <1>1
<1>3. CASE StartBatchSyncUp \/ BatchEnds
  BY <1>3, BatchFreeKeys DEF StartBatchSyncUp, BatchEnds
<1>4. CASE ReadRecords
  <2> DEFINE found == batch.left \intersect DOMAIN soup
  <2>1. batch'.pc = "check" /\ batch'.rows = Restrict(soup, found) /\ batch'.ids = batch.ids
    BY <1>4, BatchFields DEF ReadRecords
  <2>2. DOMAIN batch'.rows = found /\ \A s \in found : batch'.rows[s] = soup[s]
    BY <2>1 DEF Restrict
  <2>3. DOMAIN batch'.ids = {}
    BY <1>4, <2>1, EmptyPartial DEF ReadRecords, TypeInv, BatchInv
  <2>4. QED
    BY <1>2, <2>1, <2>2, <2>3 DEF KeyInv, SoupKeys, BatchKeys
<1>5. CASE CheckModDates
  <2>1. ASSUME NEW check, NEW todo, NEW seen,
               batch' = [batch EXCEPT !.check = check, !.todo = todo, !.seen = seen]
        PROVE  BatchKeys'
    <3>1. batch'.rows = batch.rows /\ batch'.ids = batch.ids /\ batch'.pc = batch.pc
      BY <2>1, BatchFields
    <3>2. batch.pc = "check"
      BY <1>5 DEF CheckModDates
    <3>3. QED
      BY <1>2, <3>1, <3>2, BatchRowsKeys
  <2>2. QED
    BY <1>3, <1>5, <2>1 DEF CheckModDates
<1>6. CASE CheckedModDates
  <2>1. batch'.rows = batch.rows /\ batch'.ids = batch.ids /\ batch'.pc = "fill"
    BY <1>6, BatchFields DEF CheckedModDates
  <2>2. QED
    BY <1>2, <2>1, BatchRowsKeys
<1>7. CASE FillBatch
  <2>1. CASE batch' = [batch EXCEPT !.pc = "send", !.todo = @ \ FirstOf(batch.todo),
                                    !.sending = FirstOf(batch.todo)]
    <3>1. batch'.rows = batch.rows /\ batch'.ids = batch.ids /\ batch'.pc = "send"
      BY <2>1, BatchFields
    <3>2. QED
      BY <1>2, <3>1, BatchRowsKeys
  <2>2. QED
    BY <1>3, <1>7, <2>1 DEF FillBatch
<1>8. CASE NextBatch
  <2>1. batch'.rows = Restrict(batch.rows, batch.todo) /\ batch'.ids = None
        /\ batch'.pc = "fill"
    BY <1>8, BatchFields DEF NextBatch
  <2>2. batch.todo \subseteq DOMAIN batch.rows
    BY DEF TypeInv, BatchInv, Pending
  <2>3. DOMAIN batch'.rows = batch.todo /\ \A s \in batch.todo : batch'.rows[s] = batch.rows[s]
    BY <2>1 DEF Restrict
  <2>4. QED
    BY <1>2, <2>1, <2>2, <2>3, BatchRowsKeys
<1>9. QED
  BY <1>3, <1>4, <1>5, <1>6, <1>7, <1>8 DEF EndBatchSyncUp

\* An answer with the ids the server gave.
LEMMA AnsweredIdsKeys ==
  ASSUME TypeInv, KeyInv, Keeps, NEW done \in SUBSET Requested,
         \A s \in done : server'[ServerId(s, done)].key = Rows[s].key,
         batch'.pc # "idle", batch'.rows = batch.rows,
         batch'.ids = Merge(batch.ids, AnsweredIds(done))
  PROVE  BatchKeys'
<1>1. ASSUME NEW s \in DOMAIN batch.rows
      PROVE  /\ Keyed(batch.rows[s], server') /\ Numbered(batch.rows[s], edits')
             /\ s \in DOMAIN soup' => soup'[s].key = batch.rows[s].key
  <2>1. RowOK(batch.rows[s], DOMAIN server) /\ s < nextEntry
    BY DEF TypeInv, BatchInv
  <2>2. Keyed(batch.rows[s], server') /\ Numbered(batch.rows[s], edits')
    BY <2>1, RowKeyStays DEF KeyInv, BatchKeys
  <2>3. QED
    BY <2>1, <2>2 DEF KeyInv, BatchKeys, Keeps, SoupKept
<1>2. ASSUME NEW s \in DOMAIN batch'.ids
      PROVE  s \in DOMAIN batch.rows /\ server'[batch'.ids[s]].key = batch.rows[s].key
  <2>1. CASE s \in DOMAIN batch.ids
    <3>1. batch'.ids[s] = batch.ids[s]
      BY <2>1 DEF Merge
    <3>2. s \in DOMAIN batch.rows /\ server[batch.ids[s]].key = batch.rows[s].key
          /\ batch.ids[s] \in DOMAIN server
      BY <2>1 DEF KeyInv, BatchKeys, TypeInv, BatchInv
    <3>3. QED
      BY <3>1, <3>2 DEF Keeps, KeysKept
  <2>2. CASE s \notin DOMAIN batch.ids
    <3>1. s \in done /\ batch'.ids[s] = ServerId(s, done)
      BY <1>2, <2>2 DEF Merge, AnsweredIds
    <3>2. s \in DOMAIN batch.rows
      BY <3>1, RequestedOK
    <3>3. QED
      BY <3>1, <3>2 DEF Rows
  <2>3. QED
    BY <2>1, <2>2
<1>3. QED
  BY <1>1, <1>2 DEF BatchKeys

\* What a request does: the server carries some of it out, and answers or not.
GoneOf(refused) == {s \in Requested \ refused : Gone(s)}
DoneOf(refused) == Requested \ (refused \union GoneOf(refused))
Settles(refused) ==
    settled' = settled \union
       {Rows[s].edit :
           s \in DoneOf(refused) \union {r \in GoneOf(refused) : Wants(Rows[r], "delete")}}
AnswerSaved(refused) ==
    /\ batch'.pc \in {"send", "save"}
    /\ batch'.answers = Answers(DoneOf(refused), GoneOf(refused), refused)
    /\ batch'.ids = Merge(batch.ids, AnsweredIds(DoneOf(refused)))
    /\ batch'.unsaved = {s \in batch.sending : IsDirty(Rows[s])}
    /\ batch'.rows = batch.rows /\ batch'.sending = batch.sending
    /\ batch'.todo = batch.todo /\ batch'.check = batch.check
    /\ batch'.reRun = batch.reRun /\ batch'.seen = batch.seen
    /\ batch'.kinds = NextKind
    /\ batch'.pc = "send" => Collection /\ \E k \in KindsLeft : k > NextKind

LEMMA SendRequestsEffect ==
  ASSUME TypeInv, SendRequests
  PROVE  /\ UNCHANGED <<soup, nextEntry, edits, latest, exposed>> /\ batch.pc = "send"
         /\ \/ BatchEnds /\ Unchanged
            \/ \E refused \in SUBSET Requested :
                  /\ CarriesOut(DoneOf(refused)) /\ Settles(refused)
                  /\ BatchEnds \/ AnswerSaved(refused)
<1> DEFINE more == Collection /\ \E k \in KindsLeft : k > NextKind
           pc == IF more THEN "send" ELSE "save"
<1>1. UNCHANGED <<soup, nextEntry, edits, latest, exposed>> /\ batch.pc = "send"
  BY DEF SendRequests
<1>2. CASE BatchEnds /\ Unchanged
  BY <1>1, <1>2
<1>3. CASE ~(BatchEnds /\ Unchanged)
  <2>1. PICK refused \in SUBSET Requested :
          /\ CarriesOut(DoneOf(refused)) /\ Settles(refused)
          /\ \/ batch' = [batch EXCEPT
                               !.pc      = pc,
                               !.kinds   = NextKind,
                               !.answers = Answers(DoneOf(refused), GoneOf(refused), refused),
                               !.ids     = Merge(@, AnsweredIds(DoneOf(refused))),
                               !.unsaved = {s \in batch.sending : IsDirty(Rows[s])}]
             \/ BatchEnds
    BY <1>3 DEF SendRequests, DoneOf, GoneOf, Settles
  <2>2. pc \in {"send", "save"} /\ (pc = "send" => more)
    OBVIOUS
  <2> HIDE DEF pc
  <2> DEFINE answers == Answers(DoneOf(refused), GoneOf(refused), refused)
             ids == Merge(batch.ids, AnsweredIds(DoneOf(refused)))
             unsaved == {s \in batch.sending : IsDirty(Rows[s])}
  <2>3. \/ BatchEnds
        \/ batch' = [batch EXCEPT !.pc = pc, !.kinds = NextKind, !.answers = answers,
                                  !.ids = ids, !.unsaved = unsaved]
    BY <2>1
  <2>4. ASSUME batch'.pc \in {"send", "save"}, batch'.rows = batch.rows,
               batch'.answers = answers, batch'.ids = ids, batch'.unsaved = unsaved,
               batch'.sending = batch.sending, batch'.todo = batch.todo,
               batch'.check = batch.check, batch'.reRun = batch.reRun,
               batch'.seen = batch.seen, batch'.kinds = NextKind, batch'.pc = "send" => more
        PROVE  AnswerSaved(refused)
    BY <2>4 DEF AnswerSaved
  <2> HIDE DEF answers, ids, unsaved, more
  <2>5. CASE batch' = [batch EXCEPT !.pc = pc, !.kinds = NextKind, !.answers = answers,
                                    !.ids = ids, !.unsaved = unsaved]
    <3>1. /\ batch'.pc \in {"send", "save"} /\ batch'.rows = batch.rows
          /\ batch'.answers = answers /\ batch'.ids = ids
          /\ batch'.sending = batch.sending /\ batch'.todo = batch.todo
          /\ batch'.check = batch.check /\ batch'.reRun = batch.reRun
          /\ batch'.seen = batch.seen /\ batch'.kinds = NextKind
          /\ batch'.unsaved = unsaved /\ batch'.pc = pc
      BY <2>2, <2>5, BatchFields
    <3>2. AnswerSaved(refused)
      BY <2>2, <2>4, <3>1
    <3>3. QED
      BY <1>1, <2>1, <3>2
  <2>6. CASE BatchEnds
    BY <1>1, <2>1, <2>6
  <2>7. QED
    BY <2>3, <2>5, <2>6
<1>4. QED
  BY <1>2, <1>3

LEMMA DoneRequested == \A refused : DoneOf(refused) \in SUBSET Requested
BY DEF DoneOf

LEMMA SendRequestsKeys ==
  ASSUME TypeInv, KeyInv, SendRequests
  PROVE  Keeps /\ ServerKeys' /\ SoupKeys' /\ BatchKeys'
<1>1. UNCHANGED <<soup, edits>>
  BY SendRequestsEffect
<1>2. CASE BatchEnds /\ Unchanged
  BY <1>1, <1>2, NoServerStepKeys, BatchFreeKeys DEF Unchanged, BatchEnds
<1>3. ASSUME NEW refused \in SUBSET Requested, CarriesOut(DoneOf(refused)),
             BatchEnds \/ AnswerSaved(refused)
      PROVE  Keeps /\ ServerKeys' /\ SoupKeys' /\ BatchKeys'
  <2> DEFINE done == DoneOf(refused)
  <2>1. done \in SUBSET Requested /\ CarriesOut(done)
    BY <1>3, DoneRequested
  <2>2. AnswerSaved(refused) => batch'.ids = Merge(batch.ids, AnsweredIds(done))
                                /\ batch'.rows = batch.rows /\ batch'.pc # "idle"
    BY DEF AnswerSaved
  <2> HIDE DEF done
  <2>3. /\ Keeps /\ ServerKeys' /\ SoupKeys'
        /\ \A s \in done : server'[ServerId(s, done)].key = Rows[s].key
    BY <1>1, <2>1, CarriesOutKeys
  <2>4. CASE BatchEnds
    BY <2>3, <2>4, BatchFreeKeys DEF BatchEnds
  <2>5. CASE AnswerSaved(refused)
    BY <2>1, <2>2, <2>3, <2>5, AnsweredIdsKeys
  <2>6. QED
    BY <1>3, <2>4, <2>5
<1>4. QED
  BY <1>2, <1>3, SendRequestsEffect

\* What saving an answer does: the row is saved, as it is or cleaned, or removed,
\* or the batch is to be sent again.
CleanRow(s) == [Rows[s] EXCEPT !.flags = {}, !.id = batch.ids[s]]
NewRow(s)   == [Rows[s] EXCEPT !.flags = @ \union {"created"}]
RowSaved(s, row) ==
    /\ batch'.unsaved = batch.unsaved \ {s} /\ batch'.rows = [batch.rows EXCEPT ![s] = row]
    /\ batch'.pc = batch.pc /\ batch'.check = batch.check /\ batch'.todo = batch.todo
    /\ batch'.sending = batch.sending /\ batch'.answers = batch.answers
    /\ batch'.ids = batch.ids /\ batch'.reRun = batch.reRun /\ batch'.seen = batch.seen
SentAgain(s) ==
    /\ batch'.pc = "send" /\ batch'.answers = None /\ batch'.ids = None
    /\ batch'.unsaved = {} /\ batch'.reRun = TRUE
    /\ batch'.rows = [batch.rows EXCEPT ![s] = NewRow(s)]
    /\ batch'.check = batch.check /\ batch'.todo = batch.todo
    /\ batch'.sending = batch.sending /\ batch'.seen = batch.seen

LEMMA SaveAnswerEffect ==
  ASSUME TypeInv, SaveAnswer
  PROVE  /\ UNCHANGED <<nextEntry, server, clock, edits, latest, exposed>>
         /\ batch.pc = "save"
         /\ \E s \in batch.unsaved :
               /\ s \in batch.sending /\ s \in DOMAIN batch.rows /\ Rows[s] \in Row
               /\ \/ /\ Removes(s) /\ soup' = Without(soup, {s}) /\ RowSaved(s, Rows[s])
                     /\ settled' = settled \union
                           IF "created" \in Rows[s].flags THEN {Rows[s].edit} ELSE {}
                  \/ /\ Cleans(s) /\ Save(s, CleanRow(s)) /\ RowSaved(s, CleanRow(s))
                     /\ settled' = settled
                  \/ /\ Recreates(s) /\ soup' = soup /\ SentAgain(s)
                     /\ settled' = settled
                  \/ /\ ~(Removes(s) \/ Cleans(s) \/ Recreates(s))
                     /\ Save(s, Rows[s]) /\ RowSaved(s, Rows[s])
                     /\ settled' = settled
<1> DEFINE s == Min(batch.unsaved)
<1>1. UNCHANGED <<nextEntry, server, clock, edits, latest, exposed>> /\ batch.pc = "save"
  BY DEF SaveAnswer
<1>2. s \in batch.unsaved
  <2>1. batch.unsaved \in SUBSET Nat /\ batch.unsaved # {}
    BY BatchFields DEF SaveAnswer, Entries
  <2>2. QED
    BY <2>1, MinOf
<1>3. s \in batch.sending /\ s \in DOMAIN batch.rows /\ Rows[s] \in Row
  BY <1>2 DEF TypeInv, BatchInv, Pending, RowOK, Rows
<1>4. /\ \/ /\ Removes(s) /\ soup' = Without(soup, {s}) /\ SavedNext(s, Rows[s])
            /\ settled' = settled \union
                  IF "created" \in Rows[s].flags THEN {Rows[s].edit} ELSE {}
         \/ /\ Cleans(s) /\ Save(s, CleanRow(s)) /\ SavedNext(s, CleanRow(s))
            /\ settled' = settled
         \/ /\ Recreates(s) /\ soup' = soup /\ ReRun(s)
            /\ settled' = settled
         \/ /\ ~(Removes(s) \/ Cleans(s) \/ Recreates(s))
            /\ Save(s, Rows[s]) /\ SavedNext(s, Rows[s])
            /\ settled' = settled
  BY DEF SaveAnswer, CleanRow
<1> HIDE DEF s
<1>5. ASSUME NEW row, SavedNext(s, row) PROVE RowSaved(s, row)
  BY <1>5, BatchFields DEF SavedNext, RowSaved
<1>6. ReRun(s) => SentAgain(s)
  BY BatchFields DEF ReRun, SentAgain, NewRow, Rows
<1>7. QED
  BY <1>1, <1>2, <1>3, <1>4, <1>5, <1>6

\* A row is replaced by one with its key.
LEMMA RowReplacedKeys ==
  ASSUME TypeInv, KeyInv, Keeps, UNCHANGED <<server, edits>>, batch'.pc # "idle",
         NEW s \in DOMAIN batch.rows, NEW row, batch'.rows = [batch.rows EXCEPT ![s] = row],
         row.key = Rows[s].key, Keyed(row, server), Numbered(row, edits),
         batch'.ids = batch.ids \/ batch'.ids = None
  PROVE  BatchKeys'
<1>1. DOMAIN batch'.rows = DOMAIN batch.rows /\ batch'.rows[s] = row
      /\ \A r \in DOMAIN batch.rows : r # s => batch'.rows[r] = batch.rows[r]
  OBVIOUS
<1>2. \A r \in DOMAIN batch.rows : batch'.rows[r].key = batch.rows[r].key
  BY <1>1 DEF Rows
<1>3. ASSUME NEW r \in DOMAIN batch.rows
      PROVE  /\ Keyed(batch'.rows[r], server) /\ Numbered(batch'.rows[r], edits)
             /\ r \in DOMAIN soup' => soup'[r].key = batch'.rows[r].key
  <2>1. r \in DOMAIN soup' => soup'[r].key = batch'.rows[r].key
    <3>1. r < nextEntry
      BY DEF TypeInv, BatchInv
    <3>2. QED
      BY <1>2, <3>1 DEF KeyInv, BatchKeys, Keeps, SoupKept
  <2>2. Keyed(batch'.rows[r], server) /\ Numbered(batch'.rows[r], edits)
    BY <1>1 DEF KeyInv, BatchKeys
  <2>3. QED
    BY <2>1, <2>2
<1>4. ASSUME NEW r \in DOMAIN batch'.ids
      PROVE  r \in DOMAIN batch'.rows /\ server[batch'.ids[r]].key = batch'.rows[r].key
  <2>1. batch'.ids = batch.ids
    BY <1>4, EmptyPartial
  <2>2. QED
    BY <1>1, <1>2, <1>4, <2>1 DEF KeyInv, BatchKeys
<1>5. QED
  BY <1>1, <1>3, <1>4 DEF BatchKeys

LEMMA SaveAnswerKeys ==
  ASSUME TypeInv, KeyInv, SaveAnswer
  PROVE  Keeps /\ ServerKeys' /\ SoupKeys' /\ BatchKeys'
<1>1. UNCHANGED <<server, edits>> /\ batch.pc = "save"
  BY SaveAnswerEffect
<1>2. PICK s \in batch.unsaved :
               /\ s \in batch.sending /\ s \in DOMAIN batch.rows /\ Rows[s] \in Row
               /\ \/ Removes(s) /\ soup' = Without(soup, {s}) /\ RowSaved(s, Rows[s])
                  \/ Cleans(s) /\ Save(s, CleanRow(s)) /\ RowSaved(s, CleanRow(s))
                  \/ Recreates(s) /\ soup' = soup /\ SentAgain(s)
                  \/ Save(s, Rows[s]) /\ RowSaved(s, Rows[s])
  BY SaveAnswerEffect
<1>3. /\ Keyed(Rows[s], server) /\ Numbered(Rows[s], edits)
      /\ s \in DOMAIN soup => soup[s].key = Rows[s].key
  BY <1>2 DEF KeyInv, BatchKeys, Rows
<1>4. ASSUME NEW row, Keyed(row, server), Numbered(row, edits), row.key = Rows[s].key,
             soup' = soup \/ soup' = Without(soup, {s}) \/ Save(s, row),
             RowSaved(s, row)
      PROVE  Keeps /\ ServerKeys' /\ SoupKeys' /\ BatchKeys'
  <2>1. Keeps /\ ServerKeys' /\ SoupKeys'
    BY <1>1, <1>3, <1>4, SavesKeys DEF Save
  <2>2. batch'.rows = [batch.rows EXCEPT ![s] = row] /\ batch'.ids = batch.ids
        /\ batch'.pc # "idle"
    BY <1>1, <1>4 DEF RowSaved
  <2>3. QED
    BY <1>1, <1>2, <1>4, <2>1, <2>2, RowReplacedKeys
<1>5. CASE Cleans(s) /\ Save(s, CleanRow(s)) /\ RowSaved(s, CleanRow(s))
  <2>1. s \in DOMAIN batch.ids
    BY <1>5 DEF Cleans, Got, TypeInv, BatchInv
  <2>2. server[batch.ids[s]].key = Rows[s].key
    BY <2>1 DEF KeyInv, BatchKeys, Rows
  <2>3. CleanRow(s).key = Rows[s].key /\ CleanRow(s).id = batch.ids[s]
        /\ CleanRow(s).edit = Rows[s].edit
    BY <1>2 DEF CleanRow, Row
  <2>4. Keyed(CleanRow(s), server) /\ Numbered(CleanRow(s), edits)
    BY <1>3, <2>2, <2>3 DEF Keyed, Numbered
  <2>5. QED
    BY <1>4, <1>5, <2>3, <2>4
<1>6. CASE soup' = soup /\ SentAgain(s)
  <2>1. Keeps /\ ServerKeys' /\ SoupKeys'
    BY <1>1, <1>6, NoServerStepKeys
  <2>2. NewRow(s).key = Rows[s].key /\ NewRow(s).id = Rows[s].id
        /\ NewRow(s).edit = Rows[s].edit
    BY <1>2 DEF NewRow, Row
  <2>3. Keyed(NewRow(s), server) /\ Numbered(NewRow(s), edits)
    BY <1>3, <2>2 DEF Keyed, Numbered
  <2>4. batch'.rows = [batch.rows EXCEPT ![s] = NewRow(s)] /\ batch'.ids = None
        /\ batch'.pc # "idle"
    BY <1>6 DEF SentAgain
  <2>5. QED
    BY <1>1, <1>2, <2>1, <2>2, <2>3, <2>4, RowReplacedKeys
<1>7. QED
  BY <1>2, <1>3, <1>4, <1>5, <1>6

LEMMA BatchStepKeys ==
  ASSUME TypeInv, KeyInv, BatchStep, UNCHANGED <<conf, up, down>>
  PROVE  KeyInv' /\ Keeps
<1>1. Keeps /\ ServerKeys' /\ SoupKeys' /\ BatchKeys'
  <2>1. CASE SendRequests \/ SaveAnswer
    BY <2>1, SendRequestsKeys, SaveAnswerKeys
  <2>2. CASE ~(SendRequests \/ SaveAnswer)
    <3>1. UNCHANGED <<soup, edits, server>> /\ BatchKeys'
      BY <2>2, BatchReadsKeys DEF recordVars, BatchStep
    <3>2. QED
      BY <3>1, NoServerStepKeys
  <2>3. QED
    BY <2>1, <2>2
<1>2. QED
  BY <1>1, UpKeysFrame, DownKeysFrame DEF KeyInv
----------------------------------------------------------------------------
LEMMA KeysNext ==
  ASSUME TypeInv, KeyInv, [Next]_vars
  PROVE  KeyInv' /\ Keeps
<1>1. CASE Worker /\ UNCHANGED conf
  BY <1>1, UpStepKeys, BatchStepKeys, DownStepKeys DEF Worker
<1>2. CASE (App(Held) \/ Others) /\ UNCHANGED <<up, batch, sync, down>> /\ UNCHANGED conf
  BY <1>2, AppKeys, OthersKeys, KeysFrame
<1>3. CASE Crash /\ UNCHANGED conf
  <2>1. UNCHANGED <<soup, edits, server>>
    BY <1>3 DEF Crash, recordVars
  <2>2. UpKeys' /\ BatchKeys' /\ DownKeys'
    BY <1>3, UpFreeKeys, BatchFreeKeys, DownFreeKeys DEF Crash, BatchEnds, DownCrash
  <2>3. QED
    BY <2>1, <2>2, NoServerStepKeys DEF KeyInv
<1>4. CASE UNCHANGED vars
  <2>1. UNCHANGED <<soup, edits, server, conf, up, batch, down>>
    BY <1>4 DEF vars, recordVars
  <2>2. QED
    BY <2>1, NoServerStepKeys, KeysFrame
<1>5. QED
  BY <1>1, <1>2, <1>3, <1>4 DEF Next

LEMMA KeysInit == Init => KeyInv
<1> SUFFICES ASSUME Init PROVE KeyInv
  OBVIOUS
<1>1. PICK n \in 0 .. InitialRecords, mod \in [1 .. InitialRecords -> Dates],
           synced \in BOOLEAN :
        /\ server = [i \in 1 .. n |-> [live |-> TRUE, edit |-> i, mod |-> mod[i], key |-> i]]
        /\ \A i \in n + 1 .. InitialRecords : mod[i] = 1
        /\ \A i \in 1 .. n : mod[i] <= 2
        /\ clock = IF \E i \in 1 .. n : mod[i] = 2 THEN 2 ELSE 1
        /\ soup = IF synced THEN [i \in 1 .. n |-> Downloaded(i, server[i])]
                  ELSE [i \in {} |-> 0]
        /\ nextEntry = Cardinality(DOMAIN soup) + 1
        /\ edits = n
        /\ latest = [s \in Entries |-> 0]
        /\ settled = {}
        /\ exposed = {}
  BY Zenon DEF Init, RecordsInit
<1>2. n \in Nat
  BY BoundsAssumption, ConfsAssumption DEF Init, InitialRecords
<1>3. DOMAIN server = 1 .. n /\ Cardinality(1 .. n) = n
  BY <1>1, <1>2, FS_Interval
<1>4. \A i \in 1 .. n : server[i].key = i /\ server[i].edit = i
  BY <1>1
<1>5. ServerKeys
  BY <1>1, <1>2, <1>3, <1>4 DEF ServerKeys, Numbered
<1>6. SoupKeys
  <2>1. CASE synced
    <3>1. DOMAIN soup = 1 .. n /\ \A i \in 1 .. n : soup[i] = Downloaded(i, server[i])
      BY <1>1, <2>1
    <3>2. QED
      <4>1. \A i \in 1 .. n : soup[i].id = i /\ soup[i].key = i /\ soup[i].edit = i
        BY <1>4, <3>1 DEF Downloaded
      <4>2. QED
        BY <1>1, <1>2, <1>4, <3>1, <4>1 DEF SoupKeys, Keyed, Numbered
  <2>2. CASE ~synced
    BY <1>1, <2>2 DEF SoupKeys
  <2>3. QED
    BY <2>1, <2>2
<1>7. up = IdleUp /\ batch = IdleBatch /\ down = IdleDown
  BY DEF Init, UpInit, BatchInit, DownInit
<1>8. UpKeys
  BY <1>7 DEF IdleUp, UpKeys, InHand
<1>9. BatchKeys
  BY <1>7, IdleBatchFields, EmptyPartial DEF BatchKeys
<1>10. DownKeys
  BY <1>7 DEF IdleDown, DownKeys
<1>11. QED
  BY <1>5, <1>6, <1>8, <1>9, <1>10 DEF KeyInv

\* The id an element is saved with is that of the record made from it, whichever
\* answers the requests of a batch get and in whatever order the tasks, the
\* application and the other clients take their steps.
THEOREM IdsMatchCorrect == Spec => []IdsMatch
<1>1. TypeInv /\ KeyInv /\ [Next]_vars => TypeInv' /\ KeyInv'
  BY NextInv, KeysNext
<1>2. KeyInv => IdsMatch
  BY DEF KeyInv, SoupKeys, Keyed, IdsMatch
<1>3. QED
  BY InitInv, KeysInit, <1>1, <1>2, PTL DEF Spec
----------------------------------------------------------------------------
\* Without sync downs a new element is one the application has made.

LEMMA NextEntryStep ==
  ASSUME TypeInv, KeyInv, "down" \notin DownRuns, [Next]_vars
  PROVE  nextEntry' = nextEntry \/ AppCreate
<1>1. ~SavePage
  BY DEF KeyInv, DownKeys, SavePage
<1>2. CASE UpStep
  BY <1>2 DEF UpStep, StartSyncUp, EndSyncUp, ReadRecord, CheckModDate, CreateOnServer,
              UpdateOnServer, DeleteOnServer, SaveRecord, recordVars
<1>3. CASE BatchStep
  <2>1. CASE SendRequests \/ SaveAnswer
    BY <2>1 DEF SendRequests, SaveAnswer
  <2>2. CASE ~(SendRequests \/ SaveAnswer)
    BY <1>3, <2>2, BatchReadsKeys DEF BatchStep, recordVars
  <2>3. QED
    BY <2>1, <2>2
<1>4. CASE DownStep
  BY <1>1, <1>4 DEF DownStep, StartSyncDown, StartFetch, GetIdsToSkip, SaveProgress,
     ContinueFetch, EndSyncDown, StartGhosts, GetRemoteIds, DeleteGhosts, recordVars
<1>5. CASE App(Held)
  BY <1>5 DEF App, AppUpdate, AppDelete, AppFlags, AppPurge
<1>6. CASE Others
  BY <1>6 DEF Others, OtherCreate, OtherUpdate, OtherDelete, OtherWrites
<1>7. CASE Crash \/ UNCHANGED vars
  BY <1>7 DEF Crash, vars, recordVars
<1>8. QED
  BY <1>2, <1>3, <1>4, <1>5, <1>6, <1>7 DEF Next, Worker

\* What the rows of a batch can be: those there were, or elements just read.
LEMMA BatchRowsStep ==
  ASSUME TypeInv, KeyInv, [Next]_vars
  PROVE  \/ \A s \in DOMAIN batch'.rows :
               s \in DOMAIN batch.rows /\ batch'.rows[s].key = batch.rows[s].key
         \/ \A s \in DOMAIN batch'.rows : s \in DOMAIN soup /\ batch'.rows[s] = soup[s]
<1>1. CASE batch' = batch
  BY <1>1
<1>2. CASE BatchEnds
  <2>1. DOMAIN batch'.rows = {}
    BY <1>2, IdleBatchFields, EmptyPartial DEF BatchEnds
  <2>2. QED
    BY <2>1
<1>3. CASE StartBatchSyncUp
  <2>1. batch'.rows = None
    BY <1>3, IdleBatchFields DEF StartBatchSyncUp
  <2>2. QED
    BY <2>1, EmptyPartial
<1>4. CASE ReadRecords
  <2>1. batch'.rows = Restrict(soup, batch.left \intersect DOMAIN soup)
    BY <1>4, BatchFields DEF ReadRecords
  <2>2. QED
    BY <2>1 DEF Restrict
<1>5. CASE CheckModDates \/ CheckedModDates \/ FillBatch
  <2>1. batch'.rows = batch.rows \/ BatchEnds
    BY <1>5, BatchFields DEF CheckModDates, CheckedModDates, FillBatch
  <2>2. QED
    BY <1>2, <2>1
<1>6. CASE NextBatch
  <2>1. batch'.rows = Restrict(batch.rows, batch.todo)
    BY <1>6, BatchFields DEF NextBatch
  <2>2. batch.todo \subseteq DOMAIN batch.rows
    BY DEF TypeInv, BatchInv, Pending
  <2>3. QED
    BY <2>1, <2>2 DEF Restrict
<1>7. CASE SendRequests
  <2>1. BatchEnds \/ \E refused \in SUBSET Requested : AnswerSaved(refused)
    BY <1>7, SendRequestsEffect
  <2>2. ASSUME NEW refused \in SUBSET Requested, AnswerSaved(refused)
        PROVE  batch'.rows = batch.rows
    BY <2>2 DEF AnswerSaved
  <2>3. QED
    BY <1>2, <2>1, <2>2
<1>8. CASE SaveAnswer
  <2>1. PICK s \in batch.unsaved :
           /\ s \in DOMAIN batch.rows /\ Rows[s] \in Row
           /\ \/ RowSaved(s, Rows[s]) \/ RowSaved(s, CleanRow(s)) \/ SentAgain(s)
    BY <1>8, SaveAnswerEffect
  <2>2. PICK row : batch'.rows = [batch.rows EXCEPT ![s] = row] /\ row.key = batch.rows[s].key
    BY <2>1 DEF RowSaved, SentAgain, CleanRow, NewRow, Rows, Row
  <2>3. QED
    BY <2>1, <2>2
<1>9. BatchStep \/ batch' = batch \/ BatchEnds
  BY DEF Next, Worker, Crash, vars, DownStep
<1>10. QED
  BY <1>1, <1>2, <1>3, <1>4, <1>5, <1>6, <1>7, <1>8, <1>9 DEF BatchStep, EndBatchSyncUp

LEMMA ElementsNext ==
  ASSUME TypeInv, TypeInv', KeyInv, OneElementPerKey, [Next]_vars
  PROVE  OneElementPerKey'
<1>1. conf' = conf /\ Keeps
  BY KeysNext DEF Next, vars
<1> SUFFICES ASSUME "down" \notin DownRuns
             PROVE  /\ \A s, t \in DOMAIN soup' : soup'[s].key = soup'[t].key => s = t
                    /\ \A s, t \in DOMAIN batch'.rows :
                          batch'.rows[s].key = batch'.rows[t].key => s = t
  BY <1>1 DEF OneElementPerKey, DownRuns
<1>2. CASE nextEntry' = nextEntry
  <2>1. \A s \in DOMAIN soup' : s < nextEntry
    BY <1>2 DEF TypeInv, SoupInv
  <2>2. \A s \in DOMAIN soup' : s \in DOMAIN soup /\ soup'[s].key = soup[s].key
    BY <1>1, <2>1 DEF Keeps, SoupKept
  <2>3. QED
    BY <2>2, BatchRowsStep DEF OneElementPerKey
<1>3. CASE AppCreate
  <2> DEFINE row == [id |-> LocalId, edit |-> edits', mod |-> NoDate, key |-> edits',
                     flags |-> {"created"}]
  <2>1. soup' = With(soup, nextEntry, [row EXCEPT !.edit = edits'])
    BY <1>3 DEF AppCreate, AppWrites
  <2>2. DOMAIN soup' = DOMAIN soup \union {nextEntry} /\ soup'[nextEntry].key = edits'
        /\ \A s \in DOMAIN soup : s # nextEntry => soup'[s] = soup[s]
    BY <2>1 DEF With
  <2>3. edits' = edits + 1 /\ edits \in Nat
    BY <1>3, NewEditOK, EditsNat DEF AppCreate, TypeInv, TypeOK
  <2>4. \A s \in DOMAIN soup : soup[s].key \in Nat /\ soup[s].key <= edits
    BY RowNumbers DEF TypeInv, SoupInv, KeyInv, SoupKeys, Numbered
  <2>5. \A s \in DOMAIN soup : soup[s].key # edits'
    BY <2>3, <2>4
  <2>6. QED
    BY <2>2, <2>5, BatchRowsStep DEF OneElementPerKey
<1>4. QED
  BY <1>2, <1>3, NextEntryStep

LEMMA ElementsInit == Init => OneElementPerKey
<1> SUFFICES ASSUME Init PROVE OneElementPerKey
  OBVIOUS
<1>1. PICK n \in 0 .. InitialRecords, mod \in [1 .. InitialRecords -> Dates],
           synced \in BOOLEAN :
        /\ server = [i \in 1 .. n |-> [live |-> TRUE, edit |-> i, mod |-> mod[i], key |-> i]]
        /\ \A i \in n + 1 .. InitialRecords : mod[i] = 1
        /\ \A i \in 1 .. n : mod[i] <= 2
        /\ clock = IF \E i \in 1 .. n : mod[i] = 2 THEN 2 ELSE 1
        /\ soup = IF synced THEN [i \in 1 .. n |-> Downloaded(i, server[i])]
                  ELSE [i \in {} |-> 0]
        /\ nextEntry = Cardinality(DOMAIN soup) + 1
        /\ edits = n
        /\ latest = [s \in Entries |-> 0]
        /\ settled = {}
        /\ exposed = {}
  BY Zenon DEF Init, RecordsInit
<1>2. \A s \in DOMAIN soup : soup[s].key = s
  BY <1>1 DEF Downloaded
<1>3. DOMAIN batch.rows = {}
  BY IdleBatchFields, EmptyPartial DEF Init, BatchInit
<1>4. QED
  BY <1>2, <1>3 DEF OneElementPerKey
----------------------------------------------------------------------------
\* The ids of the elements when each create makes a record of its own.

\* A step gives ids to elements that no element holds.
LEMMA HoldsStep ==
  ASSUME IdInv, conf' = conf, NEW given,
         \A i \in Ids, s \in Entries : Holds(s, i)' => Holds(s, i) \/ <<s, i>> \in given,
         \A i \in Ids, s, t \in Entries :
            <<s, i>> \in given => ~Holds(t, i) /\ (<<t, i>> \in given => s = t)
  PROVE  IdInv'
<1> SUFFICES ASSUME ~ExternalIds, NEW i \in Ids, NEW s \in Entries, NEW t \in Entries,
                    Holds(s, i)', Holds(t, i)'
             PROVE  s = t
  BY DEF IdInv, ExternalIds
<1>1. CASE Holds(s, i) /\ Holds(t, i)
  BY <1>1 DEF IdInv
<1>2. QED
  BY <1>1

LEMMA HoldsLess ==
  ASSUME IdInv, conf' = conf, \A i \in Ids, s \in Entries : Holds(s, i)' => Holds(s, i)
  PROVE  IdInv'
BY DEF IdInv, ExternalIds

LEMMA HeldIsKnown ==
  ASSUME TypeInv, NEW i \in Ids, NEW s, Holds(s, i)
  PROVE  i \in DOMAIN server
BY DEF Holds, TypeInv, SoupInv, UpInv, BatchInv, RowOK

\* The tasks keep what they hold.
TaskHolds(s, i) ==
    \/ up.pc \in InHand /\ s = up.entry /\ up.row.id = i
    \/ up.pc = "save" /\ up.answer = "ok" /\ s = up.entry /\ up.id = i
    \/ s \in DOMAIN batch.rows /\ batch.rows[s].id = i
    \/ s \in DOMAIN batch.ids /\ batch.ids[s] = i

LEMMA HoldsSplit ==
  ASSUME NEW s, NEW i
  PROVE  /\ Holds(s, i) <=>
               /\ i # LocalId
               /\ (s \in DOMAIN soup /\ soup[s].id = i) \/ TaskHolds(s, i)
         /\ Holds(s, i)' <=>
               /\ i # LocalId
               /\ (s \in DOMAIN soup' /\ soup'[s].id = i) \/ TaskHolds(s, i)'
BY DEF Holds, TaskHolds

\* A step that changes no id, or takes some away.
LEMMA SoupIdsStay ==
  ASSUME IdInv, UNCHANGED <<conf, up, batch>>,
         \A s \in DOMAIN soup' :
            soup'[s].id = LocalId \/ (s \in DOMAIN soup /\ soup'[s].id = soup[s].id)
  PROVE  IdInv'
<1>1. ASSUME NEW i \in Ids, NEW s \in Entries, Holds(s, i)' PROVE Holds(s, i)
  BY <1>1 DEF Holds
<1>2. QED
  BY <1>1, HoldsLess

LEMMA AppIds ==
  ASSUME TypeInv, IdInv, NEW held, App(held), UNCHANGED <<conf, up, batch>>
  PROVE  IdInv'
<1>1. \A s \in DOMAIN soup' :
         soup'[s].id = LocalId \/ (s \in DOMAIN soup /\ soup'[s].id = soup[s].id)
  <2>1. CASE AppCreate
    BY <2>1 DEF AppCreate, AppWrites, With
  <2>2. CASE AppPurge
    BY <2>2 DEF AppPurge, Without
  <2>3. ASSUME NEW flag, NEW op, AppFlags(flag, op, held)
        PROVE  \A s \in DOMAIN soup' : s \in DOMAIN soup /\ soup'[s].id = soup[s].id
    <3>1. PICK r \in DOMAIN soup :
             soup' = With(soup, r, [[soup[r] EXCEPT !.flags = @ \union {flag}]
                                       EXCEPT !.edit = edits'])
      BY <2>3 DEF AppFlags, AppWrites
    <3>2. [[soup[r] EXCEPT !.flags = @ \union {flag}] EXCEPT !.edit = edits'].id = soup[r].id
      BY DEF TypeInv, TypeOK, RecordsTypeOK, Row
    <3>3. QED
      BY <3>1, <3>2 DEF With
  <2>4. QED
    BY <2>1, <2>2, <2>3 DEF App, AppUpdate, AppDelete
<1>2. QED
  BY <1>1, SoupIdsStay

LEMMA DownStepIds ==
  ASSUME TypeInv, KeyInv, IdInv, DownStep, UpIdle, UNCHANGED <<conf, up, batch>>
  PROVE  IdInv'
<1>1. CASE soup' = soup
  BY <1>1, SoupIdsStay
<1>2. CASE DeleteGhosts
  BY <1>2, SoupIdsStay DEF DeleteGhosts, Without
<1>3. ASSUME SavePage,
             NEW order \in Bijection(NewOnes, nextEntry .. nextEntry + Cardinality(NewOnes) - 1),
             soup' = Upserted(order)
      PROVE  IdInv'
  <2> DEFINE given == {<<order[x], x.id>> : x \in NewOnes}
  <2>1. \A s, i : ~TaskHolds(s, i) /\ ~TaskHolds(s, i)'
    <3>1. DOMAIN batch.rows = {}
      BY EmptyPartial DEF UpIdle, KeyInv, BatchKeys
    <3>2. DOMAIN batch.ids = {}
      BY <3>1 DEF KeyInv, BatchKeys
    <3>3. QED
      BY <3>1, <3>2 DEF TaskHolds, UpIdle, InHand
  <2>2. \A s \in DOMAIN soup' :
           \/ s \in DOMAIN soup /\ soup'[s].id = soup[s].id
           \/ \E x \in NewOnes : order[x] = s /\ soup'[s] = Downloaded(x.id, x.record)
    BY <1>3, SavedPageEffect
  <2>3. \A i \in Ids, s \in Entries : Holds(s, i)' => Holds(s, i) \/ <<s, i>> \in given
    BY <2>1, <2>2, HoldsSplit DEF Downloaded
  <2>4. ASSUME NEW i \in Ids, NEW s \in Entries, NEW t \in Entries, <<s, i>> \in given
        PROVE  ~Holds(t, i) /\ (<<t, i>> \in given => s = t)
    <3>1. PICK x \in NewOnes : s = order[x] /\ i = x.id
      BY <2>4
    <3>2. ~Holds(t, i)
      BY <2>1, <3>1, HoldsSplit DEF NewOnes, EntriesOf
    <3>3. \A y \in NewOnes : y.id = x.id => y = x
      BY DEF NewOnes, ToSave, KeyInv, DownKeys
    <3>4. QED
      BY <3>1, <3>2, <3>3
  <2> HIDE DEF given
  <2>5. QED
    BY <2>3, <2>4, HoldsStep
<1>4. QED
  BY <1>1, <1>2, <1>3, DownReadsKeys DEF DownStep, SavePage, recordVars

LEMMA RestPc == ASSUME NEW left, up' = Rest(left) PROVE up'.pc = "next"
<1>1. up' = [pc |-> "next", left |-> left, entry |-> 0, row |-> [flags |-> {}],
             answer |-> "ok", id |-> LocalId, seen |-> 0]
  BY DEF Rest, IdleUp
<1>2. QED
  BY <1>1

LEMMA UpFreePc == UpEnds \/ UpNextRecord => up'.pc \notin InHand
<1>1. UpEnds => up'.pc = "idle"
  BY DEF UpEnds, IdleUp
<1>2. UpNextRecord => up'.pc = "next"
  BY RestPc DEF UpNextRecord
<1>3. QED
  BY <1>1, <1>2 DEF InHand

LEMMA UpIdsEffect ==
  ASSUME TypeInv, KeyInv, ~ExternalIds, UpStep
  PROVE  \/ soup' = soup /\ up'.pc \notin InHand
         \/ /\ soup' = soup /\ up'.pc # "save"
            /\ up'.entry \in DOMAIN soup /\ up'.row = soup[up'.entry]
         \/ /\ soup' = soup /\ up.pc \in InHand /\ up'.entry = up.entry /\ up'.row = up.row
            /\ up'.pc = "save" /\ up'.answer = "ok" =>
                  up'.id = up.row.id \/ up'.id \in UnusedId
         \/ /\ up'.pc \notin InHand /\ up.pc = "save"
            /\ \A s \in DOMAIN soup' :
                  /\ s \in DOMAIN soup
                  /\ \/ soup'[s] = soup[s]
                     \/ s = up.entry /\ soup'[s].id = up.row.id
                     \/ s = up.entry /\ up.answer = "ok" /\ soup'[s].id = up.id
<1>1. up \in Up
  BY DEF TypeInv, TypeOK, UpTypeOK
<1>2. UpEnds \/ UpNextRecord => up'.pc \notin InHand
  BY UpFreePc
<1>3. ASSUME NEW answer, NEW id, Answered(answer, id)
      PROVE  /\ up'.pc = "save" /\ up'.answer = answer /\ up'.id = id
             /\ up'.entry = up.entry /\ up'.row = up.row
  BY <1>1, <1>3 DEF Answered, Up
<1>4. CASE StartSyncUp \/ EndSyncUp
  <2>1. soup' = soup
    BY <1>4 DEF StartSyncUp, EndSyncUp, recordVars
  <2>2. up'.pc \notin InHand
    BY <1>2, <1>4, RestPc DEF StartSyncUp, EndSyncUp, InHand
  <2>3. QED
    BY <2>1, <2>2
<1>5. CASE ReadRecord
  <2> DEFINE s == Min(up.left)
             pc == IF UpMergeMode = "LEAVE_IF_CHANGED" /\ "created" \notin soup[s].flags
                   THEN "check" ELSE "send"
  <2>1. soup' = soup
    BY <1>5 DEF ReadRecord, recordVars
  <2>2. CASE s \in DOMAIN soup /\ up' = [up EXCEPT !.pc = pc, !.left = @ \ {s}, !.entry = s,
                                                   !.row = soup[s]]
    <3>1. pc # "save"
      OBVIOUS
    <3> HIDE DEF s, pc
    <3>2. up'.pc = pc /\ up'.entry = s /\ up'.row = soup[s]
      BY <1>1, <2>2 DEF Up
    <3>3. QED
      BY <2>1, <2>2, <3>1, <3>2
  <2>3. QED
    BY <1>2, <1>5, <2>1, <2>2 DEF ReadRecord, UpEnds
<1>6. CASE CheckModDate
  <2>1. soup' = soup /\ up.pc \in InHand
    BY <1>6 DEF CheckModDate, recordVars, InHand
  <2>2. CASE up' = [up EXCEPT !.pc = "send", !.seen = server[up.row.id].edit]
    <3>1. up'.pc = "send" /\ up'.entry = up.entry /\ up'.row = up.row
      BY <1>1, <2>2 DEF Up
    <3>2. QED
      BY <2>1, <3>1
  <2>3. QED
    BY <1>2, <1>6, <2>1, <2>2 DEF CheckModDate
<1>7. CASE CreateOnServer
  <2>1. soup' = soup /\ up.pc \in InHand
    BY <1>7 DEF CreateOnServer, InHand
  <2>2. Created(up.row) = UnusedId
    BY DEF Created
  <2>3. \/ UpEnds \/ UpNextRecord \/ Answered("refused", LocalId)
        \/ \E i \in UnusedId : Answered("ok", i)
    BY <1>7, <2>2 DEF CreateOnServer, Accepted, Refused
  <2>4. QED
    BY <1>2, <1>3, <2>1, <2>3
<1>8. CASE UpdateOnServer \/ DeleteOnServer
  <2>1. soup' = soup /\ up.pc \in InHand
    BY <1>8 DEF UpdateOnServer, DeleteOnServer, InHand
  <2>2. \/ UpEnds \/ UpNextRecord \/ Answered("refused", LocalId) \/ Answered("gone", LocalId)
        \/ Answered("ok", up.row.id) \/ up' = [up EXCEPT !.pc = "recreate"]
    BY <1>8 DEF UpdateOnServer, DeleteOnServer, Accepted, Refused
  <2>3. CASE up' = [up EXCEPT !.pc = "recreate"]
    <3>1. up'.pc = "recreate" /\ up'.entry = up.entry /\ up'.row = up.row
      BY <1>1, <2>3 DEF Up
    <3>2. QED
      BY <2>1, <3>1
  <2>4. QED
    BY <1>2, <1>3, <2>1, <2>2, <2>3
<1>9. CASE SaveRecord
  <2> DEFINE s == up.entry
             clean == [up.row EXCEPT !.flags = {}, !.id = up.id]
  <2>1. up.pc = "save" /\ UpNextRecord /\ soup' = Saved /\ up.pc \in InHand
    BY <1>9 DEF SaveRecord, InHand
  <2>2. up.row \in Row /\ up.answer \in Answer
    BY <1>1, <2>1, UpRecordOK DEF Up
  <2>3. clean.id = up.id
    BY <2>2 DEF Row
  <2>4. \/ soup' = soup \/ soup' = Without(soup, {s})
        \/ s \in DOMAIN soup /\ soup' = With(soup, s, up.row)
        \/ /\ up.answer # "refused" /\ ~Wants(up.row, "delete")
           /\ s \in DOMAIN soup /\ soup' = With(soup, s, clean)
    BY <2>1 DEF Saved
  <2> HIDE DEF clean
  <2>5. CASE \/ soup' = soup \/ soup' = Without(soup, {s})
             \/ s \in DOMAIN soup /\ soup' = With(soup, s, up.row)
    BY <1>2, <2>1, <2>5 DEF With, Without
  <2>6. CASE /\ up.answer # "refused" /\ ~Wants(up.row, "delete")
             /\ s \in DOMAIN soup /\ soup' = With(soup, s, clean)
    <3>1. up.answer = "ok"
      BY <2>1, <2>2, <2>6 DEF TypeInv, UpInv, Wants, Answer
    <3>2. QED
      BY <1>2, <2>1, <2>3, <2>6, <3>1 DEF With
  <2>7. QED
    BY <2>4, <2>5, <2>6
<1>10. QED
  BY <1>4, <1>5, <1>6, <1>7, <1>8, <1>9 DEF UpStep

LEMMA UpStepIds ==
  ASSUME TypeInv, KeyInv, IdInv, UpStep, UNCHANGED <<conf, batch>>
  PROVE  IdInv'
<1> SUFFICES ASSUME ~ExternalIds PROVE IdInv'
  BY DEF IdInv, ExternalIds
<1>1. CASE soup' = soup /\ up'.pc \notin InHand
  <2>1. \A i \in Ids, s \in Entries : Holds(s, i)' => Holds(s, i)
    BY <1>1 DEF Holds, InHand
  <2>2. QED
    BY <2>1, HoldsLess
<1>2. CASE /\ soup' = soup /\ up'.pc # "save"
           /\ up'.entry \in DOMAIN soup /\ up'.row = soup[up'.entry]
  <2>1. \A i \in Ids, s \in Entries : Holds(s, i)' => Holds(s, i)
    BY <1>2 DEF Holds
  <2>2. QED
    BY <2>1, HoldsLess
<1>3. CASE /\ soup' = soup /\ up.pc \in InHand /\ up'.entry = up.entry /\ up'.row = up.row
           /\ up'.pc = "save" /\ up'.answer = "ok" => up'.id = up.row.id \/ up'.id \in UnusedId
  <2> DEFINE given == {<<up.entry, i>> : i \in UnusedId}
  <2>1. \A i \in Ids, s \in Entries : Holds(s, i)' => Holds(s, i) \/ <<s, i>> \in given
    BY <1>3 DEF Holds
  <2>2. ASSUME NEW i \in Ids, NEW s \in Entries, NEW t \in Entries, <<s, i>> \in given
        PROVE  ~Holds(t, i) /\ (<<t, i>> \in given => s = t)
    <3>1. s = up.entry /\ i \in UnusedId
      BY <2>2
    <3>2. ~Holds(t, i)
      BY <3>1, HeldIsKnown, UnusedIds DEF KeyInv
    <3>3. QED
      BY <3>1, <3>2
  <2> HIDE DEF given
  <2>3. QED
    BY <2>1, <2>2, HoldsStep
<1>4. CASE /\ up'.pc \notin InHand /\ up.pc = "save"
           /\ \A s \in DOMAIN soup' :
                 /\ s \in DOMAIN soup
                 /\ \/ soup'[s] = soup[s]
                    \/ s = up.entry /\ soup'[s].id = up.row.id
                    \/ s = up.entry /\ up.answer = "ok" /\ soup'[s].id = up.id
  <2>1. \A i \in Ids, s \in Entries : Holds(s, i)' => Holds(s, i)
    BY <1>4 DEF Holds, InHand
  <2>2. QED
    BY <2>1, HoldsLess
<1>5. QED
  BY <1>1, <1>2, <1>3, <1>4, UpIdsEffect

LEMMA BatchReadsIds ==
  ASSUME TypeInv, KeyInv, IdInv, UNCHANGED <<conf, up>>,
         \/ StartBatchSyncUp \/ ReadRecords \/ CheckModDates \/ CheckedModDates
         \/ FillBatch \/ NextBatch \/ EndBatchSyncUp
  PROVE  IdInv'
<1>1. soup' = soup
  BY BatchReadsKeys DEF recordVars
<1>2. ASSUME \A s \in DOMAIN batch'.rows :
                \/ s \in DOMAIN batch.rows /\ batch'.rows[s] = batch.rows[s]
                \/ s \in DOMAIN soup /\ batch'.rows[s] = soup[s],
             \A s \in DOMAIN batch'.ids :
                s \in DOMAIN batch.ids /\ batch'.ids[s] = batch.ids[s]
      PROVE  IdInv'
  <2>1. \A i \in Ids, s \in Entries : Holds(s, i)' => Holds(s, i)
    BY <1>1, <1>2 DEF Holds
  <2>2. QED
    BY <2>1, HoldsLess
<1>3. DOMAIN None = {}
  BY EmptyPartial
<1>4. CASE BatchEnds \/ StartBatchSyncUp
  <2>1. batch'.rows = None /\ batch'.ids = None
    BY <1>4, IdleBatchFields DEF BatchEnds, StartBatchSyncUp
  <2>2. QED
    BY <1>2, <1>3, <2>1
<1>5. CASE ReadRecords
  <2>1. batch'.rows = Restrict(soup, batch.left \intersect DOMAIN soup)
        /\ batch'.ids = batch.ids
    BY <1>5, BatchFields DEF ReadRecords
  <2>2. QED
    BY <1>2, <2>1 DEF Restrict
<1>6. CASE CheckModDates \/ CheckedModDates \/ FillBatch
  <2>1. (batch'.rows = batch.rows /\ batch'.ids = batch.ids) \/ BatchEnds
    BY <1>6, BatchFields DEF CheckModDates, CheckedModDates, FillBatch
  <2>2. QED
    BY <1>2, <1>4, <2>1
<1>7. CASE NextBatch
  <2>1. batch'.rows = Restrict(batch.rows, batch.todo) /\ batch'.ids = None
    BY <1>7, BatchFields DEF NextBatch
  <2>2. batch.todo \subseteq DOMAIN batch.rows
    BY DEF TypeInv, BatchInv, Pending
  <2>3. QED
    BY <1>2, <1>3, <2>1, <2>2 DEF Restrict
<1>8. QED
  BY <1>4, <1>5, <1>6, <1>7 DEF EndBatchSyncUp

LEMMA SendRequestsIds ==
  ASSUME TypeInv, KeyInv, IdInv, SendRequests, ~ExternalIds, UNCHANGED <<conf, up>>
  PROVE  IdInv'
<1>1. soup' = soup
  BY SendRequestsEffect
<1>2. CASE BatchEnds
  <2>1. DOMAIN batch'.rows = {} /\ DOMAIN batch'.ids = {}
    BY <1>2, IdleBatchFields, EmptyPartial DEF BatchEnds
  <2>2. \A i \in Ids, s \in Entries : Holds(s, i)' => Holds(s, i)
    BY <1>1, <2>1 DEF Holds
  <2>3. QED
    BY <2>2, HoldsLess
<1>3. ASSUME NEW refused \in SUBSET Requested, AnswerSaved(refused)
      PROVE  IdInv'
  <2> DEFINE done == DoneOf(refused)
             given == {<<s, ServerId(s, done)>> : s \in New(done)}
  <2>1. done \in SUBSET Requested
    BY DoneRequested
  <2>2. batch'.rows = batch.rows /\ batch'.ids = Merge(batch.ids, AnsweredIds(done))
    BY <1>3 DEF AnswerSaved
  <2> HIDE DEF done
  <2>3. ASSUME NEW s \in DOMAIN batch'.ids
        PROVE  \/ s \in DOMAIN batch.ids /\ batch'.ids[s] = batch.ids[s]
               \/ s \in DOMAIN batch.rows /\ batch'.ids[s] = batch.rows[s].id
               \/ s \in New(done) /\ batch'.ids[s] = ServerId(s, done)
    <3>1. CASE s \in DOMAIN batch.ids
      BY <2>2, <3>1 DEF Merge
    <3>2. CASE s \notin DOMAIN batch.ids
      <4>1. s \in done /\ batch'.ids[s] = ServerId(s, done)
        BY <2>2, <2>3, <3>2 DEF Merge, AnsweredIds
      <4>2. CASE IsNew(s)
        BY <4>1, <4>2 DEF New
      <4>3. CASE ~IsNew(s)
        <5>1. ~Wants(Rows[s], "create")
          BY <4>3 DEF IsNew, Created
        <5>2. s \in DOMAIN batch.rows
          BY <2>1, <4>1, RequestedOK
        <5>3. QED
          BY <4>1, <5>1, <5>2 DEF ServerId, Rows
      <4>4. QED
        BY <4>2, <4>3
    <3>3. QED
      BY <3>1, <3>2
  <2>4. \A i \in Ids, s \in Entries : Holds(s, i)' => Holds(s, i) \/ <<s, i>> \in given
    <3>1. ASSUME NEW i \in Ids, NEW s \in Entries, Holds(s, i)'
          PROVE  Holds(s, i) \/ (s \in New(done) /\ i = ServerId(s, done))
      BY <1>1, <2>2, <2>3, <3>1 DEF Holds
    <3>2. QED
      BY <3>1
  <2>5. ASSUME NEW i \in Ids, NEW s \in Entries, NEW t \in Entries, <<s, i>> \in given
        PROVE  ~Holds(t, i) /\ (<<t, i>> \in given => s = t)
    <3>1. s \in New(done) /\ i = ServerId(s, done)
      BY <2>5
    <3>2. ~Holds(t, i)
      BY <2>1, <3>1, HeldIsKnown, NewIsUnknown
    <3>3. ASSUME <<t, i>> \in given PROVE s = t
      <4>1. t \in New(done) /\ i = ServerId(t, done)
        BY <3>3
      <4>2. QED
        BY <2>1, <3>1, <4>1, NewIds
    <3>4. QED
      BY <3>2, <3>3
  <2> HIDE DEF given
  <2>6. QED
    BY <2>4, <2>5, HoldsStep
<1>4. QED
  BY <1>2, <1>3, SendRequestsEffect

LEMMA SaveAnswerIds ==
  ASSUME TypeInv, KeyInv, IdInv, SaveAnswer, UNCHANGED <<conf, up>>
  PROVE  IdInv'
<1>1. PICK s \in batch.unsaved :
               /\ s \in DOMAIN batch.rows /\ Rows[s] \in Row
               /\ \/ soup' = Without(soup, {s}) /\ RowSaved(s, Rows[s])
                  \/ Cleans(s) /\ Save(s, CleanRow(s)) /\ RowSaved(s, CleanRow(s))
                  \/ soup' = soup /\ SentAgain(s)
                  \/ Save(s, Rows[s]) /\ RowSaved(s, Rows[s])
  BY SaveAnswerEffect
<1>2. ASSUME NEW row,
             row.id = batch.rows[s].id \/ (s \in DOMAIN batch.ids /\ row.id = batch.ids[s]),
             soup' = soup \/ soup' = Without(soup, {s}) \/ Save(s, row),
             batch'.rows = [batch.rows EXCEPT ![s] = row],
             batch'.ids = batch.ids \/ batch'.ids = None
      PROVE  IdInv'
  <2>1. \A r \in DOMAIN soup' :
           r \in DOMAIN soup /\ (soup'[r] = soup[r] \/ (r = s /\ soup'[r] = row))
    BY <1>2 DEF Save, With, Without
  <2>2. \A r \in DOMAIN batch'.rows :
           /\ r \in DOMAIN batch.rows
           /\ batch'.rows[r] = batch.rows[r] \/ (r = s /\ batch'.rows[r] = row)
    BY <1>2
  <2>3. \A r \in DOMAIN batch'.ids : r \in DOMAIN batch.ids /\ batch'.ids[r] = batch.ids[r]
    BY <1>2, EmptyPartial
  <2>4. \A i \in Ids, r \in Entries : Holds(r, i)' => Holds(r, i)
    BY <1>1, <1>2, <2>1, <2>2, <2>3 DEF Holds
  <2>5. QED
    BY <2>4, HoldsLess
<1>3. ASSUME NEW row, RowSaved(s, row)
      PROVE  batch'.rows = [batch.rows EXCEPT ![s] = row] /\ batch'.ids = batch.ids
  BY <1>3 DEF RowSaved
<1>4. CASE Cleans(s) /\ Save(s, CleanRow(s)) /\ RowSaved(s, CleanRow(s))
  <2>1. s \in DOMAIN batch.ids
    BY <1>4 DEF Cleans, Got, TypeInv, BatchInv
  <2>2. CleanRow(s).id = batch.ids[s]
    BY <1>1 DEF CleanRow, Row
  <2>3. QED
    BY <1>2, <1>3, <1>4, <2>1, <2>2
<1>5. CASE soup' = soup /\ SentAgain(s)
  <2>1. NewRow(s).id = batch.rows[s].id
    BY <1>1 DEF NewRow, Row, Rows
  <2>2. QED
    BY <1>2, <1>5, <2>1 DEF SentAgain
<1>6. CASE (soup' = Without(soup, {s}) \/ Save(s, Rows[s])) /\ RowSaved(s, Rows[s])
  BY <1>2, <1>3, <1>6 DEF Rows
<1>7. QED
  BY <1>1, <1>4, <1>5, <1>6

LEMMA IdsNext ==
  ASSUME TypeInv, KeyInv, IdInv, [Next]_vars
  PROVE  IdInv'
<1> SUFFICES ASSUME ~ExternalIds PROVE IdInv'
  BY DEF IdInv, ExternalIds, Next, vars
<1>1. CASE Worker /\ UNCHANGED conf
  <2>1. CASE BatchStep /\ UNCHANGED <<conf, up>>
    BY <2>1, BatchReadsIds, SendRequestsIds, SaveAnswerIds DEF BatchStep
  <2>2. QED
    BY <1>1, <2>1, UpStepIds, DownStepIds DEF Worker
<1>2. CASE App(Held) /\ UNCHANGED <<conf, up, batch>>
  BY <1>2, AppIds
<1>3. CASE UNCHANGED <<soup, conf, up, batch>>
  BY <1>3, SoupIdsStay
<1>4. CASE Crash /\ UNCHANGED conf
  <2>1. soup' = soup /\ up'.pc = "idle"
    BY <1>4 DEF Crash, UpEnds, IdleUp, recordVars
  <2>2. DOMAIN batch'.rows = {} /\ DOMAIN batch'.ids = {}
    BY <1>4, IdleBatchFields, EmptyPartial DEF Crash, BatchEnds
  <2>3. \A i \in Ids, s \in Entries : Holds(s, i)' => Holds(s, i)
    BY <2>1, <2>2 DEF Holds, InHand
  <2>4. QED
    BY <1>4, <2>3, HoldsLess
<1>5. Others => soup' = soup
  BY DEF Others, OtherCreate, OtherUpdate, OtherDelete, OtherWrites
<1>6. QED
  BY <1>1, <1>2, <1>3, <1>4, <1>5 DEF Next, vars, recordVars

LEMMA IdsInit == Init => IdInv
<1> SUFFICES ASSUME Init, NEW i \in Ids, NEW s \in Entries, NEW t \in Entries,
                    Holds(s, i), Holds(t, i)
             PROVE  s = t
  BY DEF IdInv
<1>1. PICK n \in 0 .. InitialRecords, synced \in BOOLEAN :
         soup = IF synced THEN [j \in 1 .. n |-> Downloaded(j, server[j])]
                ELSE [j \in {} |-> 0]
  BY DEF Init, RecordsInit
<1>2. \A r \in DOMAIN soup : soup[r].id = r
  BY <1>1 DEF Downloaded
<1>3. DOMAIN batch.rows = {} /\ DOMAIN batch.ids = {} /\ up.pc = "idle"
  BY IdleBatchFields, EmptyPartial DEF Init, BatchInit, UpInit, IdleUp
<1>4. QED
  BY <1>2, <1>3 DEF Holds, InHand

LEMMA UniqueIds ==
  ASSUME TypeInv, KeyInv, IdInv, OneElementPerKey, ~ExternalIds \/ "down" \notin DownRuns
  PROVE  IdsAreUnique
<1> SUFFICES ASSUME NEW i \in Ids PROVE Cardinality(EntriesOf(i)) <= 1
  BY DEF IdsAreUnique
<1>1. i # LocalId /\ \A s \in EntriesOf(i) : s \in DOMAIN soup /\ s \in Entries /\ soup[s].id = i
  BY DEF EntriesOf, Ids, LocalId, TypeInv, TypeOK, RecordsTypeOK
<1>2. ASSUME NEW s \in EntriesOf(i), NEW t \in EntriesOf(i) PROVE s = t
  <2>1. CASE ~ExternalIds
    BY <1>1, <2>1 DEF IdInv, Holds
  <2>2. CASE "down" \notin DownRuns
    <3>1. soup[s].key = soup[t].key
      BY <1>1 DEF KeyInv, SoupKeys, Keyed
    <3>2. QED
      BY <1>1, <2>2, <3>1 DEF OneElementPerKey
  <2>3. QED
    BY <2>1, <2>2
<1>3. EntriesOf(i) = {} \/ \E s : EntriesOf(i) = {s}
  BY <1>2
<1>4. ASSUME NEW s, EntriesOf(i) = {s} PROVE Cardinality(EntriesOf(i)) = 1
  BY <1>4, FS_Singleton
<1>5. ASSUME EntriesOf(i) = {} PROVE Cardinality(EntriesOf(i)) = 0
  BY <1>5, FS_EmptySet
<1>6. QED
  BY <1>3, <1>4, <1>5

\* An id of the server belongs to one element, and no sync down fails for it, when
\* each create makes a record of its own, or when no sync down adds elements while
\* records wait for their ids.  (With an external id field and sync downs it may
\* belong to two: the answer to an upsert is lost, a sync down adds the record, and
\* the next upsert gives its id to the first element as well.)
THEOREM IdsAreUniqueCorrect ==
    Spec => []((~ExternalIds \/ "down" \notin DownRuns) => IdsAreUnique)
<1>1. /\ TypeInv /\ KeyInv /\ IdInv /\ OneElementPerKey /\ [Next]_vars
      => TypeInv' /\ KeyInv' /\ IdInv' /\ OneElementPerKey'
  BY NextInv, KeysNext, IdsNext, ElementsNext
<1>2. /\ TypeInv /\ KeyInv /\ IdInv /\ OneElementPerKey
      => ((~ExternalIds \/ "down" \notin DownRuns) => IdsAreUnique)
  BY UniqueIds
<1>3. QED
  BY InitInv, KeysInit, IdsInit, ElementsInit, <1>1, <1>2, PTL DEF Spec
----------------------------------------------------------------------------
\* The records made with an external id field.

\* A record that is made has a key no live record has.
LEMMA RecordsStep ==
  ASSUME OneRecord, KeysKept, conf' = conf, "down" \notin DownRuns \/ conf.target = "single",
         \A i \in DOMAIN server' \ DOMAIN server :
            /\ \A j \in Live : server[j].key # server'[i].key
            /\ \A j \in DOMAIN server' \ DOMAIN server :
                  server'[i].key = server'[j].key => i = j
  PROVE  OneRecord'
<1> SUFFICES ASSUME ExternalIds, NEW i \in Live', NEW j \in Live', server'[i].key = server'[j].key
             PROVE  i = j
  BY DEF OneRecord, ExternalIds
<1>1. i \in DOMAIN server' /\ j \in DOMAIN server' /\ server'[i].live /\ server'[j].live
  BY DEF Live
<1>2. \A x \in {i, j} : x \in DOMAIN server => x \in Live /\ server[x].key = server'[x].key
  BY <1>1 DEF KeysKept, Live
<1>3. QED
  BY <1>1, <1>2 DEF OneRecord

LEMMA SameRecords ==
  ASSUME OneRecord, KeysKept, conf' = conf, DOMAIN server' = DOMAIN server
  PROVE  OneRecord'
BY RecordsStep DEF OneRecord, ExternalIds, DownRuns

\* The key of the one record that a step adds is that of no live record.
LEMMA RecordAdded ==
  ASSUME OneRecord, KeysKept, conf' = conf, NEW i, NEW r, NEW t, r.key \in Nat,
         DOMAIN r = {"live", "edit", "mod", "key"}, ServerWrites(i, r, t),
         \A j \in Live : server[j].key # r.key
  PROVE  OneRecord'
<1>1. DOMAIN server' = DOMAIN server \union {i} /\ server'[i] = [r EXCEPT !.mod = t]
  BY DEF ServerWrites, With
<1>2. server'[i].key = r.key
  BY <1>1
<1>3. QED
  BY <1>1, <1>2, RecordsStep DEF OneRecord, ExternalIds, DownRuns

LEMMA OthersRecords ==
  ASSUME TypeInv, KeyInv, OneRecord, KeysKept, Others, conf' = conf
  PROVE  OneRecord'
<1>1. CASE OtherCreate
  <2> DEFINE r == [live |-> TRUE, edit |-> edits + 1, mod |-> clock, key |-> edits + 1]
  <2>1. PICK i \in UnusedId, t \in Ticks : ServerWrites(i, r, t)
    BY <1>1 DEF OtherCreate, OtherWrites
  <2>2. edits + 1 \in Nat /\ edits \in Nat
    BY EditsNat
  <2>3. \A j \in DOMAIN server : server[j].key \in Nat /\ server[j].key <= edits
    BY RecordNumbers, ServerRecordOK DEF KeyInv, ServerKeys, Numbered
  <2>4. \A j \in Live : server[j].key # edits + 1
    BY <2>2, <2>3 DEF Live
  <2>5. r.key = edits + 1 /\ DOMAIN r = {"live", "edit", "mod", "key"}
    OBVIOUS
  <2> HIDE DEF r
  <2>6. QED
    BY <2>1, <2>2, <2>4, <2>5, RecordAdded
<1>2. CASE OtherUpdate \/ OtherDelete
  <2>1. DOMAIN server' = DOMAIN server
    BY <1>2 DEF OtherUpdate, OtherDelete, OtherWrites, ServerWrites, With, Live
  <2>2. QED
    BY <2>1, SameRecords
<1>3. QED
  BY <1>1, <1>2 DEF Others

\* An upsert makes a record only if there is none.
LEMMA CreatesNone ==
  ASSUME TypeInv, KeyInv, ExternalIds, NEW row, NEW i \in Created(row), i \notin DOMAIN server
  PROVE  \A j \in Live : server[j].key # row.key
BY DEF Created, Live

LEMMA UpStepRecords ==
  ASSUME TypeInv, KeyInv, OneRecord, KeysKept, UpStep, conf' = conf
  PROVE  OneRecord'
<1> SUFFICES ASSUME ExternalIds PROVE OneRecord'
  BY DEF OneRecord, ExternalIds
<1>1. CASE server' = server
  BY <1>1, SameRecords
<1>2. CASE CreateOnServer
  <2> DEFINE r(t) == [live |-> TRUE, edit |-> up.row.edit, mod |-> t, key |-> up.row.key]
  <2>1. ASSUME NEW i \in Created(up.row), NEW t \in Ticks, ServerWrites(i, r(t), t)
        PROVE  OneRecord'
    <3>1. CASE i \in DOMAIN server
      <4>1. DOMAIN server' = DOMAIN server
        BY <2>1, <3>1 DEF ServerWrites, With
      <4>2. QED
        BY <4>1, SameRecords
    <3>2. CASE i \notin DOMAIN server
      <4>1. \A j \in Live : server[j].key # up.row.key
        BY <3>2, CreatesNone
      <4>2. up.row.key \in Nat
        <5>1. up.pc \in InHand
          BY <1>2 DEF CreateOnServer, InHand
        <5>2. QED
          BY <5>1, RowNumbers DEF TypeInv, UpInv
      <4>3. r(t).key = up.row.key /\ DOMAIN r(t) = {"live", "edit", "mod", "key"}
        OBVIOUS
      <4> HIDE DEF r
      <4>4. QED
        BY <2>1, <4>1, <4>2, <4>3, RecordAdded
    <3>3. QED
      BY <3>1, <3>2
  <2>2. QED
    BY <1>1, <1>2, <2>1 DEF CreateOnServer, Refused, Unchanged
<1>3. CASE UpdateOnServer \/ DeleteOnServer
  <2> DEFINE i == up.row.id
  <2>1. \/ server' = server
        \/ \E r : \E t \in Ticks : server[i].live /\ ServerWrites(i, r, t)
    BY <1>3 DEF UpdateOnServer, DeleteOnServer, Refused, Unchanged
  <2>2. CASE \E r : \E t \in Ticks : ServerWrites(i, r, t)
    <3>1. i \in DOMAIN server \/ server' = server
      <4>1. up.pc = "send" /\ (Wants(up.row, "update") \/ Wants(up.row, "delete"))
        BY <1>3 DEF UpdateOnServer, DeleteOnServer
      <4>2. CASE "created" \notin up.row.flags
        BY <4>1, <4>2, WantedId
      <4>3. CASE "created" \in up.row.flags
        BY <1>3, <4>3 DEF UpdateOnServer, DeleteOnServer, Wants
      <4>4. QED
        BY <4>2, <4>3
    <3>2. DOMAIN server' = DOMAIN server
      BY <2>2, <3>1 DEF ServerWrites, With
    <3>3. QED
      BY <3>2, SameRecords
  <2>3. QED
    BY <1>1, <2>1, <2>2
<1>4. QED
  BY <1>1, <1>2, <1>3 DEF UpStep, StartSyncUp, EndSyncUp, ReadRecord, CheckModDate, SaveRecord,
     recordVars

LEMMA SendRequestsRecords ==
  ASSUME TypeInv, KeyInv, OneElementPerKey, OneRecord, KeysKept, SendRequests, conf' = conf,
         conf.target # "single"
  PROVE  OneRecord'
<1> SUFFICES ASSUME ExternalIds, "down" \notin DownRuns PROVE OneRecord'
  BY DEF OneRecord, ExternalIds, DownRuns
<1>1. CASE server' = server
  BY <1>1, SameRecords
<1>2. ASSUME NEW refused \in SUBSET Requested, CarriesOut(DoneOf(refused)) PROVE OneRecord'
  <2> DEFINE done == DoneOf(refused)
  <2>1. done \in SUBSET Requested /\ CarriesOut(done)
    BY <1>2, DoneRequested
  <2> HIDE DEF done
  <2>2. DOMAIN server' = DOMAIN server \union {ServerId(s, done) : s \in done}
    BY <2>1, CarriesOutEffect
  <2>3. \A s \in done : server'[ServerId(s, done)].key = Rows[s].key
    BY <2>1, CarriesOutKeys, SendRequestsEffect
  <2>4. \A i \in DOMAIN server' \ DOMAIN server :
           \E s \in New(done) : i = ServerId(s, done) /\ server'[i].key = Rows[s].key
    BY <2>1, <2>2, <2>3, KnownIds DEF New
  <2>5. ASSUME NEW s \in New(done)
        PROVE  s \in DOMAIN batch.rows /\ \A j \in Live : server[j].key # Rows[s].key
    <3>1. s \in DOMAIN batch.rows /\ Created(Rows[s]) = UnusedId
      BY <2>1, RequestedOK DEF New, IsNew
    <3>2. ASSUME NEW j \in Live, server[j].key = Rows[s].key PROVE FALSE
      <4>1. j \in Created(Rows[s]) /\ j \in DOMAIN server
        BY <3>2 DEF Created, Live
      <4>2. QED
        BY <3>1, <4>1, UnusedIds DEF KeyInv
    <3>3. QED
      BY <3>1, <3>2
  <2>6. \A s, t \in New(done) : Rows[s].key = Rows[t].key => s = t
    BY <2>5 DEF OneElementPerKey, Rows
  <2>7. QED
    BY <2>4, <2>5, <2>6, RecordsStep
<1>3. QED
  BY <1>1, <1>2, SendRequestsEffect DEF Unchanged

LEMMA RecordsNext ==
  ASSUME TypeInv, KeyInv, OneElementPerKey, OneRecord, [Next]_vars
  PROVE  OneRecord'
<1>1. KeysKept
  BY KeysNext DEF Keeps
<1>2. CASE server' = server /\ conf' = conf
  BY <1>1, <1>2, SameRecords
<1>3. CASE Worker /\ UNCHANGED conf
  <2>1. CASE BatchStep /\ conf.target # "single"
    <3>1. CASE SaveAnswer
      BY <1>2, <1>3, <3>1, SaveAnswerEffect
    <3>2. QED
      BY <1>1, <1>2, <1>3, <2>1, <3>1, SendRequestsRecords, BatchReadsKeys
         DEF BatchStep, recordVars
  <2>2. CASE DownStep
    BY <1>2, <1>3, <2>2, DownReadsKeys DEF DownStep, SavePage, DeleteGhosts, recordVars
  <2>3. QED
    BY <1>1, <1>3, <2>1, <2>2, UpStepRecords DEF Worker
<1>4. CASE Others /\ UNCHANGED conf
  BY <1>1, <1>4, OthersRecords
<1>5. App(Held) => server' = server
  BY DEF App, AppCreate, AppUpdate, AppDelete, AppFlags, AppPurge, AppWrites
<1>6. QED
  BY <1>2, <1>3, <1>4, <1>5 DEF Next, Crash, vars, recordVars

LEMMA RecordsStart == Init => OneRecord
<1> SUFFICES ASSUME Init PROVE OneRecord
  OBVIOUS
<1>1. PICK n \in 0 .. InitialRecords, mod \in [1 .. InitialRecords -> Dates] :
         server = [i \in 1 .. n |-> [live |-> TRUE, edit |-> i, mod |-> mod[i], key |-> i]]
  BY DEF Init, RecordsInit
<1>2. \A i \in DOMAIN server : server[i].key = i
  BY <1>1
<1>3. QED
  BY <1>2 DEF OneRecord, Live

\* With an external id field no record is made twice, whichever answers are lost and
\* wherever the process dies: by a target that sends the records one by one, always;
\* by one that sends them in batches, when no sync down makes a second element of a
\* record that is waiting for its id (a batch with both would make two).
THEOREM OneRecordCorrect ==
    Spec => []((conf.target = "single" \/ "down" \notin DownRuns) => OneRecordPerKey)
<1>1. /\ TypeInv /\ KeyInv /\ OneElementPerKey /\ OneRecord /\ [Next]_vars
      => TypeInv' /\ KeyInv' /\ OneElementPerKey' /\ OneRecord'
  BY NextInv, KeysNext, ElementsNext, RecordsNext
<1>2. OneRecord => ((conf.target = "single" \/ "down" \notin DownRuns) => OneRecordPerKey)
  BY DEF OneRecord, OneRecordPerKey
<1>3. QED
  BY InitInv, KeysInit, ElementsInit, RecordsStart, <1>1, <1>2, PTL DEF Spec
=============================================================================
