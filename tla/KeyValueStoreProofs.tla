------------------------- MODULE KeyValueStoreProofs -------------------------
(***************************************************************************)
(* The key value store, for any sets of threads, keys and values and any   *)
(* number of calls.  The invariant is stated key by key (KeyInv): of a key *)
(* that is not tainted, one writer is at work at most, and where it is     *)
(* determines what the files and the cache of the key are.  What a save or *)
(* a deletion of everything has done so far holds for a tainted key too,   *)
(* if no call overlaps: that is what makes the key good again.             *)
(***************************************************************************)
EXTENDS KeyValueStore, TLAPS

GetPc       == {"cache", "read", "fill"}
SavePc      == {"encrypt_key", "open_key", "write_key",
                "encrypt_value", "open_value", "write_value", "put"}
DeletePc    == {"delete_key", "delete_value", "remove"}
DeleteAllPc == {"evict", "delete_keys", "delete_values"}
ChangePc    == {"mkdirs", "copy", "rename", "set_key"}

PartOf(pc, op) ==
    \/ op = "idle" /\ pc = "idle"
    \/ op = "get" /\ pc \in GetPc
    \/ op = "save" /\ pc \in SavePc
    \/ op = "delete" /\ pc \in DeletePc
    \/ op = "deleteAll" /\ pc \in DeleteAllPc
    \/ op = "change" /\ pc \in ChangePc

Op == {"idle", "get", "save", "delete", "deleteAll", "change"}
Pc == {"idle"} \cup GetPc \cup SavePc \cup DeletePc \cup DeleteAllPc \cup ChangePc

KF(k) == <<k, "key">>
VF(k) == <<k, "value">>

KeyFile   == [val : {"key"}, enc : EncKeys] \cup {None, Broken, Unencrypted}
ValueFile == [val : Values, enc : EncKeys] \cup {None, Broken, Unencrypted}

CallRec == [op : Op, keys : SUBSET Keys, pc : Pc, val : Values \cup {None},
            enc : EncKeys, out : Contents, todo : SUBSET Files, alone : BOOLEAN]

\* What a save is about to write is right for the file.
OutOK(c) ==
    /\ c.pc \in {"open_key", "write_key"} => c.out \in KeyFile
    /\ c.pc \in {"open_value", "write_value"} => c.out \in ValueFile

Shape(c) ==
    /\ PartOf(c.pc, c.op)
    /\ c.op = "idle" => c.keys = {}
    /\ c.op \in {"get", "save", "delete"} => \A k, l \in c.keys : k = l
    /\ c.op \in {"deleteAll", "change"} => c.keys = Keys
    /\ c.op = "save" \/ c.pc = "fill" => c.val \in Values
    /\ OutOK(c)

FilesOK(d) == \A k \in Keys : d[KF(k)] \in KeyFile /\ d[VF(k)] \in ValueFile

TypeInv ==
    /\ TypeOK
    /\ call \in [Threads -> CallRec]
    /\ \A t \in Threads : Shape(call[t])
    /\ FilesOK(dir) /\ FilesOK(tmp)

\* A call that is still alone, unless it only reads, shares no key.
AloneIsAlone ==
    \A t, q \in Threads :
        t # q /\ call[t].op # "get" /\ call[t].alone => call[t].keys \cap call[q].keys = {}
----------------------------------------------------------------------------
(* What a step does to its thread.                                         *)

Moves(t, pc, val, todo) ==
    /\ call' \in [Threads -> CallRec]
    /\ \A q \in Threads \ {t} : call'[q] = call[q]
    /\ call'[t].op = call[t].op
    /\ call'[t].keys = call[t].keys
    /\ call'[t].enc = call[t].enc
    /\ call'[t].alone = call[t].alone
    /\ call'[t].pc = pc /\ call'[t].val = val /\ call'[t].todo = todo

Returns(t) ==
    /\ call' \in [Threads -> CallRec]
    /\ \A q \in Threads \ {t} : call'[q] = call[q]
    /\ call'[t] = Idle

LEMMA IdleRec == Idle \in CallRec
  BY BoundAssumption DEF Idle, CallRec, Op, Pc, Files, Contents

LEMMA GotoEffect ==
  ASSUME TypeInv, NEW t \in Threads, NEW pc \in Pc, Goto(t, pc)
  PROVE  Moves(t, pc, call[t].val, call[t].todo) /\ call'[t].out = call[t].out
  BY DEF TypeInv, Goto, Moves, CallRec

LEMMA EncryptEffect ==
  ASSUME TypeInv, NEW t \in Threads, NEW pc \in Pc, NEW out \in Contents,
         call' = [call EXCEPT ![t].pc = pc, ![t].out = out]
  PROVE  Moves(t, pc, call[t].val, call[t].todo) /\ call'[t].out = out
  BY DEF TypeInv, Moves, CallRec

LEMMA ReturnEffect ==
  ASSUME TypeInv, NEW t \in Threads, Return(t)
  PROVE  Returns(t)
  BY IdleRec DEF TypeInv, Return, Returns

LEMMA ReadEffect ==
  ASSUME TypeInv, NEW t \in Threads, NEW v \in Values,
         call' = [call EXCEPT ![t].pc = "fill", ![t].val = v]
  PROVE  Moves(t, "fill", v, call[t].todo)
  BY DEF TypeInv, Moves, CallRec, Pc, GetPc

LEMMA MkDirsEffect ==
  ASSUME TypeInv, NEW t \in Threads, NEW todo \in SUBSET Files,
         call' = [call EXCEPT ![t].pc = "copy", ![t].todo = todo]
  PROVE  Moves(t, "copy", call[t].val, todo)
  BY DEF TypeInv, Moves, CallRec, Pc, ChangePc

LEMMA CopyEffect ==
  ASSUME TypeInv, NEW t \in Threads, NEW f, call[t].pc = "copy",
         call' = [call EXCEPT ![t].todo = @ \ {f}]
  PROVE  Moves(t, "copy", call[t].val, call[t].todo \ {f})
  BY DEF TypeInv, Moves, CallRec

\* The call part of the invariant survives any step of one thread.
LEMMA MoveKeepsCalls ==
  ASSUME TypeInv, AloneIsAlone, NEW t \in Threads, NEW pc, NEW val, NEW todo,
         Returns(t) \/ /\ Moves(t, pc, val, todo)
                       /\ PartOf(pc, call[t].op)
                       /\ call[t].op = "save" \/ pc = "fill" => val \in Values
                       /\ call[t].op = "save" => OutOK(call'[t])
  PROVE  /\ call' \in [Threads -> CallRec]
         /\ \A q \in Threads : Shape(call'[q])
         /\ \A q \in Threads : /\ call'[q].keys \subseteq Keys /\ call'[q].todo \subseteq Files
                               /\ call'[q].out \in Contents
         /\ AloneIsAlone'
<1>1. call' \in [Threads -> CallRec]
  BY DEF Returns, Moves
<1>2. \A q \in Threads : Shape(call'[q])
  <2>1. \A q \in Threads \ {t} : Shape(call'[q])
    BY DEF TypeInv, Returns, Moves
  <2>2. CASE Returns(t)
    BY <2>1, <2>2 DEF Returns, Shape, Idle, PartOf, OutOK
  <2>3. CASE ~Returns(t)
    <3>1. Shape(call[t])
      BY DEF TypeInv
    <3>2. OutOK(call'[t])
      <4>1. CASE call[t].op = "save"
        BY <2>3, <4>1
      <4>2. CASE call[t].op # "save"
        BY <2>3, <4>2 DEF Moves, PartOf, OutOK, GetPc, DeletePc, DeleteAllPc, ChangePc
      <4>3. QED
        BY <4>1, <4>2
    <3>3. Shape(call'[t])
      BY <2>3, <3>1, <3>2 DEF Moves, Shape
    <3>4. QED
      BY <2>1, <3>3
  <2>4. QED
    BY <2>2, <2>3
<1>3. \A q \in Threads : /\ call'[q].keys \subseteq Keys /\ call'[q].todo \subseteq Files
                        /\ call'[q].out \in Contents
  BY <1>1 DEF CallRec
<1>4. AloneIsAlone'
  BY DEF AloneIsAlone, Returns, Moves, Idle
<1>5. QED
  BY <1>1, <1>2, <1>3, <1>4
----------------------------------------------------------------------------
(* The invariant of a key.                                                 *)

ReadAs(file, e) ==
    IF file \notin {None, Broken, Unencrypted} /\ file.enc = e THEN file.val ELSE None

\* The files of k are what the last call left, encrypted under e.
Holds(files, e, k) ==
    IF expected[k] = None THEN files[VF(k)] = None /\ files[KF(k)] = None
    ELSE files[VF(k)] \in Encrypted(expected[k], e) /\ files[KF(k)] \in Encrypted("key", e)

CacheOK(k) == cache[k] \in {None, expected[k]}

Base(k) == Holds(dir, encKey, k) /\ CacheOK(k)

Excl(k) ==
    \A t, q \in Threads :
        t # q /\ k \in call[t].keys /\ k \in call[q].keys => call[t].op = "get"

QuietOK(k) ==
    Quiet(k) =>
        /\ Base(k)
        /\ \A t \in Threads : k \in call[t].keys /\ call[t].pc = "fill"
                                 => call[t].val = expected[k]

DeleteOK(t, k) ==
    /\ call[t].pc = "delete_key" => Base(k)
    /\ call[t].pc = "delete_value" =>
          /\ CacheOK(k)
          /\ dir[VF(k)] = None => expected[k] = None
          /\ dir[KF(k)] = None
    /\ call[t].pc = "remove" =>
          dir[VF(k)] = None /\ dir[KF(k)] = None /\ expected[k] = None

CopiedOK(t, f) ==
    f \notin call[t].todo =>
        IF dir[f] = None THEN tmp[f] = None
        ELSE /\ ReadAs(dir[f], encKey) # None
             /\ tmp[f] \in Encrypted(ReadAs(dir[f], encKey), call[t].enc)

ChangeOK(t, k) ==
    /\ call[t].pc \in {"mkdirs", "copy"} => Holds(dir, encKey, k)
    /\ call[t].pc = "copy" => CopiedOK(t, VF(k)) /\ CopiedOK(t, KF(k))
    /\ call[t].pc = "rename" => Holds(tmp, call[t].enc, k)
    /\ call[t].pc = "set_key" => Holds(dir, call[t].enc, k)
    /\ call[t].pc \in ChangePc => CacheOK(k)

Done(t, k) ==
    /\ call[t].pc \in {"open_key", "write_key"} => call[t].out \in Encrypted("key", encKey)
    /\ call[t].pc = "write_key" => dir[KF(k)] = Broken
    /\ call[t].pc \in {"encrypt_value", "open_value", "write_value", "put"} =>
          dir[KF(k)] \in Encrypted("key", encKey)
    /\ call[t].pc \in {"open_value", "write_value"} =>
          call[t].out \in Encrypted(call[t].val, encKey)
    /\ call[t].pc = "write_value" => dir[VF(k)] = Broken
    /\ call[t].pc = "put" => dir[VF(k)] \in Encrypted(call[t].val, encKey)
    /\ call[t].pc \in {"delete_keys", "delete_values"} => cache[k] = None
    /\ call[t].pc = "delete_values" => dir[KF(k)] = None

Untainted(k) ==
    /\ Excl(k)
    /\ QuietOK(k)
    /\ \A t \in Threads : k \in call[t].keys => DeleteOK(t, k) /\ ChangeOK(t, k)

KeyInv(k) ==
    /\ k \notin tainted => Untainted(k)
    /\ \A t \in Threads :
          k \in call[t].keys /\ (call[t].alone \/ k \notin tainted) => Done(t, k)

CallInv == TypeInv /\ AloneIsAlone
IInv    == CallInv /\ \A k \in Keys : KeyInv(k)
----------------------------------------------------------------------------
(* A step seen from a key it does not concern, and from one it does.       *)

SameFiles(k) ==
    /\ dir'[KF(k)] = dir[KF(k)] /\ dir'[VF(k)] = dir[VF(k)]
    /\ tmp'[KF(k)] = tmp[KF(k)] /\ tmp'[VF(k)] = tmp[VF(k)]
    /\ cache'[k] = cache[k] /\ expected'[k] = expected[k] /\ encKey' = encKey

SameCalls(k) ==
    \A q \in Threads :
        /\ k \in call'[q].keys <=> k \in call[q].keys
        /\ k \in call[q].keys =>
              /\ call'[q].op = call[q].op /\ call'[q].pc = call[q].pc
              /\ call'[q].val = call[q].val /\ call'[q].enc = call[q].enc
              /\ call'[q].out = call[q].out /\ call'[q].todo = call[q].todo
              /\ call'[q].alone => call[q].alone

LEMMA OtherKey ==
  ASSUME NEW k \in Keys, KeyInv(k), SameFiles(k), SameCalls(k), k \in tainted => k \in tainted'
  PROVE  KeyInv(k)'
<1>1. Base(k) => Base(k)'
  BY DEF Base, Holds, CacheOK, SameFiles
<1>2. Excl(k) => Excl(k)'
  BY DEF Excl, SameCalls
<1>3. QuietOK(k) => QuietOK(k)'
  BY <1>1 DEF QuietOK, Quiet, SameCalls, SameFiles
<1>4. ASSUME NEW t \in Threads, k \in call'[t].keys
      PROVE  /\ k \in call[t].keys
             /\ DeleteOK(t, k) => DeleteOK(t, k)'
             /\ ChangeOK(t, k) => ChangeOK(t, k)'
             /\ Done(t, k) => Done(t, k)'
  <2>1. /\ k \in call[t].keys
        /\ call'[t].pc = call[t].pc /\ call'[t].val = call[t].val
        /\ call'[t].enc = call[t].enc /\ call'[t].todo = call[t].todo
        /\ call'[t].out = call[t].out
    BY <1>4 DEF SameCalls
  <2>2. DeleteOK(t, k) => DeleteOK(t, k)'
    BY <1>1, <2>1 DEF DeleteOK, CacheOK, SameFiles, ReadAs
  <2>3. ChangeOK(t, k) => ChangeOK(t, k)'
    BY <2>1 DEF ChangeOK, CopiedOK, Holds, CacheOK, SameFiles, ReadAs
  <2>4. Done(t, k) => Done(t, k)'
    BY <2>1 DEF Done, SameFiles
  <2>5. QED
    BY <2>1, <2>2, <2>3, <2>4
<1>5. Untainted(k) => Untainted(k)'
  BY <1>2, <1>3, <1>4 DEF Untainted
<1>6. ASSUME NEW t \in Threads, k \in call'[t].keys, call'[t].alone \/ k \notin tainted'
      PROVE  Done(t, k)'
  BY <1>4, <1>6 DEF KeyInv, SameCalls
<1>7. QED
  BY <1>5, <1>6 DEF KeyInv

\* What is left of the calls on a key when only one thread t may write it.
LEMMA OnlyWriter ==
  ASSUME CallInv, NEW k \in Keys, KeyInv(k), NEW t \in Threads,
         k \in call[t].keys, call[t].op # "get",
         \A q \in Threads \ {t} : call'[q] = call[q]
  PROVE  /\ call[t].alone \/ k \notin tainted => \A q \in Threads \ {t} : k \notin call'[q].keys
         /\ \A q \in Threads \ {t} : k \in call'[q].keys /\ call'[q].alone => Done(q, k)'
<1>1. call[t].alone \/ k \notin tainted => \A q \in Threads \ {t} : k \notin call[q].keys
  BY DEF KeyInv, Untainted, Excl, CallInv, AloneIsAlone
<1>2. ASSUME NEW q \in Threads \ {t}, k \in call'[q].keys, call'[q].alone
      PROVE  Done(q, k)'
  <2>1. call'[q] = call[q]
    OBVIOUS
  <2>2. call[q].op = "get"
    BY <1>2, <2>1 DEF CallInv, AloneIsAlone
  <2>3. call'[q].pc \in GetPc
    BY <2>1, <2>2 DEF CallInv, TypeInv, Shape, PartOf
  <2>4. QED
    BY <2>3 DEF Done, GetPc
<1>3. QED
  BY <1>1, <1>2

LEMMA WriterReturns ==
  ASSUME CallInv, NEW k \in Keys, KeyInv(k), NEW t \in Threads,
         k \in call[t].keys, call[t].op # "get", Returns(t),
         k \notin tainted' => (call[t].alone \/ k \notin tainted) /\ Base(k)'
  PROVE  KeyInv(k)'
<1>1. (\A q \in Threads \ {t} : call'[q] = call[q]) /\ k \notin call'[t].keys
  BY DEF Returns, Idle
<1>2. /\ call[t].alone \/ k \notin tainted => \A q \in Threads \ {t} : k \notin call'[q].keys
      /\ \A q \in Threads \ {t} : k \in call'[q].keys /\ call'[q].alone => Done(q, k)'
  BY <1>1, OnlyWriter
<1>3. k \notin tainted' => \A q \in Threads : k \notin call'[q].keys
  BY <1>1, <1>2
<1>4. k \notin tainted' => Untainted(k)'
  BY <1>3 DEF Untainted, Excl, QuietOK
<1>5. QED
  BY <1>1, <1>2, <1>3, <1>4 DEF KeyInv

LEMMA WriterMoves ==
  ASSUME CallInv, NEW k \in Keys, KeyInv(k), NEW t \in Threads,
         k \in call[t].keys, call[t].op # "get",
         NEW pc, NEW val, NEW todo, Moves(t, pc, val, todo),
         k \notin tainted' => k \notin tainted /\ DeleteOK(t, k)' /\ ChangeOK(t, k)',
         call[t].alone \/ k \notin tainted' => Done(t, k)'
  PROVE  KeyInv(k)'
<1>1. /\ \A q \in Threads \ {t} : call'[q] = call[q]
      /\ k \in call'[t].keys /\ call'[t].op # "get" /\ call'[t].alone = call[t].alone
  BY DEF Moves
<1>2. /\ call[t].alone \/ k \notin tainted => \A q \in Threads \ {t} : k \notin call'[q].keys
      /\ \A q \in Threads \ {t} : k \in call'[q].keys /\ call'[q].alone => Done(q, k)'
  BY <1>1, OnlyWriter
<1>3. k \notin tainted' => \A q \in Threads \ {t} : k \notin call'[q].keys
  BY <1>2
<1>4. ~Quiet(k)'
  BY <1>1 DEF Quiet
<1>5. k \notin tainted' => Untainted(k)'
  BY <1>3, <1>4 DEF Untainted, Excl, QuietOK
<1>6. \A q \in Threads : k \in call'[q].keys /\ (call'[q].alone \/ k \notin tainted') => Done(q, k)'
  BY <1>1, <1>2, <1>3
<1>7. QED
  BY <1>5, <1>6 DEF KeyInv

\* A reader sees a key it reads as it is; only the cache can change, to what
\* the key holds anyway.
LEMMA ReaderStep ==
  ASSUME CallInv, NEW k \in Keys, KeyInv(k), NEW t \in Threads,
         k \in call[t].keys, call[t].op = "get",
         UNCHANGED <<dir, tmp, encKey, expected, tainted>>,
         k \notin tainted /\ Base(k) => CacheOK(k)',
         NEW pc \in GetPc, NEW val, NEW todo,
         Returns(t) \/ /\ Moves(t, pc, val, todo)
                       /\ k \notin tainted /\ Base(k) /\ pc = "fill" => val = expected[k]
  PROVE  KeyInv(k)'
<1>1. \A q \in Threads \ {t} : call'[q] = call[q]
  BY DEF Returns, Moves
<1>2. k \in call'[t].keys => call'[t].op = "get" /\ call'[t].pc = pc /\ call'[t].val = val
  BY DEF Returns, Moves, Idle
<1>3. CASE k \notin tainted
  <2>1. \A q \in Threads : k \in call[q].keys => call[q].op = "get"
    BY <1>3 DEF KeyInv, Untainted, Excl
  <2>2. /\ Base(k)
        /\ \A q \in Threads : k \in call[q].keys /\ call[q].pc = "fill"
                                 => call[q].val = expected[k]
    BY <1>3, <2>1 DEF KeyInv, Untainted, QuietOK, Quiet
  <2>3. Base(k)'
    BY <1>3, <2>2 DEF Base, Holds, ReadAs
  <2>4. \A q \in Threads : k \in call'[q].keys =>
           /\ call'[q].op = "get" /\ call'[q].pc \in GetPc
           /\ call'[q].pc = "fill" => call'[q].val = expected[k]
    <3>1. \A q \in Threads : k \in call[q].keys => call[q].pc \in GetPc
      BY <2>1 DEF CallInv, TypeInv, Shape, PartOf
    <3>2. k \in call'[t].keys /\ pc = "fill" => val = expected[k]
      BY <1>3, <2>2 DEF Returns, Idle
    <3>3. QED
      BY <1>1, <1>2, <2>1, <2>2, <3>1, <3>2
  <2>5. Excl(k)'
    BY <2>4 DEF Excl
  <2>6. QuietOK(k)'
    BY <2>3, <2>4 DEF QuietOK
  <2>7. \A q \in Threads : k \in call'[q].keys => DeleteOK(q, k)' /\ ChangeOK(q, k)' /\ Done(q, k)'
    BY <2>4 DEF DeleteOK, ChangeOK, Done, GetPc, ChangePc
  <2>8. QED
    BY <2>5, <2>6, <2>7 DEF KeyInv, Untainted
<1>4. CASE k \in tainted
  <2>1. ASSUME NEW q \in Threads, k \in call'[q].keys, call'[q].alone
        PROVE  call'[q].pc \in GetPc
    <3>1. CASE q = t
      BY <1>2, <2>1, <3>1
    <3>2. CASE q # t
      <4>1. call'[q] = call[q]
        BY <1>1, <3>2
      <4>2. call[q].op = "get"
        BY <2>1, <3>2, <4>1 DEF CallInv, AloneIsAlone
      <4>3. QED
        BY <4>1, <4>2 DEF CallInv, TypeInv, Shape, PartOf
    <3>3. QED
      BY <3>1, <3>2
  <2>2. QED
    BY <1>4, <2>1 DEF KeyInv, Done, GetPc
<1>5. QED
  BY <1>3, <1>4

LEMMA EvictedKey ==
  ASSUME NEW k \in Keys, KeyInv(k), cache'[k] = None,
         UNCHANGED <<dir, tmp, encKey, call, expected, tainted>>
  PROVE  KeyInv(k)'
<1>1. CacheOK(k)' /\ (Base(k) => Base(k)')
  BY DEF CacheOK, Base, Holds, ReadAs
<1>2. Untainted(k) => Untainted(k)'
  BY <1>1 DEF Untainted, Excl, QuietOK, Quiet, DeleteOK, ChangeOK, CopiedOK, Holds, ReadAs
<1>3. \A t \in Threads : Done(t, k) => Done(t, k)'
  BY DEF Done
<1>4. QED
  BY <1>2, <1>3 DEF KeyInv

\* A key no call of t is about.
LEMMA SameForOthers ==
  ASSUME NEW t \in Threads, NEW pc, NEW val, NEW todo, Returns(t) \/ Moves(t, pc, val, todo),
         NEW k \in Keys, k \notin call[t].keys
  PROVE  SameCalls(k)
<1>1. \A q \in Threads \ {t} : call'[q] = call[q]
  BY DEF Returns, Moves
<1>2. k \notin call'[t].keys
  BY DEF Returns, Moves, Idle
<1>3. QED
  BY <1>1, <1>2 DEF SameCalls
----------------------------------------------------------------------------
(* The steps.  Each lemma takes one method of the store.                   *)

StoreType ==
    /\ dir \in [Files -> Contents] /\ tmp \in [Files -> Contents]
    /\ FilesOK(dir) /\ FilesOK(tmp)
    /\ exists \in BOOLEAN /\ tmpExists \in BOOLEAN
    /\ encKey \in EncKeys
    /\ cache \in [Keys -> Values \cup {None}]
    /\ calls \in 0 .. MaxCalls
    /\ expected \in [Keys -> Values \cup {None}]
    /\ tainted \subseteq Keys

LEMMA StoreTyped == CallInv => StoreType
  BY DEF CallInv, TypeInv, TypeOK, StoreType

LEMMA CallStep ==
  ASSUME CallInv, StoreType', NEW t \in Threads, NEW pc, NEW val, NEW todo,
         Returns(t) \/ /\ Moves(t, pc, val, todo)
                       /\ PartOf(pc, call[t].op)
                       /\ call[t].op = "save" \/ pc = "fill" => val \in Values
                       /\ call[t].op = "save" => OutOK(call'[t])
  PROVE  CallInv'
<1>1. /\ call' \in [Threads -> CallRec]
      /\ \A q \in Threads : Shape(call'[q])
      /\ \A q \in Threads : /\ call'[q].keys \subseteq Keys /\ call'[q].todo \subseteq Files
                            /\ call'[q].out \in Contents
      /\ AloneIsAlone'
  BY MoveKeepsCalls DEF CallInv
<1>2. QED
  BY <1>1 DEF CallInv, TypeInv, TypeOK, StoreType

LEMMA KeyIsFile ==
  \A k, l \in Keys : /\ KF(k) \in Files /\ VF(k) \in Files
                     /\ KF(k) # VF(l)
                     /\ k # l => KF(k) # KF(l) /\ VF(k) # VF(l)
  BY DEF KF, VF, Files

LEMMA PutFile ==
  ASSUME NEW d \in [Files -> Contents], FilesOK(d), NEW k \in Keys, NEW c, NEW f,
         (f = KF(k) /\ c \in KeyFile) \/ (f = VF(k) /\ c \in ValueFile),
         NEW e, e = [d EXCEPT ![f] = c]
  PROVE  /\ e \in [Files -> Contents]
         /\ FilesOK(e)
         /\ \A g \in Files \ {f} : e[g] = d[g]
<1>1. f \in Files /\ c \in Contents
  BY DEF KF, VF, Files, KeyFile, ValueFile, Contents
<1>2. QED
  BY <1>1, KeyIsFile DEF FilesOK

\* The call of a thread that is about one key.
LEMMA OneKey ==
  ASSUME CallInv, NEW t \in Threads, NEW k \in call[t].keys, call[t].op \in {"get", "save", "delete"}
  PROVE  k \in Keys /\ \A l \in Keys \ {k} : l \notin call[t].keys
  BY DEF CallInv, TypeInv, TypeOK, Shape

LEMMA GetStep ==
  ASSUME IInv, NEW t \in Threads, NEW k \in call[t].keys, GetValue(t, k)
  PROVE  IInv'
<1>1. call[t].pc \in GetPc
  BY DEF GetValue, ReadCache, ReadFile, FillCache, GetPc
<1>2. CallInv /\ call[t].op = "get" /\ Shape(call[t])
  BY <1>1 DEF IInv, CallInv, TypeInv, Shape, PartOf, GetPc, SavePc, DeletePc, DeleteAllPc, ChangePc
<1>3. k \in Keys /\ \A l \in Keys \ {k} : l \notin call[t].keys
  BY <1>2, OneKey
<1>4. StoreType /\ UNCHANGED <<dir, exists, tmp, tmpExists, encKey, calls, expected, tainted>>
  BY <1>2, StoreTyped DEF GetValue, ReadCache, ReadFile, FillCache
<1>5. /\ cache' \in [Keys -> Values \cup {None}]
      /\ \A l \in Keys \ {k} : cache'[l] = cache[l]
      /\ cache'[k] = cache[k] \/ (call[t].pc = "fill" /\ cache'[k] = call[t].val)
  <2>1. CASE cache' = cache
    BY <1>4, <2>1 DEF StoreType
  <2>2. CASE FillCache(t, k)
    <3>1. call[t].val \in Values
      BY <1>2, <2>2 DEF FillCache, Shape
    <3>2. QED
      BY <1>3, <1>4, <2>2, <3>1 DEF FillCache, StoreType
  <2>3. QED
    BY <2>1, <2>2 DEF GetValue, ReadCache, ReadFile
<1>6. StoreType'
  BY <1>4, <1>5 DEF StoreType, FilesOK
<1>7. k \notin tainted /\ Base(k) => CacheOK(k)'
  <2>1. k \notin tainted /\ call[t].pc = "fill" => call[t].val = expected[k]
    BY <1>2, <1>3 DEF IInv, KeyInv, Untainted, Excl, QuietOK, Quiet
  <2>2. QED
    BY <1>4, <1>5, <2>1 DEF Base, CacheOK
<1>8. ASSUME NEW pc \in GetPc, NEW val, NEW todo,
             Returns(t) \/ /\ Moves(t, pc, val, todo)
                           /\ pc = "fill" => val \in Values
                           /\ k \notin tainted /\ Base(k) /\ pc = "fill" => val = expected[k]
      PROVE  IInv'
  <2>1. CallInv'
    BY <1>2, <1>6, <1>8, CallStep DEF PartOf
  <2>2. KeyInv(k)'
    BY <1>2, <1>3, <1>4, <1>7, <1>8, ReaderStep DEF IInv
  <2>3. ASSUME NEW l \in Keys \ {k}
        PROVE  KeyInv(l)'
    <3>1. SameCalls(l)
      BY <1>3, <1>8, SameForOthers
    <3>2. SameFiles(l)
      BY <1>4, <1>5 DEF SameFiles
    <3>3. QED
      BY <1>4, <3>1, <3>2, OtherKey DEF IInv
  <2>4. QED
    BY <2>1, <2>2, <2>3 DEF IInv
<1>9. CASE ReadCache(t, k)
  <2>1. Returns(t) \/ Moves(t, "read", call[t].val, call[t].todo)
    BY <1>2, <1>9, GotoEffect, ReturnEffect DEF ReadCache, CallInv, Pc, GetPc
  <2>2. QED
    BY <1>8, <2>1 DEF GetPc
<1>10. CASE ReadFile(t, k)
  <2>1. CASE Return(t)
    BY <1>2, <1>8, <2>1, ReturnEffect DEF CallInv, GetPc
  <2>2. CASE /\ Read(VF(k)) # None
             /\ call' = [call EXCEPT ![t].pc = "fill", ![t].val = Read(VF(k))]
    <3>1. Read(VF(k)) = ReadAs(dir[VF(k)], encKey)
      BY DEF Read, ReadAs
    <3>2. Read(VF(k)) \in Values
      BY <1>3, <1>4, <2>2 DEF StoreType, FilesOK, ValueFile, Read
    <3>3. Moves(t, "fill", Read(VF(k)), call[t].todo)
      BY <1>2, <2>2, <3>2, ReadEffect DEF CallInv
    <3>4. Base(k) => Read(VF(k)) = expected[k]
      BY <2>2, <3>1 DEF Base, Holds, ReadAs, Encrypted, Content
    <3>5. QED
      BY <1>8, <3>2, <3>3, <3>4 DEF GetPc
  <2>3. QED
    BY <1>10, <2>1, <2>2 DEF ReadFile, VF
<1>11. CASE FillCache(t, k)
  BY <1>2, <1>8, <1>11, ReturnEffect DEF FillCache, CallInv, GetPc
<1>12. QED
  BY <1>9, <1>10, <1>11 DEF GetValue

\* A step of a call that is about one key.
LEMMA OneKeyStep ==
  ASSUME IInv, StoreType', NEW t \in Threads, NEW k \in call[t].keys,
         call[t].op \in {"save", "delete"}, NEW pc,
         Returns(t) \/ /\ Moves(t, pc, call[t].val, call[t].todo)
                       /\ PartOf(pc, call[t].op) /\ pc # "fill"
                       /\ call[t].op = "save" => OutOK(call'[t]),
         \A l \in Keys \ {k} : SameFiles(l) /\ (l \in tainted => l \in tainted'),
         k \notin tainted' => call[t].alone \/ k \notin tainted,
         Returns(t) => (k \notin tainted' => Base(k)'),
         ~Returns(t) => /\ k \notin tainted' =>
                              k \notin tainted /\ DeleteOK(t, k)' /\ ChangeOK(t, k)'
                        /\ call[t].alone \/ k \notin tainted' => Done(t, k)'
  PROVE  IInv'
<1>1. CallInv /\ k \in Keys /\ \A l \in Keys \ {k} : l \notin call[t].keys
  BY OneKey DEF IInv
<1>2. CallInv'
  <2>1. call[t].op = "save" => call[t].val \in Values
    BY <1>1 DEF CallInv, TypeInv, Shape
  <2>2. QED
    BY <1>1, <2>1, CallStep
<1>3. KeyInv(k)'
  <2>1. KeyInv(k) /\ call[t].op # "get"
    BY <1>1 DEF IInv
  <2>2. CASE Returns(t)
    BY <1>1, <2>1, <2>2, WriterReturns
  <2>3. CASE ~Returns(t)
    BY <1>1, <2>1, <2>3, WriterMoves
  <2>4. QED
    BY <2>2, <2>3
<1>4. ASSUME NEW l \in Keys \ {k}
      PROVE  KeyInv(l)'
  <2>1. SameCalls(l)
    BY <1>1, SameForOthers
  <2>2. QED
    BY <2>1, OtherKey DEF IInv
<1>5. QED
  BY <1>2, <1>3, <1>4 DEF IInv

LEMMA SaveStep ==
  ASSUME IInv, NEW t \in Threads, NEW k \in call[t].keys, SaveValue(t, k)
  PROVE  IInv'
<1>1. call[t].pc \in SavePc
  BY DEF SaveValue, WriteFiles, Encrypt, Open, Write, PutCache, SaveFails, SavePc
<1>2. CallInv /\ call[t].op = "save" /\ call[t].val \in Values /\ OutOK(call[t])
  BY <1>1 DEF IInv, CallInv, TypeInv, Shape, PartOf, GetPc, SavePc, DeletePc, DeleteAllPc, ChangePc
<1>3. k \in Keys /\ StoreType /\ KeyInv(k)
  BY <1>2, OneKey, StoreTyped DEF IInv
<1>4. ASSUME NEW f \in {KF(k), VF(k)}, NEW to \in SavePc,
             Moves(t, to, call[t].val, call[t].todo), OutOK(call'[t]),
             dir' \in [Files -> Contents], FilesOK(dir'),
             \A g \in Files \ {f} : dir'[g] = dir[g],
             UNCHANGED <<exists, tmp, tmpExists, encKey, cache, calls, expected, tainted>>,
             call[t].alone \/ k \notin tainted => Done(t, k)'
      PROVE  IInv'
  <2>1. PartOf(to, call[t].op)
    BY <1>2 DEF PartOf
  <2>2. StoreType'
    BY <1>3, <1>4 DEF StoreType, FilesOK
  <2>3. \A l \in Keys \ {k} : SameFiles(l)
    <3>1. \A l \in Keys \ {k} : KF(l) \in Files \ {f} /\ VF(l) \in Files \ {f}
      BY <1>3, <1>4, KeyIsFile
    <3>2. QED
      BY <1>4, <3>1 DEF SameFiles
  <2>4. to # "fill" /\ DeleteOK(t, k)' /\ ChangeOK(t, k)'
    BY <1>4 DEF SavePc, Moves, DeleteOK, ChangeOK, ChangePc
  <2>5. ~Returns(t)
    BY <1>2, <1>4 DEF Returns, Moves, Idle
  <2>6. QED
    BY <1>2, <1>4, <2>1, <2>2, <2>3, <2>4, <2>5, OneKeyStep
<1>5. call[t].alone \/ k \notin tainted => Done(t, k)
  BY <1>3 DEF KeyInv
<1>6. ASSUME NEW v, NEW from, NEW to, Encrypt(t, v, from, to),
             \/ from = "encrypt_key" /\ to = "open_key" /\ v = "key"
             \/ from = "encrypt_value" /\ to = "open_value" /\ v = call[t].val
      PROVE  IInv'
  <2>1. PICK out \in Encrypted(v, encKey) : call' = [call EXCEPT ![t].pc = to, ![t].out = out]
    BY <1>6 DEF Encrypt
  <2>2. out \in IF to = "open_key" THEN KeyFile ELSE ValueFile
    BY <1>2, <1>3, <1>6, <2>1 DEF StoreType, Encrypted, Content, KeyFile, ValueFile
  <2>3. out \in Contents
    BY <2>2 DEF KeyFile, ValueFile, Contents
  <2>4. Moves(t, to, call[t].val, call[t].todo) /\ call'[t].out = out /\ to \in SavePc
    BY <1>2, <1>6, <2>1, <2>3, EncryptEffect DEF CallInv, Pc, SavePc
  <2>5. OutOK(call'[t])
    BY <1>6, <2>2, <2>4 DEF OutOK, Moves
  <2>6. UNCHANGED <<dir, exists, tmp, tmpExists, encKey, cache, calls, expected, tainted>>
    BY <1>6 DEF Encrypt
  <2>7. call[t].alone \/ k \notin tainted => Done(t, k)'
    BY <1>5, <1>6, <2>1, <2>4, <2>6 DEF Encrypt, Done, Moves
  <2>8. dir' \in [Files -> Contents] /\ FilesOK(dir')
    BY <1>3, <2>6 DEF StoreType, FilesOK
  <2>9. QED
    BY <1>4, <2>4, <2>5, <2>6, <2>7, <2>8
<1>7. ASSUME NEW f, NEW from, NEW to, Open(t, f, from, to),
             \/ from = "open_key" /\ to = "write_key" /\ f = KF(k)
             \/ from = "open_value" /\ to = "write_value" /\ f = VF(k)
      PROVE  IInv'
  <2>1. /\ Moves(t, to, call[t].val, call[t].todo) /\ call'[t].out = call[t].out
        /\ to \in SavePc /\ call[t].pc = from
    BY <1>2, <1>7, GotoEffect DEF Open, CallInv, Pc, SavePc
  <2>2. OutOK(call'[t])
    BY <1>2, <1>7, <2>1 DEF OutOK, Moves
  <2>3. UNCHANGED <<exists, tmp, tmpExists, encKey, cache, calls, expected, tainted>>
    BY <1>7 DEF Open
  <2>4. dir \in [Files -> Contents] /\ FilesOK(dir) /\ dir' = [dir EXCEPT ![f] = Broken]
    BY <1>3, <1>7 DEF StoreType, Open
  <2>5. Broken \in KeyFile /\ Broken \in ValueFile
    BY DEF KeyFile, ValueFile
  <2>6. \A e : e = [dir EXCEPT ![f] = Broken] =>
           /\ e \in [Files -> Contents] /\ FilesOK(e)
           /\ \A g \in Files \ {f} : e[g] = dir[g]
    BY <1>3, <1>7, <2>4, <2>5, PutFile
  <2>7. /\ dir' \in [Files -> Contents] /\ FilesOK(dir') /\ dir'[f] = Broken
        /\ \A g \in Files \ {f} : dir'[g] = dir[g]
    BY <1>3, <1>7, <2>4, <2>6, KeyIsFile
  <2>8. f = VF(k) => dir'[KF(k)] = dir[KF(k)]
    BY <1>3, <2>7, KeyIsFile
  <2>9. call[t].alone \/ k \notin tainted => Done(t, k)'
    BY <1>5, <1>7, <2>1, <2>3, <2>7, <2>8 DEF Done, Moves
  <2>10. QED
    BY <1>4, <1>7, <2>1, <2>2, <2>3, <2>7, <2>9
<1>8. ASSUME NEW f, NEW from, NEW to, Write(t, f, from, to),
             \/ from = "write_key" /\ to = "encrypt_value" /\ f = KF(k)
             \/ from = "write_value" /\ to = "put" /\ f = VF(k)
      PROVE  IInv'
  <2>1. /\ Moves(t, to, call[t].val, call[t].todo)
        /\ to \in SavePc /\ call[t].pc = from
    BY <1>2, <1>8, GotoEffect DEF Write, CallInv, Pc, SavePc
  <2>2. OutOK(call'[t])
    BY <1>8, <2>1 DEF OutOK, Moves
  <2>3. UNCHANGED <<exists, tmp, tmpExists, encKey, cache, calls, expected, tainted>>
    BY <1>8 DEF Write
  <2>4. /\ dir \in [Files -> Contents] /\ FilesOK(dir)
        /\ dir' = dir \/ dir' = [dir EXCEPT ![f] = call[t].out]
    BY <1>3, <1>8 DEF StoreType, Write
  <2>5. (f = KF(k) /\ call[t].out \in KeyFile) \/ (f = VF(k) /\ call[t].out \in ValueFile)
    BY <1>2, <1>8, <2>1 DEF OutOK
  <2>6. \A e : e = [dir EXCEPT ![f] = call[t].out] =>
           /\ e \in [Files -> Contents] /\ FilesOK(e)
           /\ \A g \in Files \ {f} : e[g] = dir[g]
    <3>1. ASSUME NEW c, c = call[t].out
          PROVE  \A e : e = [dir EXCEPT ![f] = c] =>
                    /\ e \in [Files -> Contents] /\ FilesOK(e)
                    /\ \A g \in Files \ {f} : e[g] = dir[g]
      <4>1. (f = KF(k) /\ c \in KeyFile) \/ (f = VF(k) /\ c \in ValueFile)
        BY <2>5, <3>1
      <4>2. dir \in [Files -> Contents] /\ FilesOK(dir) /\ k \in Keys
        BY <1>3, <2>4
      <4>3. QED
        BY <4>1, <4>2, PutFile
    <3>2. QED
      BY <3>1
  <2>7. /\ dir' \in [Files -> Contents] /\ FilesOK(dir')
        /\ \A g \in Files \ {f} : dir'[g] = dir[g]
    <3>1. CASE dir' = dir
      BY <2>4, <3>1 DEF FilesOK
    <3>2. CASE dir' = [dir EXCEPT ![f] = call[t].out]
      BY <2>6, <3>2
    <3>3. QED
      BY <2>4, <3>1, <3>2
  <2>8. f = VF(k) => dir'[KF(k)] = dir[KF(k)]
    BY <1>3, <2>7, KeyIsFile
  <2>9. dir[f] = Broken => dir'[f] = call[t].out
    BY <1>3, <1>8, <2>4, KeyIsFile DEF Write
  <2>10. call[t].alone \/ k \notin tainted => Done(t, k)'
    BY <1>5, <1>8, <2>1, <2>3, <2>8, <2>9 DEF Done, Moves
  <2>11. QED
    BY <1>4, <1>8, <2>1, <2>2, <2>3, <2>7, <2>10
<1>9. CASE WriteFiles(t, k)
  BY <1>6, <1>7, <1>8, <1>9 DEF WriteFiles, KF, VF
<1>10. CASE PutCache(t, k)
  <2>1. Returns(t)
    BY <1>2, <1>10, ReturnEffect DEF PutCache, CallInv
  <2>2. StoreType' /\ cache'[k] = call[t].val /\ expected'[k] = call[t].val
    BY <1>2, <1>3, <1>10 DEF PutCache, Put, StoreType, FilesOK
  <2>3. \A l \in Keys \ {k} : SameFiles(l) /\ (l \in tainted => l \in tainted')
    BY <1>3, <1>10 DEF PutCache, Put, StoreType, SameFiles
  <2>4. k \notin tainted' => call[t].alone \/ k \notin tainted
    BY <1>10 DEF PutCache
  <2>5. k \notin tainted' => Base(k)'
    <3>1. ASSUME k \notin tainted'
          PROVE  /\ dir'[KF(k)] \in Encrypted("key", encKey)
                 /\ dir'[VF(k)] \in Encrypted(call[t].val, encKey)
                 /\ encKey' = encKey
      BY <1>5, <1>10, <2>4, <3>1 DEF PutCache, Done
    <3>2. call[t].val # None
      BY <1>2, NoneAssumption
    <3>3. QED
      BY <2>2, <3>1, <3>2 DEF Base, Holds, CacheOK
  <2>6. QED
    BY <1>2, <2>1, <2>2, <2>3, <2>4, <2>5, OneKeyStep
<1>11. CASE SaveFails(t, k)
  <2>1. Returns(t) /\ k \in tainted'
    BY <1>2, <1>11, ReturnEffect DEF SaveFails, CallInv
  <2>2. StoreType' /\ \A l \in Keys \ {k} : SameFiles(l) /\ (l \in tainted => l \in tainted')
    BY <1>3, <1>11 DEF SaveFails, StoreType, FilesOK, SameFiles
  <2>3. QED
    BY <1>2, <2>1, <2>2, OneKeyStep
<1>12. QED
  BY <1>9, <1>10, <1>11 DEF SaveValue

\* What was encrypted is a file, and is read again if it was.
LEMMA EncryptedFile ==
  ASSUME NEW v \in Values \cup {"key"}, NEW e \in EncKeys, NEW file \in Encrypted(v, e)
  PROVE  /\ file # None
         /\ file = Unencrypted => ReadAs(file, e) = None
         /\ file # Unencrypted => ReadAs(file, e) = v
<1>1. CASE file = Unencrypted
  BY <1>1, NoneAssumption DEF ReadAs
<1>2. CASE file = Content(v, e)
  <2>1. Content(v, e) \in [val : Values \cup {"key"}, enc : EncKeys]
    BY DEF Content
  <2>2. Content(v, e) \notin {None, Broken, Unencrypted}
    BY <2>1, NoneAssumption
  <2>3. Content(v, e).val = v /\ Content(v, e).enc = e
    BY DEF Content
  <2>4. QED
    BY <1>2, <2>2, <2>3 DEF ReadAs
<1>3. QED
  BY <1>1, <1>2 DEF Encrypted

LEMMA DeleteStep ==
  ASSUME IInv, NEW t \in Threads, NEW k \in call[t].keys, DeleteValue(t, k)
  PROVE  IInv'
<1>1. call[t].pc \in DeletePc
  BY DEF DeleteValue, DeleteKeyFile, DeleteValueFile, RemoveCached, DeletePc
<1>2. CallInv /\ call[t].op = "delete"
  BY <1>1 DEF IInv, CallInv, TypeInv, Shape, PartOf, GetPc, SavePc, DeletePc, DeleteAllPc, ChangePc
<1>3. k \in Keys /\ StoreType /\ KeyInv(k)
  BY <1>2, OneKey, StoreTyped DEF IInv
<1>4. k \notin tainted => DeleteOK(t, k)
  BY <1>3 DEF KeyInv, Untainted
<1>5. UNCHANGED <<exists, tmp, tmpExists, encKey, calls, tainted>>
  BY DEF DeleteValue, DeleteKeyFile, DeleteValueFile, RemoveCached
<1>6. ASSUME NEW f, f = KF(k) \/ f = VF(k), dir' = [dir EXCEPT ![f] = None],
             expected' = expected \/ expected' = [expected EXCEPT ![k] = None],
             cache' = cache
      PROVE  /\ StoreType' /\ \A l \in Keys \ {k} : SameFiles(l)
             /\ dir'[f] = None /\ \A g \in Files \ {f} : dir'[g] = dir[g]
  <2>1. dir \in [Files -> Contents] /\ FilesOK(dir) /\ f \in Files
    BY <1>3, <1>6, KeyIsFile DEF StoreType
  <2>2. None \in KeyFile /\ None \in ValueFile
    BY DEF KeyFile, ValueFile
  <2>3. \A e : e = [dir EXCEPT ![f] = None] =>
           /\ e \in [Files -> Contents] /\ FilesOK(e)
           /\ \A g \in Files \ {f} : e[g] = dir[g]
    BY <1>3, <1>6, <2>1, <2>2, PutFile
  <2>4. /\ dir' \in [Files -> Contents] /\ FilesOK(dir')
        /\ dir'[f] = None /\ \A g \in Files \ {f} : dir'[g] = dir[g]
    BY <1>6, <2>1, <2>3
  <2>5. \A l \in Keys \ {k} : KF(l) \in Files \ {f} /\ VF(l) \in Files \ {f}
    BY <1>3, <1>6, KeyIsFile
  <2>6. /\ expected' \in [Keys -> Values \cup {None}]
        /\ \A l \in Keys \ {k} : expected'[l] = expected[l]
    BY <1>3, <1>6 DEF StoreType
  <2>7. QED
    BY <1>3, <1>5, <1>6, <2>4, <2>5, <2>6 DEF StoreType, FilesOK, SameFiles
<1>7. CASE DeleteKeyFile(t, k)
  <2>1. StoreType' /\ (\A l \in Keys \ {k} : SameFiles(l))
        /\ dir'[KF(k)] = None /\ dir'[VF(k)] = dir[VF(k)] /\ UNCHANGED <<expected, cache>>
    BY <1>3, <1>6, <1>7, KeyIsFile DEF DeleteKeyFile, KF
  <2>2. /\ Moves(t, "delete_value", call[t].val, call[t].todo) /\ ~Returns(t)
        /\ PartOf("delete_value", call[t].op) /\ call[t].pc = "delete_key"
    BY <1>2, <1>7, GotoEffect DEF DeleteKeyFile, CallInv, Pc, DeletePc, PartOf, Returns, Moves, Idle
  <2>3. k \notin tainted => DeleteOK(t, k)'
    <3>1. ASSUME k \notin tainted, dir[VF(k)] = None
          PROVE  expected[k] = None
      <4>1. Holds(dir, encKey, k)
        BY <1>4, <2>2, <3>1 DEF DeleteOK, Base
      <4>2. encKey \in EncKeys /\ expected[k] \in Values \cup {None}
        BY <1>3 DEF StoreType
      <4>3. QED
        BY <3>1, <4>1, <4>2, EncryptedFile DEF Holds
    <3>2. k \notin tainted => CacheOK(k)'
      BY <1>4, <2>1, <2>2 DEF DeleteOK, Base, CacheOK
    <3>3. QED
      BY <2>1, <2>2, <3>1, <3>2 DEF DeleteOK, Moves
  <2>4. ChangeOK(t, k)' /\ Done(t, k)'
    BY <2>2 DEF ChangeOK, Done, Moves, ChangePc
  <2>5. QED
    BY <1>2, <1>5, <2>1, <2>2, <2>3, <2>4, OneKeyStep
<1>8. CASE DeleteValueFile(t, k)
  <2>1. /\ StoreType' /\ \A l \in Keys \ {k} : SameFiles(l)
        /\ dir'[VF(k)] = None /\ dir'[KF(k)] = dir[KF(k)]
    BY <1>3, <1>6, <1>8, KeyIsFile DEF DeleteValueFile, VF
  <2>2. call[t].pc = "delete_value" /\ cache' = cache /\ expected'[k] = None
    BY <1>3, <1>8 DEF DeleteValueFile, StoreType
  <2>3. k \notin tainted => /\ CacheOK(k) /\ (dir[VF(k)] = None => expected[k] = None)
                            /\ dir'[KF(k)] = None
    BY <1>4, <2>1, <2>2 DEF DeleteOK
  <2>4. CASE dir[VF(k)] # None
    <3>1. /\ Moves(t, "remove", call[t].val, call[t].todo) /\ ~Returns(t)
          /\ PartOf("remove", call[t].op)
      BY <1>2, <1>8, <2>4, GotoEffect
         DEF DeleteValueFile, CallInv, Pc, DeletePc, PartOf, Returns, Moves, Idle, VF
    <3>2. k \notin tainted => DeleteOK(t, k)'
      BY <2>1, <2>2, <2>3, <3>1 DEF DeleteOK, Moves
    <3>3. ChangeOK(t, k)' /\ Done(t, k)'
      BY <3>1 DEF ChangeOK, Done, Moves, ChangePc
    <3>4. QED
      BY <1>2, <1>5, <2>1, <3>1, <3>2, <3>3, OneKeyStep
  <2>5. CASE dir[VF(k)] = None
    <3>1. Returns(t)
      BY <1>2, <1>8, <2>5, ReturnEffect DEF DeleteValueFile, CallInv, VF
    <3>2. k \notin tainted => Base(k)'
      BY <2>1, <2>2, <2>3, <2>5 DEF Base, Holds, CacheOK
    <3>3. QED
      BY <1>2, <1>5, <2>1, <3>1, <3>2, OneKeyStep
  <2>6. QED
    BY <2>4, <2>5
<1>9. CASE RemoveCached(t, k)
  <2>1. Returns(t)
    BY <1>2, <1>9, ReturnEffect DEF RemoveCached, CallInv
  <2>2. StoreType' /\ cache'[k] = None /\ \A l \in Keys \ {k} : SameFiles(l)
    BY <1>3, <1>9 DEF RemoveCached, StoreType, FilesOK, SameFiles
  <2>3. k \notin tainted => Base(k)'
    <3>1. k \notin tainted => dir[VF(k)] = None /\ dir[KF(k)] = None /\ expected[k] = None
      BY <1>4, <1>9 DEF RemoveCached, DeleteOK
    <3>2. UNCHANGED <<dir, expected>>
      BY <1>9 DEF RemoveCached
    <3>3. QED
      BY <2>2, <3>1, <3>2 DEF Base, Holds, CacheOK
  <2>4. QED
    BY <1>2, <1>5, <2>1, <2>2, <2>3, OneKeyStep
<1>10. QED
  BY <1>7, <1>8, <1>9 DEF DeleteValue

\* A step of a call that is about every key.
LEMMA AllKeysStep ==
  ASSUME IInv, StoreType', NEW t \in Threads, call[t].op \in {"deleteAll", "change"},
         NEW pc, NEW todo,
         Returns(t) \/ (Moves(t, pc, call[t].val, todo) /\ PartOf(pc, call[t].op) /\ pc # "fill"),
         \A k \in Keys : k \notin tainted' => call[t].alone \/ k \notin tainted,
         Returns(t) => \A k \in Keys : k \notin tainted' => Base(k)',
         ~Returns(t) => \A k \in Keys :
             /\ k \notin tainted' => k \notin tainted /\ DeleteOK(t, k)' /\ ChangeOK(t, k)'
             /\ call[t].alone \/ k \notin tainted' => Done(t, k)'
  PROVE  IInv'
<1>1. CallInv /\ call[t].keys = Keys
  BY DEF IInv, CallInv, TypeInv, Shape
<1>2. CallInv'
  BY <1>1, CallStep
<1>3. ASSUME NEW k \in Keys
      PROVE  KeyInv(k)'
  <2>1. KeyInv(k) /\ k \in call[t].keys /\ call[t].op # "get"
    BY <1>1 DEF IInv
  <2>2. CASE Returns(t)
    BY <1>1, <2>1, <2>2, WriterReturns
  <2>3. CASE ~Returns(t)
    BY <1>1, <2>1, <2>3, WriterMoves
  <2>4. QED
    BY <2>2, <2>3
<1>4. QED
  BY <1>2, <1>3 DEF IInv

LEMMA DeleteAllStep ==
  ASSUME IInv, NEW t \in Threads, DeleteAll(t)
  PROVE  IInv'
<1>1. call[t].pc \in DeleteAllPc
  BY DEF DeleteAll, EvictAll, DeleteKeyFiles, DeleteValueFiles, DeleteAllPc
<1>2. CallInv /\ call[t].op = "deleteAll" /\ call[t].keys = Keys
  BY <1>1 DEF IInv, CallInv, TypeInv, Shape, PartOf, GetPc, SavePc, DeletePc, DeleteAllPc, ChangePc
<1>3. StoreType
  BY <1>2, StoreTyped
<1>4. ASSUME NEW k \in Keys, call[t].alone \/ k \notin tainted
      PROVE  Done(t, k)
  BY <1>2, <1>4 DEF IInv, KeyInv
<1>5. ASSUME NEW pc \in DeleteAllPc, Moves(t, pc, call[t].val, call[t].todo)
      PROVE  /\ PartOf(pc, call[t].op) /\ pc # "fill" /\ ~Returns(t)
             /\ \A k \in Keys : DeleteOK(t, k)' /\ ChangeOK(t, k)'
  <2>1. call'[t].pc = pc /\ call'[t].op = "deleteAll"
    BY <1>2, <1>5 DEF Moves
  <2>2. QED
    BY <1>2, <2>1 DEF DeleteAllPc, PartOf, Returns, Idle, DeleteOK, ChangeOK, ChangePc
<1>6. ASSUME NEW kind \in {"key", "value"}, dir' = Without(kind)
      PROVE  /\ dir' \in [Files -> Contents] /\ FilesOK(dir')
             /\ \A k \in Keys : /\ dir'[KF(k)] = IF kind = "key" THEN None ELSE dir[KF(k)]
                                /\ dir'[VF(k)] = IF kind = "value" THEN None ELSE dir[VF(k)]
  <2>1. dir' \in [Files -> Contents]
    BY <1>3, <1>6 DEF StoreType, Without, Contents
  <2>2. \A k \in Keys : /\ dir'[KF(k)] = IF kind = "key" THEN None ELSE dir[KF(k)]
                        /\ dir'[VF(k)] = IF kind = "value" THEN None ELSE dir[VF(k)]
    BY <1>6 DEF Without, KF, VF, Files
  <2>3. FilesOK(dir')
    BY <1>3, <2>2 DEF FilesOK, StoreType, KeyFile, ValueFile
  <2>4. QED
    BY <2>1, <2>2, <2>3
<1>7. CASE EvictAll(t)
  <2>1. Moves(t, "delete_keys", call[t].val, call[t].todo)
    BY <1>2, <1>7, GotoEffect DEF EvictAll, CallInv, Pc, DeleteAllPc
  <2>2. StoreType' /\ UNCHANGED tainted /\ \A k \in Keys : cache'[k] = None
    BY <1>3, <1>7 DEF EvictAll, StoreType, FilesOK
  <2>3. \A k \in Keys : Done(t, k)'
    BY <2>1, <2>2 DEF Done, Moves
  <2>4. QED
    BY <1>2, <1>5, <2>1, <2>2, <2>3, AllKeysStep DEF DeleteAllPc
<1>8. CASE DeleteKeyFiles(t)
  <2>1. Moves(t, "delete_values", call[t].val, call[t].todo)
    BY <1>2, <1>8, GotoEffect DEF DeleteKeyFiles, CallInv, Pc, DeleteAllPc
  <2>2. StoreType' /\ UNCHANGED <<cache, tainted>> /\ \A k \in Keys : dir'[KF(k)] = None
    BY <1>3, <1>6, <1>8 DEF DeleteKeyFiles, StoreType, FilesOK
  <2>3. \A k \in Keys : call[t].alone \/ k \notin tainted' => Done(t, k)'
    BY <1>4, <1>8, <2>1, <2>2 DEF Done, Moves, DeleteKeyFiles
  <2>4. QED
    BY <1>2, <1>5, <2>1, <2>2, <2>3, AllKeysStep DEF DeleteAllPc
<1>9. CASE DeleteValueFiles(t)
  <2>1. Returns(t)
    BY <1>2, <1>9, ReturnEffect DEF DeleteValueFiles, CallInv
  <2>2. /\ \A k \in Keys : dir'[VF(k)] = None /\ dir'[KF(k)] = dir[KF(k)]
        /\ dir' \in [Files -> Contents] /\ FilesOK(dir')
    BY <1>6, <1>9 DEF DeleteValueFiles
  <2>3. StoreType'
    BY <1>3, <1>9, <2>2 DEF DeleteValueFiles, StoreType, FilesOK
  <2>4. \A k \in Keys : k \notin tainted' => call[t].alone \/ k \notin tainted
    BY <1>9 DEF DeleteValueFiles
  <2>5. ASSUME NEW k \in Keys, k \notin tainted'
        PROVE  Base(k)'
    <3>1. cache'[k] = None /\ dir'[KF(k)] = None /\ expected'[k] = None
      BY <1>4, <1>9, <2>2, <2>4, <2>5 DEF DeleteValueFiles, Done
    <3>2. QED
      BY <2>2, <3>1 DEF Base, Holds, CacheOK
  <2>6. QED
    BY <1>2, <2>1, <2>3, <2>4, <2>5, AllKeysStep
<1>10. QED
  BY <1>7, <1>8, <1>9 DEF DeleteAll

\* A complete copy holds under the new key what the store holds.
LEMMA CopyHolds ==
  ASSUME CallInv, NEW t \in Threads, NEW k \in Keys, call[t].todo = {},
         Holds(dir, encKey, k), CopiedOK(t, VF(k)), CopiedOK(t, KF(k))
  PROVE  Holds(tmp, call[t].enc, k)
<1>1. StoreType /\ call[t].enc \in EncKeys
  BY StoreTyped DEF CallInv, TypeInv, CallRec
<1>2. ASSUME NEW f \in {KF(k), VF(k)}, NEW v \in Values \cup {"key"}, CopiedOK(t, f),
             dir[f] \in Encrypted(v, encKey)
      PROVE  tmp[f] \in Encrypted(v, call[t].enc)
  <2>1. /\ dir[f] # None
        /\ dir[f] = Unencrypted => ReadAs(dir[f], encKey) = None
        /\ dir[f] # Unencrypted => ReadAs(dir[f], encKey) = v
    BY <1>1, <1>2, EncryptedFile DEF StoreType
  <2>2. ReadAs(dir[f], encKey) = v
    BY <1>2, <2>1 DEF CopiedOK
  <2>3. QED
    BY <1>2, <2>1, <2>2 DEF CopiedOK
<1>3. CASE expected[k] = None
  BY <1>3 DEF Holds, CopiedOK
<1>4. CASE expected[k] # None
  <2>1. expected[k] \in Values
    BY <1>1, <1>4 DEF StoreType
  <2>2. QED
    BY <1>2, <1>4, <2>1 DEF Holds
<1>5. QED
  BY <1>3, <1>4

LEMMA ChangeStep ==
  ASSUME IInv, NEW t \in Threads, ChangeEncryptionKey(t)
  PROVE  IInv'
<1>1. call[t].pc \in ChangePc
  BY DEF ChangeEncryptionKey, MkDirs, CopyFile, CopyFails, DeleteDir, Rename, SetKey, ChangePc
<1>2. CallInv /\ call[t].op = "change" /\ call[t].keys = Keys /\ call[t].enc \in EncKeys
  BY <1>1 DEF IInv, CallInv, TypeInv, Shape, PartOf, GetPc, SavePc, DeletePc, DeleteAllPc,
              ChangePc, CallRec
<1>3. StoreType
  BY <1>2, StoreTyped
<1>4. \A k \in Keys : k \notin tainted => ChangeOK(t, k)
  BY <1>2 DEF IInv, KeyInv, Untainted
<1>5. ASSUME NEW pc \in ChangePc, NEW todo, Moves(t, pc, call[t].val, todo)
      PROVE  /\ PartOf(pc, call[t].op) /\ pc # "fill" /\ ~Returns(t)
             /\ call'[t].pc = pc /\ call'[t].todo = todo /\ call'[t].enc = call[t].enc
             /\ \A k \in Keys : DeleteOK(t, k)' /\ Done(t, k)'
  <2>1. /\ call'[t].pc = pc /\ call'[t].op = "change"
        /\ call'[t].todo = todo /\ call'[t].enc = call[t].enc
    BY <1>2, <1>5 DEF Moves
  <2>2. QED
    BY <1>2, <2>1 DEF ChangePc, PartOf, Returns, Idle, DeleteOK, Done
<1>6. CASE MkDirs(t)
  <2>1. StoreType' /\ (\A k \in Keys : k \notin tainted' => k \notin tainted)
        /\ UNCHANGED <<dir, tmp, encKey, cache, expected>>
    BY <1>3, <1>6 DEF MkDirs, StoreType, FilesOK
  <2>2. CASE exists /\ tmpExists'
    <3>1. DEFINE todo == {f \in Files : dir[f] # None}
    <3>2. Moves(t, "copy", call[t].val, todo)
      BY <1>2, <1>6, <2>2, MkDirsEffect DEF MkDirs, CallInv
    <3>3. ASSUME NEW k \in Keys, k \notin tainted'
          PROVE  ChangeOK(t, k)'
      <4>1. Holds(dir, encKey, k) /\ CacheOK(k)
        BY <1>4, <1>6, <2>1, <3>3 DEF ChangeOK, MkDirs, ChangePc
      <4>2. \A f \in Files : f[1] = k /\ dir[f] = None => tmp[f] = None
        BY <1>6, <2>2, <3>3 DEF MkDirs
      <4>3. \A f \in {KF(k), VF(k)} : f \in Files /\ f[1] = k
        BY DEF KF, VF, Files
      <4>4. call'[t].pc = "copy" /\ call'[t].todo = todo
        BY <3>2, <1>5 DEF ChangePc
      <4>5. CopiedOK(t, KF(k))' /\ CopiedOK(t, VF(k))'
        BY <2>1, <4>2, <4>3, <4>4 DEF CopiedOK
      <4>6. Holds(dir, encKey, k)' /\ CacheOK(k)'
        BY <2>1, <4>1 DEF Holds, CacheOK
      <4>7. QED
        BY <4>4, <4>5, <4>6 DEF ChangeOK
    <3>4. QED
      BY <1>2, <1>5, <2>1, <3>2, <3>3, AllKeysStep DEF ChangePc
  <2>3. CASE ~(exists /\ tmpExists')
    <3>1. Returns(t)
      BY <1>2, <1>6, <2>3, ReturnEffect DEF MkDirs, CallInv
    <3>2. \A k \in Keys : k \notin tainted' => Base(k)'
      BY <1>4, <1>6, <2>1 DEF MkDirs, ChangeOK, ChangePc, Base, Holds, CacheOK
    <3>3. QED
      BY <1>2, <2>1, <3>1, <3>2, AllKeysStep
  <2>4. QED
    BY <2>2, <2>3
<1>7. CASE CopyFile(t)
  <2>1. PICK f \in call[t].todo :
           /\ Read(f) # None
           /\ \E out \in Encrypted(Read(f), call[t].enc) : tmp' = [tmp EXCEPT ![f] = out]
           /\ call' = [call EXCEPT ![t].todo = @ \ {f}]
    BY <1>7 DEF CopyFile
  <2>0. PICK out \in Encrypted(Read(f), call[t].enc) : tmp' = [tmp EXCEPT ![f] = out]
    BY <2>1
  <2>2. f \in Files /\ Read(f) = ReadAs(dir[f], encKey)
    BY <1>2 DEF CallInv, TypeInv, TypeOK, Read, ReadAs
  <2>3. Moves(t, "copy", call[t].val, call[t].todo \ {f})
    BY <1>2, <1>7, <2>1, CopyEffect DEF CopyFile, CallInv
  <2>4. PICK k \in Keys : f = KF(k) \/ f = VF(k)
    BY <2>2 DEF Files, KF, VF
  <2>5. (f = KF(k) /\ Read(f) = "key") \/ (f = VF(k) /\ Read(f) \in Values)
    BY <1>3, <2>1, <2>2, <2>4 DEF ReadAs, StoreType, FilesOK, KeyFile, ValueFile
  <2>6. /\ tmp' \in [Files -> Contents] /\ FilesOK(tmp')
        /\ \A g \in Files \ {f} : tmp'[g] = tmp[g]
    <3>1. (f = KF(k) /\ out \in KeyFile) \/ (f = VF(k) /\ out \in ValueFile)
      BY <1>2, <2>0, <2>5 DEF KeyFile, ValueFile, Encrypted, Content
    <3>2. tmp \in [Files -> Contents] /\ FilesOK(tmp)
      BY <1>3 DEF StoreType
    <3>3. \A e : e = [tmp EXCEPT ![f] = out] =>
             /\ e \in [Files -> Contents] /\ FilesOK(e)
             /\ \A g \in Files \ {f} : e[g] = tmp[g]
      BY <2>4, <3>1, <3>2, PutFile
    <3>4. QED
      BY <2>0, <3>3
  <2>7. UNCHANGED <<dir, exists, tmpExists, encKey, cache, calls, expected, tainted>> /\ call[t].pc = "copy"
    BY <1>7 DEF CopyFile
  <2>8. StoreType'
    BY <1>3, <2>6, <2>7 DEF StoreType, FilesOK
  <2>9. ASSUME NEW l \in Keys, l \notin tainted
        PROVE  ChangeOK(t, l)'
    <3>1. /\ Holds(dir, encKey, l) /\ CacheOK(l)
          /\ CopiedOK(t, KF(l)) /\ CopiedOK(t, VF(l))
      BY <1>4, <2>7, <2>9 DEF ChangeOK, ChangePc
    <3>2. call'[t].pc = "copy" /\ call'[t].todo = call[t].todo \ {f} /\ call'[t].enc = call[t].enc
      BY <1>5, <2>3 DEF ChangePc
    <3>3. ASSUME NEW g \in Files, CopiedOK(t, g)
          PROVE  CopiedOK(t, g)'
      <4>1. CASE g = f
        <5>1. tmp'[f] \in Encrypted(Read(f), call[t].enc)
          BY <1>3, <2>0, <2>2 DEF StoreType
        <5>2. dir[f] # None
          BY <2>1, <2>2 DEF ReadAs
        <5>3. QED
          BY <2>1, <2>2, <2>7, <3>2, <4>1, <5>1, <5>2 DEF CopiedOK
      <4>2. CASE g # f
        BY <2>6, <2>7, <3>2, <3>3, <4>2 DEF CopiedOK
      <4>3. QED
        BY <4>1, <4>2
    <3>4. CopiedOK(t, KF(l))' /\ CopiedOK(t, VF(l))'
      BY <3>1, <3>3, KeyIsFile
    <3>5. Holds(dir, encKey, l)' /\ CacheOK(l)'
      BY <2>7, <3>1 DEF Holds, CacheOK
    <3>6. QED
      BY <3>2, <3>4, <3>5 DEF ChangeOK
  <2>10. QED
    BY <1>2, <1>5, <2>3, <2>7, <2>8, <2>9, AllKeysStep DEF ChangePc
<1>8. CASE CopyFails(t)
  <2>0. tmp' \in [Files -> Contents] /\ FilesOK(tmp')
    <3>1. tmp \in [Files -> Contents] /\ FilesOK(tmp)
      BY <1>3 DEF StoreType
    <3>2. CASE tmp' = tmp
      BY <3>1, <3>2 DEF FilesOK
    <3>3. ASSUME NEW f \in call[t].todo, tmp' = [tmp EXCEPT ![f] = Unencrypted]
          PROVE  tmp' \in [Files -> Contents] /\ FilesOK(tmp')
      <4>1. f \in Files
        BY <1>2 DEF CallInv, TypeInv, TypeOK
      <4>2. PICK k \in Keys : f = KF(k) \/ f = VF(k)
        BY <4>1 DEF Files, KF, VF
      <4>3. Unencrypted \in KeyFile /\ Unencrypted \in ValueFile
        BY DEF KeyFile, ValueFile
      <4>4. \A e : e = [tmp EXCEPT ![f] = Unencrypted] => e \in [Files -> Contents] /\ FilesOK(e)
        BY <3>1, <4>2, <4>3, PutFile
      <4>5. QED
        BY <3>3, <4>4
    <3>4. QED
      BY <1>8, <3>2, <3>3 DEF CopyFails
  <2>1. Returns(t) /\ StoreType' /\ UNCHANGED <<dir, encKey, cache, expected, tainted>>
    BY <1>2, <1>3, <1>8, <2>0, ReturnEffect DEF CopyFails, CallInv, StoreType, FilesOK
  <2>2. \A k \in Keys : k \notin tainted' => Base(k)'
    BY <1>4, <1>8, <2>1 DEF CopyFails, ChangeOK, ChangePc, Base, Holds, CacheOK
  <2>3. QED
    BY <1>2, <2>1, <2>2, AllKeysStep
<1>9. CASE DeleteDir(t)
  <2>1. Moves(t, "rename", call[t].val, call[t].todo)
    BY <1>2, <1>9, GotoEffect DEF DeleteDir, CallInv, Pc, ChangePc
  <2>2. /\ UNCHANGED <<tmp, encKey, cache, calls, expected, tainted>>
        /\ call[t].pc = "copy" /\ call[t].todo = {} /\ tmpExists' = tmpExists
    BY <1>9 DEF DeleteDir, Copied
  <2>3. StoreType'
    <3>1. dir' \in [Files -> Contents] /\ \A f \in Files : dir'[f] = None
      BY <1>9 DEF DeleteDir, NoFiles, Contents
    <3>2. FilesOK(dir')
      BY <3>1, KeyIsFile DEF FilesOK, KeyFile, ValueFile
    <3>3. exists' \in BOOLEAN
      BY <1>9 DEF DeleteDir
    <3>4. QED
      BY <1>3, <2>2, <3>1, <3>2, <3>3 DEF StoreType, FilesOK
  <2>4. ASSUME NEW k \in Keys, k \notin tainted
        PROVE  ChangeOK(t, k)'
    <3>1. CacheOK(k) /\ Holds(tmp, call[t].enc, k)
      BY <1>2, <1>4, <2>2, <2>4, CopyHolds DEF ChangeOK, ChangePc
    <3>2. call'[t].pc = "rename" /\ call'[t].enc = call[t].enc
      BY <1>5, <2>1 DEF ChangePc
    <3>3. Holds(tmp, call[t].enc, k)' /\ CacheOK(k)'
      BY <2>2, <3>1, <3>2 DEF Holds, CacheOK
    <3>4. QED
      BY <3>2, <3>3 DEF ChangeOK
  <2>5. QED
    BY <1>2, <1>5, <2>1, <2>2, <2>3, <2>4, AllKeysStep DEF ChangePc
<1>10. CASE Rename(t)
  <2>1. Moves(t, "set_key", call[t].val, call[t].todo)
    BY <1>2, <1>10, GotoEffect DEF Rename, CallInv, Pc, ChangePc
  <2>2. UNCHANGED <<encKey, cache, calls, expected>> /\ call[t].pc = "rename"
    BY <1>10 DEF Rename
  <2>3. StoreType'
    <3>1. NoFiles \in [Files -> Contents] /\ FilesOK(NoFiles)
      BY KeyIsFile DEF NoFiles, Contents, FilesOK, KeyFile, ValueFile
    <3>2. QED
      BY <1>3, <1>10, <3>1 DEF Rename, StoreType, FilesOK
  <2>4. ASSUME NEW k \in Keys, k \notin tainted'
        PROVE  k \notin tainted /\ ChangeOK(t, k)'
    <3>1. dir' = tmp /\ k \notin tainted
      BY <1>10, <2>4 DEF Rename
    <3>2. CacheOK(k) /\ Holds(tmp, call[t].enc, k)
      BY <1>4, <2>2, <3>1 DEF ChangeOK, ChangePc
    <3>3. call'[t].pc = "set_key" /\ call'[t].enc = call[t].enc
      BY <1>5, <2>1 DEF ChangePc
    <3>4. Holds(dir, call[t].enc, k)' /\ CacheOK(k)'
      BY <2>2, <3>1, <3>2, <3>3 DEF Holds, CacheOK
    <3>5. QED
      BY <3>1, <3>3, <3>4 DEF ChangeOK
  <2>5. QED
    BY <1>2, <1>5, <2>1, <2>3, <2>4, AllKeysStep DEF ChangePc
<1>11. CASE SetKey(t)
  <2>1. Returns(t)
    BY <1>2, <1>11, ReturnEffect DEF SetKey, CallInv
  <2>2. /\ UNCHANGED <<dir, exists, tmp, tmpExists, cache, calls, expected, tainted>>
        /\ encKey' = call[t].enc /\ call[t].pc = "set_key"
    BY <1>11 DEF SetKey
  <2>3. StoreType'
    BY <1>2, <1>3, <2>2 DEF StoreType, FilesOK
  <2>4. ASSUME NEW k \in Keys, k \notin tainted
        PROVE  Base(k)'
    <3>1. Holds(dir, call[t].enc, k) /\ CacheOK(k)
      BY <1>4, <2>2, <2>4 DEF ChangeOK, ChangePc
    <3>2. QED
      BY <2>2, <3>1 DEF Base, Holds, CacheOK
  <2>5. QED
    BY <1>2, <2>1, <2>2, <2>3, <2>4, AllKeysStep
<1>12. QED
  BY <1>6, <1>7, <1>8, <1>9, <1>10, <1>11 DEF ChangeEncryptionKey

LEMMA NotAlone ==
  ASSUME NEW c \in CallRec
  PROVE  LET d == [c EXCEPT !.alone = FALSE]
         IN  /\ d \in CallRec /\ d.alone = FALSE
             /\ d.op = c.op /\ d.keys = c.keys /\ d.pc = c.pc
             /\ d.val = c.val /\ d.enc = c.enc /\ d.out = c.out /\ d.todo = c.todo
  BY DEF CallRec

LEMMA BeginStep ==
  ASSUME IInv, NEW t \in Threads, NEW op \in Op \ {"idle"}, NEW keys \in SUBSET Keys,
         NEW pc, NEW v \in Values \cup {None}, NEW e \in EncKeys,
         Begin(t, op, keys, pc, v, e),
         \/ op = "get" /\ pc = "cache"
         \/ op = "save" /\ pc = "encrypt_key" /\ v \in Values
         \/ op = "delete" /\ pc = "delete_key"
         \/ op = "deleteAll" /\ pc = "evict"
         \/ op = "change" /\ pc = "mkdirs",
         op \in {"get", "save", "delete"} => \A k, l \in keys : k = l,
         op \in {"deleteAll", "change"} => keys = Keys
  PROVE  IInv'
<1> DEFINE others == Overlapping(op, keys)
           new == [op |-> op, keys |-> keys, pc |-> pc, val |-> v, enc |-> e, out |-> None,
                   todo |-> {}, alone |-> others = {}]
<1>1. CallInv /\ StoreType /\ call[t] = Idle
  BY StoreTyped DEF IInv, Begin
<1>2. call' = [q \in Threads |-> CASE q = t -> new
                                   [] q \in others -> [call[q] EXCEPT !.alone = FALSE]
                                   [] OTHER -> call[q]]
  BY DEF Begin, new, others
<1>3. t \notin others
  BY <1>1 DEF Overlapping, Idle
<1>4. /\ new.op = op /\ new.keys = keys /\ new.pc = pc /\ new.val = v /\ new.enc = e /\ new.out = None
      /\ new.todo = {} /\ new.alone = (others = {})
  OBVIOUS
<1>5. new \in CallRec /\ Shape(new)
  BY DEF CallRec, Shape, PartOf, OutOK, Op, Pc, GetPc, SavePc, DeletePc, DeleteAllPc, ChangePc,
         Files, Contents
<1> HIDE DEF new, others
<1>6. call'[t] = new
  BY <1>2, <1>3
<1>7. call \in [Threads -> CallRec] /\ \A q \in Threads : Shape(call[q])
  BY <1>1 DEF CallInv, TypeInv
<1>8. \A q \in Threads \ {t} :
         call'[q] = IF q \in others THEN [call[q] EXCEPT !.alone = FALSE] ELSE call[q]
  BY <1>2
<1>9. \A q \in Threads \ {t} :
         /\ call'[q] \in CallRec
         /\ call'[q].op = call[q].op /\ call'[q].keys = call[q].keys
         /\ call'[q].pc = call[q].pc /\ call'[q].val = call[q].val
         /\ call'[q].enc = call[q].enc /\ call'[q].todo = call[q].todo /\ call'[q].out = call[q].out
         /\ call'[q].alone => call[q].alone /\ q \notin others
  <2> SUFFICES ASSUME NEW q \in Threads \ {t}
               PROVE  /\ call'[q] \in CallRec
                      /\ call'[q].op = call[q].op /\ call'[q].keys = call[q].keys
                      /\ call'[q].pc = call[q].pc /\ call'[q].val = call[q].val
                      /\ call'[q].enc = call[q].enc /\ call'[q].todo = call[q].todo /\ call'[q].out = call[q].out
                      /\ call'[q].alone => call[q].alone /\ q \notin others
    OBVIOUS
  <2>1. CASE q \in others
    <3>1. call'[q] = [call[q] EXCEPT !.alone = FALSE]
      BY <1>8, <2>1
    <3>2. call[q] \in CallRec
      BY <1>7
    <3>3. call'[q].alone = FALSE
      BY <3>1, <3>2, NotAlone
    <3>4. /\ call'[q] \in CallRec
          /\ call'[q].op = call[q].op /\ call'[q].keys = call[q].keys
          /\ call'[q].pc = call[q].pc /\ call'[q].val = call[q].val
          /\ call'[q].enc = call[q].enc /\ call'[q].todo = call[q].todo /\ call'[q].out = call[q].out
      BY <3>1, <3>2, NotAlone
    <3>5. QED
      BY <3>3, <3>4
  <2>2. CASE q \notin others
    BY <1>7, <1>8, <2>2
  <2>3. QED
    BY <2>1, <2>2
<1>10. UNCHANGED <<dir, exists, tmp, tmpExists, encKey, cache, expected>>
      /\ tainted' = tainted \cup {k \in keys : \E q \in others : k \in call[q].keys}
  BY DEF Begin, others
<1>11. CallInv'
  <2>1. call' \in [Threads -> CallRec]
    <3> DEFINE g(q) == CASE q = t -> new
                         [] q \in others -> [call[q] EXCEPT !.alone = FALSE]
                         [] OTHER -> call[q]
    <3>1. call' = [q \in Threads |-> g(q)]
      BY <1>2
    <3>2. \A q \in Threads : call'[q] \in CallRec
      BY <1>6, <1>9, <1>5
    <3> HIDE DEF g
    <3>3. QED
      BY <3>1, <3>2
  <2>2. \A q \in Threads : Shape(call'[q])
    BY <1>6, <1>7, <1>9, <1>5 DEF Shape, OutOK
  <2>3. StoreType'
    <3>1. calls' \in 0 .. MaxCalls
      BY <1>1, BoundAssumption DEF Begin, StoreType
    <3>2. QED
      BY <1>1, <1>10, <3>1 DEF StoreType, FilesOK
  <2>4. \A q \in Threads : /\ call'[q].keys \subseteq Keys /\ call'[q].todo \subseteq Files
                          /\ call'[q].out \in Contents
    BY <2>1 DEF CallRec
  <2>5. AloneIsAlone'
    <3>1. ASSUME NEW q \in Threads, NEW r \in Threads, q # r,
                 call'[q].op # "get", call'[q].alone
          PROVE  call'[q].keys \cap call'[r].keys = {}
      <4>1. CASE q = t
        <5>1. others = {} /\ op # "get" /\ r # t
          BY <1>4, <1>6, <3>1, <4>1
        <5>2. call[r].keys \cap keys = {}
          BY <5>1 DEF Overlapping, others
        <5>3. QED
          BY <1>4, <1>6, <1>9, <4>1, <5>1, <5>2
      <4>2. CASE r = t
        <5>1. q \notin others /\ call[q].op # "get"
          BY <1>9, <3>1, <4>2
        <5>2. call[q].keys \cap keys = {}
          BY <5>1 DEF Overlapping, others
        <5>3. QED
          BY <1>4, <1>6, <1>9, <3>1, <4>2, <5>2
      <4>3. CASE q # t /\ r # t
        BY <1>1, <1>9, <3>1, <4>3 DEF CallInv, AloneIsAlone
      <4>4. QED
        BY <4>1, <4>2, <4>3
    <3>2. QED
      BY <3>1 DEF AloneIsAlone
  <2>6. QED
    BY <2>1, <2>2, <2>3, <2>4, <2>5 DEF CallInv, TypeInv, TypeOK, StoreType
<1>12. ASSUME NEW l \in Keys
       PROVE  KeyInv(l)'
  <2>1. KeyInv(l) /\ SameFiles(l)
    BY <1>10 DEF IInv, SameFiles
  <2>2. CASE l \notin keys
    <3>1. SameCalls(l)
      BY <1>4, <1>1, <1>6, <1>9, <2>2 DEF SameCalls, Idle
    <3>2. QED
      BY <1>10, <2>1, <3>1, OtherKey
  <2>3. CASE l \in keys
    <3>1. Done(t, l)'
      BY <1>4, <1>6 DEF Done
    <3>2. ASSUME NEW q \in Threads, l \in call'[q].keys, call'[q].alone
          PROVE  Done(q, l)'
      BY <1>9, <1>10, <2>1, <3>1, <3>2 DEF Done, KeyInv
    <3>3. ASSUME l \notin tainted'
          PROVE  Untainted(l)' /\ \A q \in Threads : l \in call'[q].keys => Done(q, l)'
      <4>1. l \notin tainted /\ \A q \in others : l \notin call[q].keys
        BY <1>10, <2>3, <3>3
      <4>2. \A q \in Threads : l \in call[q].keys => op = "get" /\ call[q].op = "get"
        BY <2>3, <4>1 DEF Overlapping, others
      <4>3. /\ Base(l)
            /\ \A q \in Threads : l \in call[q].keys /\ call[q].pc = "fill"
                                     => call[q].val = expected[l]
        BY <2>1, <4>1, <4>2 DEF KeyInv, Untainted, QuietOK, Quiet
      <4>4. Base(l)'
        BY <1>10, <4>3 DEF Base, Holds, CacheOK, ReadAs
      <4>5. \A q \in Threads \ {t} : l \in call'[q].keys =>
               /\ op = "get" /\ call'[q].op = "get" /\ call'[q].pc \in GetPc
               /\ call'[q].pc = "fill" => call'[q].val = expected'[l]
        <5>1. \A q \in Threads : l \in call[q].keys => call[q].pc \in GetPc
          BY <1>7, <4>2 DEF Shape, PartOf
        <5>2. QED
          BY <1>9, <1>10, <4>2, <4>3, <5>1
      <4>6. call'[t].op = op /\ call'[t].pc = pc /\ pc # "fill"
        BY <1>4, <1>6
      <4>7. Excl(l)'
        BY <4>5, <4>6 DEF Excl
      <4>8. QuietOK(l)'
        BY <4>4, <4>5, <4>6 DEF QuietOK
      <4>9. ASSUME NEW q \in Threads, l \in call'[q].keys
            PROVE  DeleteOK(q, l)' /\ ChangeOK(q, l)' /\ Done(q, l)'
        <5>1. CASE q = t
          <6>1. DeleteOK(t, l)'
            BY <4>4, <4>6 DEF DeleteOK
          <6>2. Holds(dir, encKey, l)' /\ CacheOK(l)'
            BY <4>4 DEF Base
          <6>3. ChangeOK(t, l)'
            BY <4>6, <6>2 DEF ChangeOK
          <6>4. QED
            BY <3>1, <5>1, <6>1, <6>3
        <5>2. CASE q # t
          BY <4>5, <4>9, <5>2 DEF DeleteOK, ChangeOK, Done, GetPc, ChangePc
        <5>3. QED
          BY <5>1, <5>2
      <4>10. QED
        BY <4>7, <4>8, <4>9 DEF Untainted
    <3>4. QED
      BY <3>2, <3>3 DEF KeyInv
  <2>4. QED
    BY <2>2, <2>3
<1>13. QED
  BY <1>11, <1>12 DEF IInv

LEMMA CallBegins ==
  ASSUME IInv, NEW t \in Threads, Call(t)
  PROVE  IInv'
<1>1. 1 \in EncKeys
  BY BoundAssumption
<1>2. CASE \E k \in Keys : Begin(t, "get", {k}, "cache", None, 1)
  BY <1>1, <1>2, BeginStep DEF Op
<1>3. CASE \E k \in Keys, v \in Values : Begin(t, "save", {k}, "encrypt_key", v, 1)
  BY <1>1, <1>3, BeginStep DEF Op
<1>4. CASE \E k \in Keys : Begin(t, "delete", {k}, "delete_key", None, 1)
  BY <1>1, <1>4, BeginStep DEF Op
<1>5. CASE Begin(t, "deleteAll", Keys, "evict", None, 1)
  BY <1>1, <1>5, BeginStep DEF Op
<1>6. CASE \E e \in EncKeys \ {encKey} : Begin(t, "change", Keys, "mkdirs", None, e)
  BY <1>6, BeginStep DEF Op
<1>7. QED
  BY <1>2, <1>3, <1>4, <1>5, <1>6 DEF Call

LEMMA EvictStep ==
  ASSUME IInv, NEW k \in Keys, Evict(k)
  PROVE  IInv'
<1>1. /\ UNCHANGED <<dir, exists, tmp, tmpExists, encKey, call, calls, expected, tainted>>
      /\ cache' = [cache EXCEPT ![k] = None]
  BY DEF Evict
<1>2. CallInv /\ cache \in [Keys -> Values \cup {None}]
  BY DEF IInv, CallInv, TypeInv, TypeOK
<1>3. CallInv'
  BY <1>1, <1>2 DEF CallInv, TypeInv, TypeOK, FilesOK, AloneIsAlone
<1>4. ASSUME NEW l \in Keys
      PROVE  KeyInv(l)'
  <2>1. CASE l = k
    BY <1>1, <1>2, <2>1, EvictedKey DEF IInv
  <2>2. CASE l # k
    <3>1. SameFiles(l) /\ SameCalls(l)
      BY <1>1, <1>2, <2>2 DEF SameFiles, SameCalls
    <3>2. QED
      BY <1>1, <3>1, OtherKey DEF IInv
  <2>3. QED
    BY <2>1, <2>2
<1>5. QED
  BY <1>3, <1>4 DEF IInv

LEMMA StutterStep == IInv /\ UNCHANGED vars => IInv'
<1> SUFFICES ASSUME IInv, UNCHANGED vars PROVE IInv'
  OBVIOUS
<1>1. CallInv'
  BY DEF vars, IInv, CallInv, TypeInv, TypeOK, FilesOK, AloneIsAlone
<1>2. \A l \in Keys : KeyInv(l)'
  BY OtherKey DEF vars, IInv, SameFiles, SameCalls
<1>3. QED
  BY <1>1, <1>2 DEF IInv
----------------------------------------------------------------------------
(* The theorems.                                                           *)

LEMMA InitInv == Init => IInv
<1> SUFFICES ASSUME Init PROVE IInv
  OBVIOUS
<1>1. \A t \in Threads : call[t] = Idle
  BY DEF Init
<1>2. /\ dir \in [Files -> Contents] /\ tmp \in [Files -> Contents]
      /\ FilesOK(dir) /\ FilesOK(tmp)
      /\ \A k \in Keys : dir[KF(k)] = None /\ dir[VF(k)] = None
  BY KeyIsFile DEF Init, NoFiles, Contents, FilesOK, KeyFile, ValueFile
<1>3. CallInv
  <2>1. call \in [Threads -> CallRec]
    BY IdleRec DEF Init
  <2>2. \A t \in Threads : Shape(call[t])
    BY <1>1 DEF Shape, PartOf, OutOK, Idle
  <2>3. TypeOK
    <3>1. \A t \in Threads : /\ call[t].keys \subseteq Keys /\ call[t].todo \subseteq Files
                            /\ call[t].out \in Contents
      BY <1>1 DEF Idle, Contents
    <3>2. cache \in [Keys -> Values \cup {None}] /\ expected \in [Keys -> Values \cup {None}]
      BY DEF Init
    <3>3. calls \in 0 .. MaxCalls /\ encKey \in EncKeys
      BY BoundAssumption DEF Init
    <3>4. exists \in BOOLEAN /\ tmpExists \in BOOLEAN /\ tainted \subseteq Keys
      BY DEF Init
    <3>5. QED
      BY <1>2, <3>1, <3>2, <3>3, <3>4 DEF TypeOK
  <2>4. AloneIsAlone
    BY <1>1 DEF AloneIsAlone, Idle
  <2>5. QED
    BY <1>2, <2>1, <2>2, <2>3, <2>4 DEF CallInv, TypeInv
<1>4. ASSUME NEW k \in Keys
      PROVE  KeyInv(k)
  <2>1. \A t \in Threads : k \notin call[t].keys
    BY <1>1 DEF Idle
  <2>2. Base(k)
    BY <1>2 DEF Init, Base, Holds, CacheOK
  <2>3. QED
    BY <2>1, <2>2 DEF KeyInv, Untainted, Excl, QuietOK
<1>5. QED
  BY <1>3, <1>4 DEF IInv

LEMMA NextInv == IInv /\ [Next]_vars => IInv'
<1> SUFFICES ASSUME IInv, [Next]_vars PROVE IInv'
  OBVIOUS
<1>1. CASE UNCHANGED vars
  BY <1>1, StutterStep
<1>2. ASSUME NEW t \in Threads, Call(t)
      PROVE  IInv'
  BY <1>2, CallBegins
<1>3. ASSUME NEW t \in Threads, Step(t)
      PROVE  IInv'
  BY <1>3, GetStep, SaveStep, DeleteStep, DeleteAllStep, ChangeStep DEF Step
<1>4. ASSUME NEW k \in Keys, Evict(k)
      PROVE  IInv'
  BY <1>4, EvictStep
<1>5. QED
  BY <1>1, <1>2, <1>3, <1>4 DEF Next

LEMMA Invariant == Spec => []IInv
  BY InitInv, NextInv, PTL DEF Spec

\* The files, the cache, the calls and the histories of the store have their types
\* (KeyValueEncryptedFileStore, MemCachedKeyValueStore).
THEOREM TypeCorrect == Spec => []TypeOK
<1>1. IInv => TypeOK
  BY DEF IInv, CallInv, TypeInv
<1>2. QED
  BY <1>1, Invariant, PTL

\* Between the calls on a key its two files are what the last call left: a save
\* writes both, a deletion removes both, a change of the encryption key, whether it
\* ends well or fails half way, keeps both. A file whose content could not be
\* encrypted is there and empty.
THEOREM FilesHoldLast == Spec => []FilesAreLast
<1>1. IInv => FilesAreLast
  <2> SUFFICES ASSUME IInv, NEW k \in Keys \ tainted, Quiet(k)
               PROVE  Holds(dir, encKey, k)
    BY DEF FilesAreLast, Holds, KF, VF
  <2>1. Base(k)
    BY DEF IInv, KeyInv, Untainted, QuietOK
  <2>2. QED
    BY <2>1 DEF Base
<1>2. QED
  BY <1>1, Invariant, PTL

\* Between the calls on a key the cache has nothing, or what the last call left in
\* the files: getValue(), which prefers the cache, answers what the files say.
THEOREM CacheHoldsLast == Spec => []CacheIsLast
<1>1. IInv => CacheIsLast
  <2> SUFFICES ASSUME IInv, NEW k \in Keys \ tainted, Quiet(k)
               PROVE  cache[k] \in {None, expected[k]}
    BY DEF CacheIsLast
  <2>1. Base(k)
    BY DEF IInv, KeyInv, Untainted, QuietOK
  <2>2. QED
    BY <2>1 DEF Base, CacheOK
<1>2. QED
  BY <1>1, Invariant, PTL

\* At every step of changeEncryptionKey() the last value of a key is in the one
\* directory that is there, under the key that goes with it, unless it could not be
\* encrypted: never only in memory, and never in a half finished copy alone.
THEOREM ChangeLosesNothing == Spec => []ChangeKeepsValues
<1>1. IInv => ChangeKeepsValues
  <2> SUFFICES ASSUME IInv, NEW t \in Threads, NEW k \in Keys \ tainted,
                      call[t].op = "change", expected[k] # None
               PROVE  CASE call[t].pc \in {"mkdirs", "copy"} ->
                              dir[VF(k)] \in Encrypted(expected[k], encKey)
                        [] call[t].pc = "rename" ->
                              tmp[VF(k)] \in Encrypted(expected[k], call[t].enc)
                        [] call[t].pc = "set_key" ->
                              dir[VF(k)] \in Encrypted(expected[k], call[t].enc)
    BY DEF ChangeKeepsValues, VF
  <2>1. Shape(call[t])
    BY DEF IInv, CallInv, TypeInv
  <2>2. ChangeOK(t, k) /\ call[t].pc \in ChangePc
    BY <2>1 DEF IInv, KeyInv, Untainted, Shape, PartOf
  <2>3. QED
    BY <2>2 DEF ChangeOK, ChangePc, Holds
<1>2. QED
  BY <1>1, Invariant, PTL
=============================================================================
