---------------------------- MODULE KeyValueStore ----------------------------
(***************************************************************************)
(* A key value store of encrypted files with a cache in memory in front    *)
(* of it (MemCachedKeyValueStore over KeyValueEncryptedFileStore), used by *)
(* several threads. Of the methods only deleteValue() holds a lock, so the *)
(* files of one call are touched in steps that those of other calls may    *)
(* come between. A content that cannot be encrypted leaves an empty file   *)
(* and no error: here a file with the mark Unencrypted. A process death is *)
(* not an action: what a property says of every state of the files, it     *)
(* says of the files such a death leaves.                                  *)
(***************************************************************************)
EXTENDS Naturals, FiniteSets

CONSTANTS Threads, Keys, Values,
          EncKeys,    \* encryption keys; 1 is that of the first opening
          MaxCalls,   \* bound on the calls of a behaviour
          None,       \* no file, no value
          Broken,     \* a file opened for writing and not yet written
          Unencrypted \* a file left empty: its content could not be encrypted

ASSUME BoundAssumption == 1 \in EncKeys /\ MaxCalls \in Nat
\* The marks are no values and no contents of a file, and an empty file is a file
ASSUME NoneAssumption ==
    /\ None \notin Values \cup {"key", Unencrypted}
    /\ {None, Broken, Unencrypted} \cap [val : Values \cup {"key"}, enc : EncKeys] = {}

VARIABLES dir,        \* the files of the store
          exists,     \* whether its directory exists
          tmp,        \* the files of the directory <name>-tmp
          tmpExists,  \* whether that directory exists
          encKey,     \* encryptionKey
          cache,      \* memCache; an entry may be evicted at any time
          call,       \* what each thread executes
          calls,      \* the calls made so far
          expected,   \* history: by key, what the last call left in the store
          tainted     \* history: keys of which expected says nothing

vars == <<dir, exists, tmp, tmpExists, encKey, cache, call, calls, expected, tainted>>

Files == Keys \X {"key", "value"}
Content(v, e) == [val |-> v, enc |-> e]
NoFiles == [f \in Files |-> None]
Idle == [op |-> "idle", keys |-> {}, pc |-> "idle",
         val |-> None, enc |-> 1, out |-> None, todo |-> {}, alone |-> TRUE]

Init ==
    /\ dir = NoFiles
    /\ exists = TRUE
    /\ tmp = NoFiles
    /\ tmpExists = FALSE
    /\ encKey = 1
    /\ cache = [k \in Keys |-> None]
    /\ call = [t \in Threads |-> Idle]
    /\ calls = 0
    /\ expected = [k \in Keys |-> None]
    /\ tainted = {}

\* encryptWithoutBase64Encoding(): null, and no exception, when it fails
Encrypted(v, e) == {Content(v, e), Unencrypted}

\* decryptFileAsString(): nothing of an empty file or one under another key
Read(f) ==
    IF dir[f] \notin {None, Broken, Unencrypted} /\ dir[f].enc = encKey THEN dir[f].val ELSE None

Goto(t, pc) == call' = [call EXCEPT ![t].pc = pc]
Return(t) == call' = [call EXCEPT ![t] = Idle]

-----------------------------------------------------------------------------
(* A call begins. Calls on one key that overlap, unless both only read,    *)
(* leave the key tainted.                                                  *)

Overlapping(op, keys) ==
    {t \in Threads : /\ call[t].keys \cap keys # {}
                     /\ op # "get" \/ call[t].op # "get"}

Begin(t, op, keys, pc, v, e) ==
    /\ call[t] = Idle
    /\ calls < MaxCalls
    /\ calls' = calls + 1
    /\ LET others == Overlapping(op, keys) IN
          /\ call' = [q \in Threads |->
                CASE q = t -> [op |-> op, keys |-> keys, pc |-> pc, val |-> v,
                               enc |-> e, out |-> None, todo |-> {}, alone |-> others = {}]
                  [] q \in others -> [call[q] EXCEPT !.alone = FALSE]
                  [] OTHER -> call[q]]
          /\ tainted' = tainted \cup
                {k \in keys : \E q \in others : k \in call[q].keys}
    /\ UNCHANGED <<dir, exists, tmp, tmpExists, encKey, cache, expected>>

Call(t) ==
    \/ \E k \in Keys : Begin(t, "get", {k}, "cache", None, 1)
    \/ \E k \in Keys, v \in Values : Begin(t, "save", {k}, "encrypt_key", v, 1)
    \/ \E k \in Keys : Begin(t, "delete", {k}, "delete_key", None, 1)
    \/ Begin(t, "deleteAll", Keys, "evict", None, 1)
    \/ \E e \in EncKeys \ {encKey} : Begin(t, "change", Keys, "mkdirs", None, e)

-----------------------------------------------------------------------------
(* getValue() *)

\* A value in the cache is returned, otherwise the file is read, if it can be
ReadCache(t, k) ==
    /\ call[t].pc = "cache"
    /\ IF cache[k] # None THEN Return(t) ELSE Goto(t, "read")
    /\ UNCHANGED <<dir, exists, tmp, tmpExists, encKey, cache, calls, expected, tainted>>

ReadFile(t, k) ==
    /\ call[t].pc = "read"
    /\ \/ /\ Read(<<k, "value">>) # None
          /\ call' = [call EXCEPT ![t].pc = "fill", ![t].val = Read(<<k, "value">>)]
       \/ Return(t)
    /\ UNCHANGED <<dir, exists, tmp, tmpExists, encKey, cache, calls, expected, tainted>>

FillCache(t, k) ==
    /\ call[t].pc = "fill"
    /\ cache' = [cache EXCEPT ![k] = call[t].val]
    /\ Return(t)
    /\ UNCHANGED <<dir, exists, tmp, tmpExists, encKey, calls, expected, tainted>>

-----------------------------------------------------------------------------
(* saveValue() *)

\* encryptStringToFile() of the key and then of the value. The content is
\* encrypted before the file is opened, under the key of that moment, and a
\* failure to encrypt is none of the call's: the file is opened, stays empty,
\* and the call goes on.
Encrypt(t, v, from, to) ==
    /\ call[t].pc = from
    /\ \E out \in Encrypted(v, encKey) :
          call' = [call EXCEPT ![t].pc = to, ![t].out = out]
    /\ UNCHANGED <<dir, exists, tmp, tmpExists, encKey, cache, calls, expected, tainted>>

\* The file is emptied when it is opened
Open(t, f, from, to) ==
    /\ call[t].pc = from
    /\ exists
    /\ dir' = [dir EXCEPT ![f] = Broken]
    /\ Goto(t, to)
    /\ UNCHANGED <<exists, tmp, tmpExists, encKey, cache, calls, expected, tainted>>

\* A file deleted or replaced since it was opened takes the bytes with it
Write(t, f, from, to) ==
    /\ call[t].pc = from
    /\ \/ dir[f] # None /\ dir' = [dir EXCEPT ![f] = call[t].out]
       \/ dir[f] # Broken /\ dir' = dir
    /\ Goto(t, to)
    /\ UNCHANGED <<exists, tmp, tmpExists, encKey, cache, calls, expected, tainted>>

WriteFiles(t, k) ==
    \/ Encrypt(t, "key", "encrypt_key", "open_key")
    \/ Open(t, <<k, "key">>, "open_key", "write_key")
    \/ Write(t, <<k, "key">>, "write_key", "encrypt_value")
    \/ Encrypt(t, call[t].val, "encrypt_value", "open_value")
    \/ Open(t, <<k, "value">>, "open_value", "write_value")
    \/ Write(t, <<k, "value">>, "write_value", "put")

BugPutKey(t, k) == [cache EXCEPT ![k] = k]
Put(t, k) == [cache EXCEPT ![k] = call[t].val]

\* The call succeeds; a save that no other call overlapped makes the key good
\* again, whatever came before
PutCache(t, k) ==
    /\ call[t].pc = "put"
    /\ cache' = Put(t, k)
    /\ expected' = [expected EXCEPT ![k] = call[t].val]
    /\ tainted' = IF call[t].alone THEN tainted \ {k} ELSE tainted
    /\ Return(t)
    /\ UNCHANGED <<dir, exists, tmp, tmpExists, encKey, calls>>

\* A file cannot be opened or written: false, and the cache is left as it is
SaveFails(t, k) ==
    /\ call[t].pc \in {"open_key", "write_key", "open_value", "write_value"}
    /\ tainted' = tainted \cup {k}
    /\ Return(t)
    /\ UNCHANGED <<dir, exists, tmp, tmpExists, encKey, cache, calls, expected>>

-----------------------------------------------------------------------------
(* deleteValue(), which is synchronized, and deleteAll() *)

BugDeleteKeyFile(t, k) ==
    /\ call[t].pc = "delete_key"
    /\ Goto(t, "delete_value")
    /\ UNCHANGED <<dir, exists, tmp, tmpExists, encKey, cache, calls, expected, tainted>>

DeleteKeyFile(t, k) ==
    /\ call[t].pc = "delete_key"
    /\ \A q \in Threads : call[q].op = "delete" => call[q].pc # "delete_value"
    /\ dir' = [dir EXCEPT ![<<k, "key">>] = None]
    /\ Goto(t, "delete_value")
    /\ UNCHANGED <<exists, tmp, tmpExists, encKey, cache, calls, expected, tainted>>

\* Without a file of the value the call returns false
DeleteValueFile(t, k) ==
    /\ call[t].pc = "delete_value"
    /\ dir' = [dir EXCEPT ![<<k, "value">>] = None]
    /\ IF dir[<<k, "value">>] # None THEN Goto(t, "remove") ELSE Return(t)
    /\ expected' = [expected EXCEPT ![k] = None]
    /\ UNCHANGED <<exists, tmp, tmpExists, encKey, cache, calls, tainted>>

\* Only a call that deleted a file removes the entry of the cache
BugRemoveCached(t, k) ==
    /\ call[t].pc = "remove"
    /\ Return(t)
    /\ UNCHANGED <<dir, exists, tmp, tmpExists, encKey, cache, calls, expected, tainted>>

RemoveCached(t, k) ==
    /\ call[t].pc = "remove"
    /\ cache' = [cache EXCEPT ![k] = None]
    /\ Return(t)
    /\ UNCHANGED <<dir, exists, tmp, tmpExists, encKey, calls, expected, tainted>>

EvictAll(t) ==
    /\ call[t].pc = "evict"
    /\ cache' = [k \in Keys |-> None]
    /\ Goto(t, "delete_keys")
    /\ UNCHANGED <<dir, exists, tmp, tmpExists, encKey, calls, expected, tainted>>

Without(kind) == [f \in Files |-> IF f[2] = kind THEN None ELSE dir[f]]

\* All files of keys, then all files of values; a call that no other overlapped
\* makes every key good again
DeleteKeyFiles(t) ==
    /\ call[t].pc = "delete_keys"
    /\ dir' = Without("key")
    /\ Goto(t, "delete_values")
    /\ UNCHANGED <<exists, tmp, tmpExists, encKey, cache, calls, expected, tainted>>

DeleteValueFiles(t) ==
    /\ call[t].pc = "delete_values"
    /\ dir' = Without("value")
    /\ expected' = [k \in Keys |-> None]
    /\ tainted' = IF call[t].alone THEN {} ELSE tainted
    /\ Return(t)
    /\ UNCHANGED <<exists, tmp, tmpExists, encKey, cache, calls>>

-----------------------------------------------------------------------------
(* changeEncryptionKey() *)

\* The directory of the copy may have files of an earlier call that failed:
\* those that the store no longer has will be in it again. If that directory
\* cannot be made the call returns false, and without the directory of the
\* store it ends with an exception.
MkDirs(t) ==
    /\ call[t].pc = "mkdirs"
    /\ tmpExists' \in {tmpExists, TRUE}
    /\ IF exists /\ tmpExists'
       THEN /\ call' = [call EXCEPT ![t].pc = "copy",
                                    ![t].todo = {f \in Files : dir[f] # None}]
            /\ tainted' = tainted \cup
                  {k \in Keys : \E f \in Files : f[1] = k /\ tmp[f] # None /\ dir[f] = None}
       ELSE Return(t) /\ UNCHANGED tainted
    /\ UNCHANGED <<dir, exists, tmp, encKey, cache, calls, expected>>

\* A copy that cannot be encrypted is an empty file, and the loop goes on
CopyFile(t) ==
    /\ call[t].pc = "copy"
    /\ tmpExists
    /\ \E f \in call[t].todo :
          /\ Read(f) # None
          /\ \E out \in Encrypted(Read(f), call[t].enc) : tmp' = [tmp EXCEPT ![f] = out]
          /\ call' = [call EXCEPT ![t].todo = @ \ {f}]
    /\ UNCHANGED <<dir, exists, tmpExists, encKey, cache, calls, expected, tainted>>

\* A file, that of the version among them, cannot be read, decrypted, opened or
\* written: false, and the copy is left half done; its last file may be as empty
\* as one that was not encrypted
CopyFails(t) ==
    /\ call[t].pc = "copy"
    /\ \/ tmp' = tmp
       \/ \E f \in call[t].todo :
             tmpExists /\ Read(f) # None /\ tmp' = [tmp EXCEPT ![f] = Unencrypted]
    /\ Return(t)
    /\ UNCHANGED <<dir, exists, tmpExists, encKey, cache, calls, expected, tainted>>

BugCopied(t) == Cardinality(call[t].todo) <= 1
Copied(t) == call[t].todo = {}

DeleteDir(t) ==
    /\ call[t].pc = "copy"
    /\ Copied(t)
    /\ dir' = NoFiles
    /\ exists' = FALSE
    /\ Goto(t, "rename")
    /\ UNCHANGED <<tmp, tmpExists, encKey, cache, calls, expected, tainted>>

\* Whether renameTo() succeeds is not looked at. It cannot without the directory
\* of the copy, or when a change at the same time has put files in the store's.
Rename(t) ==
    /\ call[t].pc = "rename"
    /\ \/ /\ tmpExists
          /\ ~exists \/ dir = NoFiles
          /\ dir' = tmp
          /\ tmp' = NoFiles
          /\ exists' = TRUE
          /\ tmpExists' = FALSE
          /\ UNCHANGED tainted
       \/ /\ tainted' = Keys
          /\ UNCHANGED <<dir, tmp, exists, tmpExists>>
    /\ Goto(t, "set_key")
    /\ UNCHANGED <<encKey, cache, calls, expected>>

SetKey(t) ==
    /\ call[t].pc = "set_key"
    /\ encKey' = call[t].enc
    /\ Return(t)
    /\ UNCHANGED <<dir, exists, tmp, tmpExists, cache, calls, expected, tainted>>

-----------------------------------------------------------------------------
\* The LRU cache makes room
Evict(k) ==
    /\ cache[k] # None
    /\ cache' = [cache EXCEPT ![k] = None]
    /\ UNCHANGED <<dir, exists, tmp, tmpExists, encKey, call, calls, expected, tainted>>

GetValue(t, k) == ReadCache(t, k) \/ ReadFile(t, k) \/ FillCache(t, k)
SaveValue(t, k) == WriteFiles(t, k) \/ PutCache(t, k) \/ SaveFails(t, k)
DeleteValue(t, k) == DeleteKeyFile(t, k) \/ DeleteValueFile(t, k) \/ RemoveCached(t, k)
DeleteAll(t) == EvictAll(t) \/ DeleteKeyFiles(t) \/ DeleteValueFiles(t)
ChangeEncryptionKey(t) ==
    MkDirs(t) \/ CopyFile(t) \/ CopyFails(t) \/ DeleteDir(t) \/ Rename(t) \/ SetKey(t)

Step(t) ==
    \/ \E k \in call[t].keys : GetValue(t, k) \/ SaveValue(t, k) \/ DeleteValue(t, k)
    \/ DeleteAll(t) \/ ChangeEncryptionKey(t)

Next ==
    \/ \E t \in Threads : Call(t) \/ Step(t)
    \/ \E k \in Keys : Evict(k)

Spec == Init /\ [][Next]_vars

-----------------------------------------------------------------------------
(* Properties *)

Contents == [val : Values \cup {"key"}, enc : EncKeys] \cup {None, Broken, Unencrypted}

\* The state of the model is well formed
TypeOK ==
    /\ dir \in [Files -> Contents]
    /\ tmp \in [Files -> Contents]
    /\ exists \in BOOLEAN /\ tmpExists \in BOOLEAN
    /\ encKey \in EncKeys
    /\ cache \in [Keys -> Values \cup {None}]
    /\ \A t \in Threads : /\ call[t].keys \subseteq Keys /\ call[t].todo \subseteq Files
                          /\ call[t].out \in Contents
    /\ calls \in 0 .. MaxCalls
    /\ expected \in [Keys -> Values \cup {None}]
    /\ tainted \subseteq Keys

\* No call that writes works on the key
Quiet(k) == \A t \in Threads : k \in call[t].keys => call[t].op = "get"

\* Between calls the files of a key are what the last call made them, the file
\* of the key (keySet) and the file of the value (getValue) together, under the
\* current encryption key: neither a delete nor a change of the encryption key,
\* whether it succeeds or fails half way, leaves one without the other. A save
\* or a change that succeeds leaves no value behind only where it could not be
\* encrypted (encryptBytesToFile): then the file is there and empty.
FilesAreLast ==
    \A k \in Keys \ tainted : Quiet(k) =>
        IF expected[k] = None THEN dir[<<k, "value">>] = None /\ dir[<<k, "key">>] = None
        ELSE /\ dir[<<k, "value">>] \in Encrypted(expected[k], encKey)
             /\ dir[<<k, "key">>] \in Encrypted("key", encKey)

\* Between calls the cache has nothing but what the last call left; one save
\* that is not overlapped is enough to end the staleness an earlier race or a
\* failed save has left (MemCachedKeyValueStore)
CacheIsLast ==
    \A k \in Keys \ tainted : Quiet(k) => cache[k] \in {None, expected[k]}

\* A change of the encryption key never has the only copy of a value in memory:
\* until it deletes the store's directory the value is there under the old key,
\* from then to the renaming in that of the copy and afterwards in the store's
\* under the new one, so that a process death loses none. What could not be
\* encrypted is lost, and the original deleted all the same.
ChangeKeepsValues ==
    \A t \in Threads, k \in Keys \ tainted :
        call[t].op = "change" /\ call[t].alone /\ expected[k] # None =>
            CASE call[t].pc \in {"mkdirs", "copy"} ->
                    dir[<<k, "value">>] \in Encrypted(expected[k], encKey)
              [] call[t].pc = "rename" ->
                    tmp[<<k, "value">>] \in Encrypted(expected[k], call[t].enc)
              [] call[t].pc = "set_key" ->
                    dir[<<k, "value">>] \in Encrypted(expected[k], call[t].enc)
=============================================================================
