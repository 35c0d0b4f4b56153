------------------------------ MODULE RecordDir ------------------------------
(***************************************************************************)
(* One directory of JSON records (capabilities, providers or runs), file by *)
(* file: pkg/jsonfile.WriteAtomic under internal/store's Save, and the      *)
(* Get and List that read the same directory from other goroutines or       *)
(* other processes.  No lock is taken anywhere: what protects a reader is   *)
(* only that a record's name always leads to a finished file.               *)
(*                                                                         *)
(* A file is known by the temp name os.CreateTemp drew for it, so dir maps  *)
(* record ids and temp names alike to files.  An open file outlives its     *)
(* name.  Temp names never collide (they are random and created O_EXCL).    *)
(***************************************************************************)
EXTENDS Naturals

CONSTANTS
  Ids,         \* record ids: the file name without its .json
  Values,      \* what a record holds beside its id
  Valid,       \* the values model.Validate* accepts
  Savers,      \* goroutines that save records
  Readers,     \* goroutines that get or list records
  Files,       \* files, and the temp names they are created under
  MaxSaves,    \* bound: how many Saves are begun
  MaxCrashes,  \* bound: how many times the daemon dies
  NoValue,     \* no such record
  NoFile,      \* no such file
  Torn,        \* an empty or half-written file: it does not decode
  Broken       \* the answer of a call that returned an error

ASSUME ValidAssumption == Valid \subseteq Values
ASSUME BoundAssumption == MaxSaves \in Nat /\ MaxCrashes \in Nat
ASSUME FreshAssumption ==
  /\ NoFile \notin Files
  /\ NoValue \notin Values
  /\ Broken \notin Values \cup {NoValue}
  /\ Torn \notin [id : Ids, value : Values]
  /\ Ids \cap Files = {}

VARIABLES
  dir,      \* [Ids \cup Files -> the file under that name, or NoFile]
  content,  \* [Files -> the record the file decodes to, or Torn]
  sv,       \* [Savers -> where that Save stands]
  rd,       \* [Readers -> where that Get or List stands]
  saves,    \* how many Saves were begun
  crashes   \* how many times the daemon died

vars == <<dir, content, sv, rd, saves, crashes>>
counters == <<saves, crashes>>

Names == Ids \cup Files
Records == [id : Ids, value : Values]

SaverIdle == [pc |-> "idle", id |-> NoValue, value |-> NoValue,
              temp |-> NoFile, ok |-> FALSE]
ReaderIdle == [pc |-> "idle", list |-> FALSE, name |-> NoValue, file |-> NoFile,
               todo |-> {}, seen |-> {}, listed |-> {}, answer |-> NoValue]

SaverStates ==
  [pc : {"idle", "prepare", "create", "encode", "close", "rename", "return"},
   id : Ids \cup {NoValue}, value : Values \cup {NoValue},
   temp : Files \cup {NoFile}, ok : BOOLEAN]
ReaderStates ==
  [pc : {"idle", "next", "open", "decode", "return", "failed"}, list : BOOLEAN,
   name : Names \cup {NoValue}, file : Files \cup {NoFile},
   todo : SUBSET Names, seen : SUBSET Names,
   listed : SUBSET (Names \X Records),
   answer : Values \cup {NoValue, Broken}]

TypeOK ==
  /\ dir \in [Names -> Files \cup {NoFile}]
  /\ content \in [Files -> Records \cup {Torn}]
  /\ sv \in [Savers -> SaverStates]
  /\ rd \in [Readers -> ReaderStates]
  /\ saves \in 0..MaxSaves
  /\ crashes \in 0..MaxCrashes

Present == {n \in Names : dir[n] # NoFile}

\* A directory some earlier daemon left: finished files under record names.
Init ==
  /\ dir \in [Names -> Files \cup {NoFile}]
  /\ \A f \in Files : dir[f] = NoFile
  /\ \A i, j \in Ids : dir[i] = dir[j] /\ dir[i] # NoFile => i = j
  /\ content \in [Files -> Records \cup {Torn}]
  /\ \A i \in Ids : dir[i] # NoFile =>
       \E v \in Valid : content[dir[i]] = [id |-> i, value |-> v]
  /\ \A f \in Files : (\A i \in Ids : dir[i] # f) => content[f] = Torn
  /\ sv = [s \in Savers |-> SaverIdle]
  /\ rd = [r \in Readers |-> ReaderIdle]
  /\ saves = 0 /\ crashes = 0

----------------------------------------------------------------------------
(* Save *)

BeginSave(s) ==
  /\ sv[s].pc = "idle" /\ saves < MaxSaves
  /\ saves' = saves + 1
  /\ \E i \in Ids, v \in Values :
       sv' = [sv EXCEPT ![s] = [SaverIdle EXCEPT
                !.pc = "prepare", !.id = i, !.value = v]]
  /\ UNCHANGED <<dir, content, rd, crashes>>

\* The save moves on to its next step, or leaves WriteAtomic with an error.
Advance(s, from, to) ==
  /\ sv[s].pc = from
  /\ sv' = [sv EXCEPT ![s].pc = to]
  /\ UNCHANGED <<rd, counters>>

GiveUp(s, from) == Advance(s, from, "return") /\ UNCHANGED <<dir, content>>

\* validate, recordPath and MkdirAll come before any file is touched.
Prepare(s) ==
  /\ sv[s].value \in Valid
  /\ Advance(s, "prepare", "create")
  /\ UNCHANGED <<dir, content>>

PrepareFails(s) == GiveUp(s, "prepare")

\* A file no name and no open descriptor leads to.
Unused(f) ==
  /\ \A n \in Names : dir[n] # f
  /\ \A s \in Savers : sv[s].temp # f
  /\ \A r \in Readers : rd[r].file # f

\* The old record removed to make room for the new one.
Mut_CreateRemovesOld(s) ==
  /\ sv[s].pc = "create"
  /\ \E f \in {g \in Files : Unused(g)} :
       /\ dir' = [dir EXCEPT ![f] = f, ![sv[s].id] = NoFile]
       /\ content' = [content EXCEPT ![f] = Torn]
       /\ sv' = [sv EXCEPT ![s].pc = "encode", ![s].temp = f]
  /\ UNCHANGED <<rd, counters>>

\* os.CreateTemp(dir, ".tmp-*.json"): the new name is in the listed directory.
CreateTemp(s) ==
  /\ sv[s].pc = "create"
  /\ \E f \in {g \in Files : Unused(g)} :
       /\ dir' = [dir EXCEPT ![f] = f]
       /\ content' = [content EXCEPT ![f] = Torn]
       /\ sv' = [sv EXCEPT ![s].pc = "encode", ![s].temp = f]
  /\ UNCHANGED <<rd, counters>>

CreateTempFails(s) == GiveUp(s, "create")

Encode(s) ==
  /\ Advance(s, "encode", "close")
  /\ content' = [content EXCEPT ![sv[s].temp] =
                   [id |-> sv[s].id, value |-> sv[s].value]]
  /\ UNCHANGED dir

\* The error of Encode is dropped.
Mut_EncodeErrorIgnored(s) ==
  Advance(s, "encode", "close") /\ UNCHANGED <<dir, content>>

EncodeFails(s) == GiveUp(s, "encode")

Close(s) == Advance(s, "close", "rename") /\ UNCHANGED <<dir, content>>

CloseFails(s) == GiveUp(s, "close")

Rename(s) ==
  /\ sv[s].pc = "rename"
  /\ dir' = [dir EXCEPT ![sv[s].id] = sv[s].temp, ![sv[s].temp] = NoFile]
  /\ sv' = [sv EXCEPT ![s].pc = "return", ![s].ok = TRUE]
  /\ UNCHANGED <<content, rd, counters>>

\* An error of something done after the rename is returned as the Save's.
Mut_RenameFails(s) ==
  /\ sv[s].pc = "rename"
  /\ dir' = [dir EXCEPT ![sv[s].id] = sv[s].temp, ![sv[s].temp] = NoFile]
  /\ sv' = [sv EXCEPT ![s].pc = "return"]
  /\ UNCHANGED <<content, rd, counters>>

RenameFails(s) == GiveUp(s, "rename")

\* Nothing removes the temp file on the error paths.
Mut_ReturnKeepsTemp(s) ==
  /\ sv[s].pc = "return"
  /\ sv' = [sv EXCEPT ![s] = SaverIdle]
  /\ UNCHANGED <<dir, content, rd, counters>>

\* The deferred os.Remove(tempName), once CreateTemp has succeeded.
ReturnSave(s) ==
  /\ sv[s].pc = "return"
  /\ dir' = IF sv[s].temp = NoFile THEN dir
            ELSE [dir EXCEPT ![sv[s].temp] = NoFile]
  /\ sv' = [sv EXCEPT ![s] = SaverIdle]
  /\ UNCHANGED <<content, rd, counters>>

SaveStep(s) ==
  \/ Prepare(s) \/ PrepareFails(s)
  \/ CreateTemp(s) \/ CreateTempFails(s)
  \/ Encode(s) \/ EncodeFails(s)
  \/ Close(s) \/ CloseFails(s)
  \/ Rename(s) \/ RenameFails(s)
  \/ ReturnSave(s)

----------------------------------------------------------------------------
(* Get and List *)

BeginGet(r) ==
  /\ rd[r].pc = "idle"
  /\ \E i \in Ids :
       rd' = [rd EXCEPT ![r] = [ReaderIdle EXCEPT !.pc = "open", !.name = i]]
  /\ UNCHANGED <<dir, content, sv, counters>>

\* os.ReadDir: every name with the extension .json, temp names included.
BeginList(r) ==
  /\ rd[r].pc = "idle"
  /\ rd' = [rd EXCEPT ![r] = [ReaderIdle EXCEPT !.pc = "next", !.list = TRUE,
                                !.todo = Present, !.seen = Present]]
  /\ UNCHANGED <<dir, content, sv, counters>>

\* os.ReadDir fails otherwise than on a missing directory, which is an empty one.
ListFails(r) ==
  /\ rd[r].pc = "idle"
  /\ rd' = [rd EXCEPT ![r] = [ReaderIdle EXCEPT !.pc = "failed", !.list = TRUE]]
  /\ UNCHANGED <<dir, content, sv, counters>>

\* ReadDir sorts by file name and the dot of ".tmp-" comes first.
NextNames(todo) == IF todo \cap Files # {} THEN todo \cap Files ELSE todo

NextEntry(r) ==
  /\ rd[r].pc = "next"
  /\ \E n \in NextNames(rd[r].todo) :
       rd' = [rd EXCEPT ![r].pc = "open", ![r].name = n, ![r].todo = @ \ {n}]
  /\ UNCHANGED <<dir, content, sv, counters>>

ListDone(r) ==
  /\ rd[r].pc = "next" /\ rd[r].todo = {}
  /\ rd' = [rd EXCEPT ![r].pc = "return"]
  /\ UNCHANGED <<dir, content, sv, counters>>

\* The name is gone: no such record for Get, an error for List.
OpenMissing(r) ==
  /\ rd[r].pc = "open" /\ dir[rd[r].name] = NoFile
  /\ rd' = [rd EXCEPT ![r].pc = "return",
                      ![r].answer = IF rd[r].list THEN Broken ELSE NoValue]
  /\ UNCHANGED <<dir, content, sv, counters>>

Open(r) ==
  /\ rd[r].pc = "open" /\ dir[rd[r].name] # NoFile
  /\ rd' = [rd EXCEPT ![r].pc = "decode", ![r].file = dir[rd[r].name]]
  /\ UNCHANGED <<dir, content, sv, counters>>

\* The file cannot be opened, or not be read, for a reason of the file system's.
ReadFails(r) ==
  /\ rd[r].pc \in {"open", "decode"}
  /\ rd' = [rd EXCEPT ![r].pc = "failed", ![r].file = NoFile]
  /\ UNCHANGED <<dir, content, sv, counters>>

Decodes(file) == content[file] # Torn /\ content[file].value \in Valid

Decode(r) ==
  /\ rd[r].pc = "decode" /\ Decodes(rd[r].file)
  /\ LET record == content[rd[r].file] IN
       rd' = [rd EXCEPT ![r].file = NoFile,
                ![r].pc = IF rd[r].list THEN "next" ELSE "return",
                ![r].answer = IF rd[r].list THEN NoValue ELSE record.value,
                ![r].listed = IF rd[r].list THEN @ \cup {<<rd[r].name, record>>}
                                            ELSE @]
  /\ UNCHANGED <<dir, content, sv, counters>>

DecodeFails(r) ==
  /\ rd[r].pc = "decode" /\ ~Decodes(rd[r].file)
  /\ rd' = [rd EXCEPT ![r].pc = "return", ![r].file = NoFile,
                      ![r].answer = Broken]
  /\ UNCHANGED <<dir, content, sv, counters>>

ReturnRead(r) ==
  /\ rd[r].pc \in {"return", "failed"}
  /\ rd' = [rd EXCEPT ![r] = ReaderIdle]
  /\ UNCHANGED <<dir, content, sv, counters>>

ReadStep(r) ==
  \/ NextEntry(r) \/ ListDone(r)
  \/ OpenMissing(r) \/ Open(r) \/ ReadFails(r) \/ Decode(r) \/ DecodeFails(r)
  \/ ReturnRead(r)

\* The daemon dies between any two of these steps; its files stay.
Crash ==
  /\ crashes < MaxCrashes
  /\ crashes' = crashes + 1
  /\ sv' = [s \in Savers |-> SaverIdle]
  /\ rd' = [r \in Readers |-> ReaderIdle]
  /\ UNCHANGED <<dir, content, saves>>

Next ==
  \/ \E s \in Savers : BeginSave(s) \/ SaveStep(s)
  \/ \E r \in Readers : BeginGet(r) \/ BeginList(r) \/ ListFails(r) \/ ReadStep(r)
  \/ Crash

Spec == Init /\ [][Next]_vars

----------------------------------------------------------------------------
(* Properties *)

\* Whatever fails and whenever the daemon dies, a record's own name leads to a
\* file that decodes, validates and holds that record's id: WriteAtomic only
\* ever renames a finished file into place.
PublishedWhole ==
  \A i \in Ids : dir[i] # NoFile =>
    \E v \in Valid : content[dir[i]] = [id |-> i, value |-> v]

\* A temp file that no Save is going to remove is a crash's: every error path
\* of WriteAtomic takes its own temp file away.
NoLeakWithoutCrash ==
  crashes = 0 =>
    \A f \in Files : dir[f] # NoFile => \E s \in Savers : sv[s].temp = f

\* A List whose ReadDir met no temp file answers with every record that was
\* there, each of them once, however many Saves replace those records (or fail)
\* while it reads, unless the file system fails it.
ListExactWithoutTemps ==
  \A r \in Readers :
    rd[r].list /\ rd[r].pc = "return" /\ rd[r].seen \cap Files = {} =>
      /\ rd[r].answer # Broken
      /\ {entry[1] : entry \in rd[r].listed} = rd[r].seen
      /\ \A entry \in rd[r].listed : entry[2].id = entry[1]
      /\ \A e1, e2 \in rd[r].listed : e1[1] = e2[1] => e1 = e2

\* docs/cal-release-v1/cal-module-store.md:172 "Writes are atomic within the
\* target directory", so a List meets no half-made write and does not fail.
\* The temp file's name ends in .json and lies in the listed directory: it does.
ListNeverMeetsAWrite ==
  \A r \in Readers :
    rd[r].list /\ rd[r].pc = "return" => rd[r].answer # Broken

\* Refinement of RecordStore.  The Save commits at Rename and the Get is
\* answered at Open: the file it opened can no longer change.
StoredRecords ==
  [i \in Ids |-> IF dir[i] = NoFile THEN NoValue ELSE content[dir[i]].value]

SaveSeen(save) ==
  CASE save.pc = "idle" -> [state |-> "quiet"]
    [] save.pc = "return" -> [state |-> IF save.ok THEN "saved" ELSE "failed"]
    [] OTHER -> [state |-> "pending", id |-> save.id, value |-> save.value]

Answer(id, value) == [state |-> "answered", id |-> id, answer |-> value]

GetSeen(read) ==
  CASE read.list \/ read.pc = "idle" -> [state |-> "quiet"]
    [] ~read.list /\ read.pc = "open" -> [state |-> "asking", id |-> read.name]
    [] ~read.list /\ read.pc = "decode" ->
         Answer(read.name, IF Decodes(read.file) THEN content[read.file].value
                                                ELSE Broken)
    [] ~read.list /\ read.pc = "failed" -> [state |-> "unread"]
    [] OTHER -> Answer(read.name, read.answer)

Store == INSTANCE RecordStore WITH
           records <- StoredRecords,
           saving <- [s \in Savers |-> SaveSeen(sv[s])],
           getting <- [r \in Readers |-> GetSeen(rd[r])]

\* Every Save is all or nothing, decided in one step, and succeeds exactly when
\* it took effect; every Get answers with the record of one instant of the call,
\* and with an error only if the file system fails it.
ImplementsRecordStore == Store!Spec
=============================================================================
