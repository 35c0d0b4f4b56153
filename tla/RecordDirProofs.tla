--------------------------- MODULE RecordDirProofs ---------------------------
(***************************************************************************)
(* For any number of records, savers, readers, files and crashes: RecordDir *)
(* keeps its types, publishes only whole records, leaks a temp file only in *)
(* a crash, lists exactly what was there when it meets no temp file, and    *)
(* implements the atomic RecordStore.                                       *)
(***************************************************************************)
EXTENDS RecordDir, TLAPS

\* The Save has a temp file that it may still write to or rename.
Writing(s) == sv[s].pc \in {"encode", "close", "rename"}

\* A temp name leads to its own file and to no file a record leads to; two
\* records never share a file.
DirInv ==
  /\ \A f \in Files : dir[f] \in {f, NoFile}
  /\ \A f \in Files : dir[f] = f => \A i \in Ids : dir[i] # f
  /\ \A i, j \in Ids : dir[i] = dir[j] /\ dir[i] # NoFile => i = j

\* What a Save knows at each of its steps.
SaverOK(s) ==
  /\ sv[s].pc \in {"idle", "prepare", "create"} => sv[s].temp = NoFile
  /\ Writing(s) => sv[s].temp \in Files /\ dir[sv[s].temp] = sv[s].temp
  /\ sv[s].ok => sv[s].pc = "return"
  /\ sv[s].pc # "idle" => sv[s].id \in Ids /\ sv[s].value \in Values
  /\ sv[s].pc = "create" \/ Writing(s) => sv[s].value \in Valid
  /\ sv[s].pc \in {"close", "rename"} =>
       content[sv[s].temp] = [id |-> sv[s].id, value |-> sv[s].value]

SaverInv == \A s \in Savers : SaverOK(s)

\* No two Saves have the same temp file.
TempsApart ==
  \A s, t \in Savers : sv[s].temp = sv[t].temp /\ sv[s].temp # NoFile => s = t

\* A Get, or a List whose ReadDir met no temp file.
Undisturbed(r) == rd[r].seen \cap Files = {}

\* The name a reader has taken from its names and not yet answered or listed.
Current(r) == IF rd[r].pc \in {"open", "decode"} THEN {rd[r].name} ELSE {}

\* A reader reads names it has seen; while nothing disturbs it, the file it has
\* opened is a finished one nobody writes to.
ReaderOK(r) ==
  /\ rd[r].todo \subseteq rd[r].seen
  /\ ~rd[r].list => rd[r].seen = {} /\ rd[r].pc # "next"
  /\ ~rd[r].list /\ rd[r].pc # "idle" => rd[r].name \in Ids
  /\ rd[r].list => Current(r) \subseteq rd[r].seen
  /\ rd[r].pc = "decode" => rd[r].file \in Files
  /\ rd[r].pc = "decode" /\ Undisturbed(r) =>
       /\ \E v \in Valid : content[rd[r].file] = [id |-> rd[r].name, value |-> v]
       /\ \A s \in Savers : Writing(s) => sv[s].temp # rd[r].file

\* Unless the file system failed it, an undisturbed List has listed once, under
\* its own name, every record but the ones still to come, and none of its records
\* has gone.
ListOK(r) ==
  rd[r].list /\ Undisturbed(r) /\ rd[r].pc # "failed" =>
    /\ \A n \in rd[r].seen : dir[n] # NoFile
    /\ rd[r].answer = NoValue
    /\ rd[r].pc = "return" => rd[r].todo = {}
    /\ Current(r) \cap rd[r].todo = {}
    /\ {e[1] : e \in rd[r].listed} = (rd[r].seen \ rd[r].todo) \ Current(r)
    /\ \A e \in rd[r].listed : e[2].id = e[1]
    /\ \A e1, e2 \in rd[r].listed : e1[1] = e2[1] => e1 = e2

ReadersInv == \A r \in Readers : ReaderOK(r) /\ ListOK(r)

IInv ==
  /\ TypeOK /\ PublishedWhole /\ DirInv /\ SaverInv /\ TempsApart
  /\ NoLeakWithoutCrash /\ ReadersInv

----------------------------------------------------------------------------
(* What a step of a reader does to its state *)

\* A reader's state with the fields that its steps change.
Read(q, p, n, f, t, l, a) ==
  [pc |-> p, list |-> q.list, name |-> n, file |-> f, todo |-> t, seen |-> q.seen,
   listed |-> l, answer |-> a]

\* Only this reader moves.
Reads(r) ==
  /\ UNCHANGED <<dir, content, sv, saves, crashes>>
  /\ rd' \in [Readers -> ReaderStates]
  /\ \A q \in Readers : q # r => rd'[q] = rd[q]

LEMMA ReaderFields ==
  ASSUME NEW q \in ReaderStates
  PROVE  /\ q.list \in BOOLEAN
         /\ q.name \in Names \cup {NoValue} /\ q.file \in Files \cup {NoFile}
         /\ q.todo \in SUBSET Names /\ q.seen \in SUBSET Names
         /\ q.listed \in SUBSET (Names \X Records)
         /\ q.answer \in Values \cup {NoValue, Broken}
  BY DEF ReaderStates

LEMMA IdleReader ==
  /\ ReaderIdle \in ReaderStates
  /\ ReaderIdle.pc = "idle" /\ ReaderIdle.list = FALSE /\ ReaderIdle.name = NoValue
  /\ ReaderIdle.file = NoFile /\ ReaderIdle.todo = {} /\ ReaderIdle.seen = {}
  /\ ReaderIdle.listed = {} /\ ReaderIdle.answer = NoValue
  BY DEF ReaderIdle, ReaderStates

LEMMA ReaderTypes ==
  ASSUME TypeOK
  PROVE  rd \in [Readers -> ReaderStates] /\ \A r \in Readers : rd[r] \in ReaderStates
  BY DEF TypeOK

LEMMA BeginGetEffect ==
  ASSUME TypeOK, NEW r \in Readers, BeginGet(r)
  PROVE  /\ Reads(r) /\ rd[r].pc = "idle"
         /\ rd'[r].pc = "open" /\ rd'[r].list = FALSE /\ rd'[r].name \in Ids
         /\ rd'[r].todo = {} /\ rd'[r].seen = {}
<1>1. PICK i \in Ids :
        rd' = [rd EXCEPT ![r] = [ReaderIdle EXCEPT !.pc = "open", !.name = i]]
  BY DEF BeginGet
<1> DEFINE open == [ReaderIdle EXCEPT !.pc = "open", !.name = i]
<1>2. i \in Names
  BY DEF Names
<1>3. open \in ReaderStates
  BY <1>2, IdleReader DEF ReaderStates
<1>4. /\ open.pc = "open" /\ open.list = ReaderIdle.list /\ open.name = i
      /\ open.todo = ReaderIdle.todo /\ open.seen = ReaderIdle.seen
  BY IdleReader DEF ReaderStates
<1>5. UNCHANGED <<dir, content, sv, saves, crashes>> /\ rd[r].pc = "idle"
  BY DEF BeginGet, counters
<1> HIDE DEF open
<1>6. rd'[r] = open /\ Reads(r)
  BY <1>1, <1>3, <1>5, ReaderTypes DEF Reads, open
<1> QED
  BY <1>4, <1>5, <1>6, IdleReader

LEMMA BeginListEffect ==
  ASSUME TypeOK, NEW r \in Readers, BeginList(r)
  PROVE  /\ Reads(r) /\ rd[r].pc = "idle"
         /\ rd'[r].pc = "next" /\ rd'[r].list /\ rd'[r].todo = Present
         /\ rd'[r].seen = Present /\ rd'[r].listed = {} /\ rd'[r].answer = NoValue
<1> DEFINE next == [ReaderIdle EXCEPT !.pc = "next", !.list = TRUE,
                                      !.todo = Present, !.seen = Present]
<1>1. rd' = [rd EXCEPT ![r] = next]
  BY DEF BeginList
<1>2. Present \in SUBSET Names
  BY DEF Present
<1>3. next \in ReaderStates
  BY <1>2, IdleReader DEF ReaderStates
<1>4. /\ next.pc = "next" /\ next.list /\ next.todo = Present /\ next.seen = Present
      /\ next.listed = ReaderIdle.listed /\ next.answer = ReaderIdle.answer
  BY IdleReader DEF ReaderStates
<1>5. UNCHANGED <<dir, content, sv, saves, crashes>> /\ rd[r].pc = "idle"
  BY DEF BeginList, counters
<1> HIDE DEF next
<1>6. rd'[r] = next /\ Reads(r)
  BY <1>1, <1>3, <1>5, ReaderTypes DEF Reads
<1> QED
  BY <1>4, <1>5, <1>6, IdleReader

LEMMA ListFailsEffect ==
  ASSUME TypeOK, NEW r \in Readers, ListFails(r)
  PROVE  /\ Reads(r) /\ rd[r].pc = "idle"
         /\ rd'[r].pc = "failed" /\ rd'[r].list /\ rd'[r].todo = {} /\ rd'[r].seen = {}
<1> DEFINE failed == [ReaderIdle EXCEPT !.pc = "failed", !.list = TRUE]
<1>1. rd' = [rd EXCEPT ![r] = failed]
  BY DEF ListFails
<1>2. failed \in ReaderStates
  BY IdleReader DEF ReaderStates
<1>3. /\ failed.pc = "failed" /\ failed.list
      /\ failed.todo = ReaderIdle.todo /\ failed.seen = ReaderIdle.seen
  BY IdleReader DEF ReaderStates
<1>4. UNCHANGED <<dir, content, sv, saves, crashes>> /\ rd[r].pc = "idle"
  BY DEF ListFails, counters
<1> HIDE DEF failed
<1>5. rd'[r] = failed /\ Reads(r)
  BY <1>1, <1>2, <1>4, ReaderTypes DEF Reads
<1> QED
  BY <1>3, <1>4, <1>5, IdleReader

LEMMA ReadFailsEffect ==
  ASSUME TypeOK, NEW r \in Readers, ReadFails(r)
  PROVE  /\ Reads(r) /\ rd[r].pc \in {"open", "decode"}
         /\ rd'[r] = Read(rd[r], "failed", rd[r].name, NoFile, rd[r].todo,
                          rd[r].listed, rd[r].answer)
<1>1. rd'[r] = Read(rd[r], "failed", rd[r].name, NoFile, rd[r].todo,
                    rd[r].listed, rd[r].answer)
  BY ReaderTypes DEF ReadFails, ReaderStates, Read
<1>2. rd'[r] \in ReaderStates
  BY <1>1, ReaderTypes DEF ReaderStates, Read
<1>3. UNCHANGED <<dir, content, sv, saves, crashes>> /\ rd[r].pc \in {"open", "decode"}
  BY DEF ReadFails, counters
<1>4. \A q \in Readers : q # r => rd'[q] = rd[q]
  BY ReaderTypes DEF ReadFails
<1>5. rd' \in [Readers -> ReaderStates]
  BY <1>2, ReaderTypes DEF ReadFails
<1> QED
  BY <1>1, <1>3, <1>4, <1>5 DEF Reads

LEMMA NextEntryEffect ==
  ASSUME TypeOK, NEW r \in Readers, NextEntry(r)
  PROVE  /\ Reads(r) /\ rd[r].pc = "next"
         /\ \E n \in rd[r].todo :
              rd'[r] = Read(rd[r], "open", n, rd[r].file, rd[r].todo \ {n},
                            rd[r].listed, rd[r].answer)
<1>1. PICK n \in NextNames(rd[r].todo) :
        rd' = [rd EXCEPT ![r].pc = "open", ![r].name = n, ![r].todo = @ \ {n}]
  BY DEF NextEntry
<1>2. n \in rd[r].todo
  BY DEF NextNames
<1>3. rd'[r] = Read(rd[r], "open", n, rd[r].file, rd[r].todo \ {n},
                    rd[r].listed, rd[r].answer)
  BY <1>1, ReaderTypes DEF ReaderStates, Read
<1>4. n \in Names /\ rd[r].todo \ {n} \in SUBSET Names
  BY <1>2, ReaderTypes, ReaderFields
<1>5. rd'[r] \in ReaderStates
  BY <1>3, <1>4, ReaderTypes DEF ReaderStates, Read
<1>6. UNCHANGED <<dir, content, sv, saves, crashes>> /\ rd[r].pc = "next"
  BY DEF NextEntry, counters
<1> QED
  BY <1>1, <1>2, <1>3, <1>5, <1>6, ReaderTypes DEF Reads

LEMMA ListDoneEffect ==
  ASSUME TypeOK, NEW r \in Readers, ListDone(r)
  PROVE  /\ Reads(r) /\ rd[r].pc = "next" /\ rd[r].todo = {}
         /\ rd'[r] = Read(rd[r], "return", rd[r].name, rd[r].file, rd[r].todo,
                       rd[r].listed, rd[r].answer)
<1>1. rd'[r] = Read(rd[r], "return", rd[r].name, rd[r].file, rd[r].todo,
                       rd[r].listed, rd[r].answer)
  BY ReaderTypes DEF ListDone, ReaderStates, Read
<1>2. rd'[r] \in ReaderStates
  BY <1>1, ReaderTypes DEF ReaderStates, Read
<1>3. UNCHANGED <<dir, content, sv, saves, crashes>> /\ rd[r].pc = "next" /\ rd[r].todo = {}
  BY DEF ListDone, counters
<1>4. \A q \in Readers : q # r => rd'[q] = rd[q]
  BY ReaderTypes DEF ListDone
<1>5. rd' \in [Readers -> ReaderStates]
  BY <1>2, ReaderTypes DEF ListDone
<1> QED
  BY <1>1, <1>3, <1>4, <1>5 DEF Reads

LEMMA OpenMissingEffect ==
  ASSUME TypeOK, NEW r \in Readers, OpenMissing(r)
  PROVE  /\ Reads(r) /\ rd[r].pc = "open" /\ dir[rd[r].name] = NoFile
         /\ rd'[r] = Read(rd[r], "return", rd[r].name, rd[r].file, rd[r].todo,
                       rd[r].listed, IF rd[r].list THEN Broken ELSE NoValue)
<1> DEFINE answer == IF rd[r].list THEN Broken ELSE NoValue
<1> HIDE DEF answer
<1>1. rd'[r] = Read(rd[r], "return", rd[r].name, rd[r].file, rd[r].todo,
                    rd[r].listed, answer)
  <2>1. rd' = [rd EXCEPT ![r].pc = "return", ![r].answer = answer]
    BY DEF OpenMissing, answer
  <2> QED
    BY <2>1, ReaderTypes DEF ReaderStates, Read
<1>0. answer \in Values \cup {NoValue, Broken}
  BY DEF answer
<1>2. rd'[r] \in ReaderStates
  BY <1>1, <1>0, ReaderTypes DEF ReaderStates, Read
<1>3. UNCHANGED <<dir, content, sv, saves, crashes>> /\ rd[r].pc = "open" /\ dir[rd[r].name] = NoFile
  BY DEF OpenMissing, counters
<1>4. \A q \in Readers : q # r => rd'[q] = rd[q]
  BY ReaderTypes DEF OpenMissing
<1>5. rd' \in [Readers -> ReaderStates]
  BY <1>2, ReaderTypes DEF OpenMissing
<1> QED
  BY <1>1, <1>3, <1>4, <1>5 DEF Reads, answer

LEMMA OpenEffect ==
  ASSUME TypeOK, NEW r \in Readers, Open(r), rd[r].name \in Names
  PROVE  /\ Reads(r) /\ rd[r].pc = "open" /\ dir[rd[r].name] # NoFile
         /\ rd'[r] = Read(rd[r], "decode", rd[r].name, dir[rd[r].name], rd[r].todo,
                       rd[r].listed, rd[r].answer)
<1>1. rd'[r] = Read(rd[r], "decode", rd[r].name, dir[rd[r].name], rd[r].todo,
                       rd[r].listed, rd[r].answer)
  BY ReaderTypes DEF Open, ReaderStates, Read
<1>2. dir[rd[r].name] \in Files \cup {NoFile}
  BY DEF TypeOK
<1>3. rd'[r] \in ReaderStates
  BY <1>1, <1>2, ReaderTypes DEF ReaderStates, Read
<1>4. UNCHANGED <<dir, content, sv, saves, crashes>> /\ rd[r].pc = "open" /\ dir[rd[r].name] # NoFile
  BY DEF Open, counters
<1>5. \A q \in Readers : q # r => rd'[q] = rd[q]
  BY ReaderTypes DEF Open
<1>6. rd' \in [Readers -> ReaderStates]
  BY <1>3, ReaderTypes DEF Open
<1> QED
  BY <1>1, <1>4, <1>5, <1>6 DEF Reads

LEMMA DecodeFailsEffect ==
  ASSUME TypeOK, NEW r \in Readers, DecodeFails(r)
  PROVE  /\ Reads(r) /\ rd[r].pc = "decode" /\ ~Decodes(rd[r].file)
         /\ rd'[r] = Read(rd[r], "return", rd[r].name, NoFile, rd[r].todo,
                       rd[r].listed, Broken)
<1>1. rd'[r] = Read(rd[r], "return", rd[r].name, NoFile, rd[r].todo,
                       rd[r].listed, Broken)
  BY ReaderTypes DEF DecodeFails, ReaderStates, Read
<1>2. rd'[r] \in ReaderStates
  BY <1>1, ReaderTypes DEF ReaderStates, Read
<1>3. UNCHANGED <<dir, content, sv, saves, crashes>> /\ rd[r].pc = "decode" /\ ~Decodes(rd[r].file)
  BY DEF DecodeFails, counters
<1>4. \A q \in Readers : q # r => rd'[q] = rd[q]
  BY ReaderTypes DEF DecodeFails
<1>5. rd' \in [Readers -> ReaderStates]
  BY <1>2, ReaderTypes DEF DecodeFails
<1> QED
  BY <1>1, <1>3, <1>4, <1>5 DEF Reads

\* A Get answers with what it decoded, a List goes on to its next name.
LEMMA DecodeEffect ==
  ASSUME TypeOK, NEW r \in Readers, Decode(r),
         rd[r].name \in Names, rd[r].file \in Files
  PROVE  /\ Reads(r) /\ rd[r].pc = "decode"
         /\ ~rd[r].list =>
              rd'[r] = Read(rd[r], "return", rd[r].name, NoFile, rd[r].todo,
                            rd[r].listed, content[rd[r].file].value)
         /\ rd[r].list =>
              rd'[r] = Read(rd[r], "next", rd[r].name, NoFile, rd[r].todo,
                            rd[r].listed \cup {<<rd[r].name, content[rd[r].file]>>}, NoValue)
<1>1. ~rd[r].list =>
        rd'[r] = Read(rd[r], "return", rd[r].name, NoFile, rd[r].todo,
                      rd[r].listed, content[rd[r].file].value)
  BY ReaderTypes DEF Decode, ReaderStates, Read
<1>2. rd[r].list =>
        rd'[r] = Read(rd[r], "next", rd[r].name, NoFile, rd[r].todo,
                      rd[r].listed \cup {<<rd[r].name, content[rd[r].file]>>}, NoValue)
  BY ReaderTypes DEF Decode, ReaderStates, Read
<1>3. content[rd[r].file] \in Records /\ content[rd[r].file].value \in Values
  <2>1. content[rd[r].file] \in Records
    BY DEF Decode, Decodes, TypeOK
  <2> QED
    BY <2>1 DEF Records
<1>4. rd'[r] \in ReaderStates
  <2>1. CASE ~rd[r].list
    BY <1>1, <1>3, <2>1, ReaderTypes DEF ReaderStates, Read
  <2>2. CASE rd[r].list
    <3> DEFINE listed == rd[r].listed \cup {<<rd[r].name, content[rd[r].file]>>}
    <3>1. listed \in SUBSET (Names \X Records)
      BY <1>3, ReaderTypes, ReaderFields
    <3>2. rd'[r] = Read(rd[r], "next", rd[r].name, NoFile, rd[r].todo, listed, NoValue)
      BY <1>2, <2>2
    <3> HIDE DEF listed
    <3> QED
      BY <3>1, <3>2, ReaderTypes DEF ReaderStates, Read
  <2> QED
    BY <2>1, <2>2
<1>5. UNCHANGED <<dir, content, sv, saves, crashes>> /\ rd[r].pc = "decode"
  BY DEF Decode, counters
<1>6. \A q \in Readers : q # r => rd'[q] = rd[q]
  BY ReaderTypes DEF Decode
<1>7. rd' \in [Readers -> ReaderStates]
  BY <1>4, ReaderTypes DEF Decode
<1> QED
  BY <1>1, <1>2, <1>5, <1>6, <1>7 DEF Reads

LEMMA ReturnReadEffect ==
  ASSUME TypeOK, NEW r \in Readers, ReturnRead(r)
  PROVE  Reads(r) /\ rd[r].pc \in {"return", "failed"} /\ rd'[r] = ReaderIdle
<1>1. rd'[r] = ReaderIdle
  BY ReaderTypes DEF ReturnRead
<1>2. UNCHANGED <<dir, content, sv, saves, crashes>> /\ rd[r].pc \in {"return", "failed"}
  BY DEF ReturnRead, counters
<1>3. \A q \in Readers : q # r => rd'[q] = rd[q]
  BY ReaderTypes DEF ReturnRead
<1>4. rd' \in [Readers -> ReaderStates]
  BY ReaderTypes, IdleReader DEF ReturnRead
<1> QED
  BY <1>1, <1>2, <1>3, <1>4 DEF Reads

----------------------------------------------------------------------------
(* A reader keeps the invariant *)

\* What the other parts of the invariant and the other readers are left with.
LEMMA OnlyReads ==
  ASSUME IInv, NEW r \in Readers, Reads(r), ReaderOK(r)', ListOK(r)'
  PROVE  IInv'
<1>1. UNCHANGED <<dir, content, sv, saves, crashes>>
  BY DEF Reads
<1>2. TypeOK'
  BY <1>1 DEF IInv, TypeOK, Reads
<1>3. PublishedWhole' /\ DirInv' /\ TempsApart' /\ NoLeakWithoutCrash'
  BY <1>1 DEF IInv, PublishedWhole, DirInv, TempsApart, NoLeakWithoutCrash
<1>4. SaverInv'
  BY <1>1 DEF IInv, SaverInv, SaverOK, Writing
<1>5. ReadersInv'
  <2> SUFFICES ASSUME NEW q \in Readers, q # r PROVE (ReaderOK(q) /\ ListOK(q))'
    BY DEF ReadersInv
  <2>1. rd'[q] = rd[q] /\ ReaderOK(q) /\ ListOK(q)
    BY DEF Reads, IInv, ReadersInv
  <2>2. ReaderOK(q)'
    BY <1>1, <2>1 DEF ReaderOK, Current, Undisturbed, Writing
  <2>3. ListOK(q)'
    BY <1>1, <2>1 DEF ListOK, Current, Undisturbed
  <2> QED
    BY <2>2, <2>3
<1> QED
  BY <1>2, <1>3, <1>4, <1>5 DEF IInv

LEMMA NameKnown ==
  ASSUME IInv, NEW r \in Readers, rd[r].pc \in {"open", "decode"}
  PROVE  /\ rd[r].name \in Names
         /\ rd[r].list => rd[r].name \in rd[r].seen
         /\ Undisturbed(r) => rd[r].name \in Ids
<1>1. ReaderOK(r) /\ rd[r].seen \in SUBSET Names /\ rd[r].list \in BOOLEAN
  BY ReaderTypes, ReaderFields DEF IInv, ReadersInv
<1>2. CASE rd[r].list
  <2>1. rd[r].name \in rd[r].seen
    BY <1>1, <1>2 DEF ReaderOK, Current
  <2> QED
    BY <1>1, <2>1 DEF Undisturbed, Names
<1>3. CASE ~rd[r].list
  BY <1>1, <1>3 DEF ReaderOK, Names
<1> QED
  BY <1>2, <1>3

LEMMA BeginGetInv ==
  ASSUME IInv, NEW r \in Readers, BeginGet(r)
  PROVE  IInv'
<1>1. /\ Reads(r)
      /\ rd'[r].pc = "open" /\ rd'[r].list = FALSE /\ rd'[r].name \in Ids
      /\ rd'[r].todo = {} /\ rd'[r].seen = {}
  BY BeginGetEffect DEF IInv
<1>2. ReaderOK(r)' /\ ListOK(r)'
  BY <1>1 DEF ReaderOK, ListOK
<1> QED
  BY <1>1, <1>2, OnlyReads

LEMMA BeginListInv ==
  ASSUME IInv, NEW r \in Readers, BeginList(r)
  PROVE  IInv'
<1>1. /\ Reads(r)
      /\ rd'[r].pc = "next" /\ rd'[r].list /\ rd'[r].todo = Present
      /\ rd'[r].seen = Present /\ rd'[r].listed = {} /\ rd'[r].answer = NoValue
  BY BeginListEffect DEF IInv
<1>2. Current(r)' = {}
  BY <1>1 DEF Current
<1>3. ReaderOK(r)'
  BY <1>1, <1>2 DEF ReaderOK
<1>4. \A n \in rd'[r].seen : dir'[n] # NoFile
  BY <1>1 DEF Reads, Present
<1>5. {e[1] : e \in rd'[r].listed} = (rd'[r].seen \ rd'[r].todo) \ Current(r)'
  BY <1>1, <1>2
<1>6. ListOK(r)'
  BY <1>1, <1>2, <1>4, <1>5 DEF ListOK
<1> QED
  BY <1>1, <1>3, <1>6, OnlyReads

LEMMA NextEntryInv ==
  ASSUME IInv, NEW r \in Readers, NextEntry(r)
  PROVE  IInv'
<1>1. Reads(r) /\ rd[r].pc = "next" /\ ReaderOK(r) /\ ListOK(r)
  BY NextEntryEffect DEF IInv, ReadersInv
<1>2. PICK n \in rd[r].todo :
        rd'[r] = Read(rd[r], "open", n, rd[r].file, rd[r].todo \ {n},
                      rd[r].listed, rd[r].answer)
  BY NextEntryEffect DEF IInv
<1>3. /\ rd'[r].pc = "open" /\ rd'[r].list = rd[r].list /\ rd'[r].name = n
      /\ rd'[r].todo = rd[r].todo \ {n} /\ rd'[r].seen = rd[r].seen
      /\ rd'[r].listed = rd[r].listed /\ rd'[r].answer = rd[r].answer
  BY <1>2 DEF Read
<1>4. Current(r) = {} /\ Current(r)' = {n} /\ rd[r].list /\ rd[r].todo \subseteq rd[r].seen
  BY <1>1, <1>3 DEF Current, ReaderOK
<1>5. ReaderOK(r)'
  BY <1>3, <1>4 DEF ReaderOK
<1>6. ASSUME Undisturbed(r)' PROVE ListOK(r)'
  <2>1. /\ \A m \in rd[r].seen : dir[m] # NoFile
        /\ rd[r].answer = NoValue
        /\ {e[1] : e \in rd[r].listed} = (rd[r].seen \ rd[r].todo) \ {}
        /\ \A e \in rd[r].listed : e[2].id = e[1]
        /\ \A e1, e2 \in rd[r].listed : e1[1] = e2[1] => e1 = e2
    BY <1>1, <1>3, <1>4, <1>6 DEF ListOK, Undisturbed
  <2>2. {e[1] : e \in rd[r].listed} = (rd[r].seen \ (rd[r].todo \ {n})) \ {n}
    <3> HIDE <2>1
    <3>1. rd[r].seen \ rd[r].todo = (rd[r].seen \ (rd[r].todo \ {n})) \ {n}
      OBVIOUS
    <3> QED
      BY <2>1, <3>1
  <2>3. dir' = dir
    BY <1>1 DEF Reads
  <2> QED
    BY <1>3, <1>4, <2>1, <2>2, <2>3 DEF ListOK
<1> QED
  BY <1>1, <1>5, <1>6, OnlyReads DEF ListOK


LEMMA ListDoneInv ==
  ASSUME IInv, NEW r \in Readers, ListDone(r)
  PROVE  IInv'
<1>1. /\ Reads(r) /\ rd[r].pc = "next" /\ rd[r].todo = {} /\ ReaderOK(r) /\ ListOK(r)
      /\ rd'[r] = Read(rd[r], "return", rd[r].name, rd[r].file, rd[r].todo,
                       rd[r].listed, rd[r].answer)
  BY ListDoneEffect DEF IInv, ReadersInv
<1>2. /\ rd'[r].pc = "return" /\ rd'[r].list = rd[r].list
      /\ rd'[r].todo = rd[r].todo /\ rd'[r].seen = rd[r].seen
      /\ rd'[r].listed = rd[r].listed /\ rd'[r].answer = rd[r].answer /\ dir' = dir
  BY <1>1 DEF Read, Reads
<1>3. Current(r) = {} /\ Current(r)' = {}
  BY <1>1, <1>2 DEF Current
<1>4. ReaderOK(r)'
  BY <1>1, <1>2, <1>3 DEF ReaderOK
<1>5. ListOK(r)'
  BY <1>1, <1>2, <1>3 DEF ListOK, Undisturbed
<1> QED
  BY <1>1, <1>4, <1>5, OnlyReads

\* A List that met no temp name finds every record it comes to.
LEMMA OpenMissingInv ==
  ASSUME IInv, NEW r \in Readers, OpenMissing(r)
  PROVE  IInv'
<1>1. /\ Reads(r) /\ rd[r].pc = "open" /\ dir[rd[r].name] = NoFile
      /\ ReaderOK(r) /\ ListOK(r)
      /\ rd'[r] = Read(rd[r], "return", rd[r].name, rd[r].file, rd[r].todo,
                       rd[r].listed, IF rd[r].list THEN Broken ELSE NoValue)
  BY OpenMissingEffect DEF IInv, ReadersInv
<1>2. /\ rd'[r].pc = "return" /\ rd'[r].list = rd[r].list /\ rd'[r].name = rd[r].name
      /\ rd'[r].todo = rd[r].todo /\ rd'[r].seen = rd[r].seen
  BY <1>1 DEF Read
<1>3. ~(rd[r].list /\ Undisturbed(r))
  BY <1>1, NameKnown DEF ListOK
<1>4. ReaderOK(r)'
  BY <1>1, <1>2 DEF ReaderOK, Current
<1>5. ListOK(r)'
  BY <1>2, <1>3 DEF ListOK, Undisturbed
<1> QED
  BY <1>1, <1>4, <1>5, OnlyReads

LEMMA OpenInv ==
  ASSUME IInv, NEW r \in Readers, Open(r)
  PROVE  IInv'
<1>1. rd[r].pc = "open" /\ rd[r].name \in Names
  BY NameKnown DEF Open
<1>2. /\ Reads(r) /\ dir[rd[r].name] # NoFile /\ ReaderOK(r) /\ ListOK(r)
      /\ rd'[r] = Read(rd[r], "decode", rd[r].name, dir[rd[r].name], rd[r].todo,
                       rd[r].listed, rd[r].answer)
  BY <1>1, OpenEffect DEF IInv, ReadersInv
<1>3. /\ rd'[r].pc = "decode" /\ rd'[r].list = rd[r].list /\ rd'[r].name = rd[r].name
      /\ rd'[r].file = dir[rd[r].name]
      /\ rd'[r].todo = rd[r].todo /\ rd'[r].seen = rd[r].seen
      /\ rd'[r].listed = rd[r].listed /\ rd'[r].answer = rd[r].answer
      /\ dir' = dir /\ content' = content /\ sv' = sv
  BY <1>2 DEF Read, Reads
<1>4. Current(r)' = Current(r) /\ (Undisturbed(r)' <=> Undisturbed(r))
  BY <1>1, <1>3 DEF Current, Undisturbed
<1>5. rd'[r].file \in Files
  BY <1>1, <1>2, <1>3 DEF IInv, TypeOK
<1>6. ASSUME Undisturbed(r)
      PROVE  /\ \E v \in Valid : content[rd'[r].file] = [id |-> rd[r].name, value |-> v]
             /\ \A s \in Savers : Writing(s) => sv[s].temp # rd'[r].file
  <2>1. rd[r].name \in Ids
    BY <1>1, <1>6, NameKnown
  <2>2. \E v \in Valid : content[rd'[r].file] = [id |-> rd[r].name, value |-> v]
    BY <1>2, <1>3, <2>1 DEF IInv, PublishedWhole
  <2>3. ASSUME NEW s \in Savers, Writing(s) PROVE sv[s].temp # rd'[r].file
    <3>1. sv[s].temp \in Files /\ dir[sv[s].temp] = sv[s].temp
      BY <2>3 DEF IInv, SaverInv, SaverOK
    <3>2. dir[rd[r].name] # sv[s].temp
      BY <2>1, <3>1 DEF IInv, DirInv
    <3> QED
      BY <1>3, <3>2
  <2> QED
    BY <2>2, <2>3
<1>7. ReaderOK(r)'
  <2>1. /\ rd'[r].todo \subseteq rd'[r].seen
        /\ ~rd'[r].list => rd'[r].seen = {} /\ rd'[r].pc # "next"
        /\ ~rd'[r].list /\ rd'[r].pc # "idle" => rd'[r].name \in Ids
        /\ rd'[r].list => Current(r)' \subseteq rd'[r].seen
    BY <1>1, <1>2, <1>3, <1>4 DEF ReaderOK
  <2>2. \A s \in Savers : Writing(s)' <=> Writing(s)
    BY <1>3 DEF Writing
  <2> QED
    BY <1>3, <1>4, <1>5, <1>6, <2>1, <2>2 DEF ReaderOK
<1>8. ListOK(r)'
  BY <1>1, <1>2, <1>3, <1>4 DEF ListOK
<1> QED
  BY <1>2, <1>7, <1>8, OnlyReads

\* What an undisturbed reader has opened decodes.
LEMMA FinishedDecodes ==
  ASSUME IInv, NEW r \in Readers, rd[r].pc = "decode", Undisturbed(r)
  PROVE  /\ Decodes(rd[r].file) /\ content[rd[r].file].id = rd[r].name
         /\ rd[r].file \in Files
<1>1. rd[r].file \in Files /\ rd[r].name \in Ids
  BY NameKnown DEF IInv, ReadersInv, ReaderOK
<1>2. PICK v \in Valid : content[rd[r].file] = [id |-> rd[r].name, value |-> v]
  BY DEF IInv, ReadersInv, ReaderOK
<1> QED
  BY <1>1, <1>2, FreshAssumption, ValidAssumption DEF Decodes

LEMMA DecodeFailsInv ==
  ASSUME IInv, NEW r \in Readers, DecodeFails(r)
  PROVE  IInv'
<1>1. /\ Reads(r) /\ rd[r].pc = "decode" /\ ~Decodes(rd[r].file)
      /\ ReaderOK(r) /\ ListOK(r)
      /\ rd'[r] = Read(rd[r], "return", rd[r].name, NoFile, rd[r].todo,
                       rd[r].listed, Broken)
  BY DecodeFailsEffect DEF IInv, ReadersInv
<1>2. /\ rd'[r].pc = "return" /\ rd'[r].list = rd[r].list /\ rd'[r].name = rd[r].name
      /\ rd'[r].todo = rd[r].todo /\ rd'[r].seen = rd[r].seen
  BY <1>1 DEF Read
<1>3. ~Undisturbed(r)
  BY <1>1, FinishedDecodes
<1>4. ReaderOK(r)'
  BY <1>1, <1>2 DEF ReaderOK, Current
<1>5. ListOK(r)'
  BY <1>2, <1>3 DEF ListOK, Undisturbed
<1> QED
  BY <1>1, <1>4, <1>5, OnlyReads

LEMMA ReturnReadInv ==
  ASSUME IInv, NEW r \in Readers, ReturnRead(r)
  PROVE  IInv'
<1>1. Reads(r) /\ rd'[r] = ReaderIdle
  BY ReturnReadEffect DEF IInv
<1>2. rd'[r].pc = "idle" /\ rd'[r].list = FALSE /\ rd'[r].todo = {} /\ rd'[r].seen = {}
  BY <1>1, IdleReader
<1>3. ReaderOK(r)' /\ ListOK(r)'
  BY <1>2 DEF ReaderOK, ListOK
<1> QED
  BY <1>1, <1>3, OnlyReads

LEMMA DecodeInv ==
  ASSUME IInv, NEW r \in Readers, Decode(r)
  PROVE  IInv'
<1>1. /\ rd[r].pc = "decode" /\ rd[r].name \in Names
      /\ ReaderOK(r) /\ ListOK(r) /\ TypeOK
  BY NameKnown DEF Decode, IInv, ReadersInv
<1>2. rd[r].file \in Files
  BY <1>1 DEF ReaderOK
<1>3. Reads(r)
  BY <1>1, <1>2, DecodeEffect
<1>4. CASE ~rd[r].list
  <2>1. rd'[r] = Read(rd[r], "return", rd[r].name, NoFile, rd[r].todo,
                      rd[r].listed, content[rd[r].file].value)
    BY <1>1, <1>2, <1>4, DecodeEffect
  <2>2. /\ rd'[r].pc = "return" /\ rd'[r].list = rd[r].list /\ rd'[r].name = rd[r].name
        /\ rd'[r].todo = rd[r].todo /\ rd'[r].seen = rd[r].seen
    BY <2>1 DEF Read
  <2>3. ReaderOK(r)' /\ ListOK(r)'
    BY <1>1, <1>4, <2>2 DEF ReaderOK, ListOK
  <2> QED
    BY <1>3, <2>3, OnlyReads
<1>5. CASE rd[r].list
  <2> DEFINE name == rd[r].name
             record == content[rd[r].file]
             listed == rd[r].listed
  <2>1. rd'[r] = Read(rd[r], "next", name, NoFile, rd[r].todo,
                      listed \cup {<<name, record>>}, NoValue)
    BY <1>1, <1>2, <1>5, DecodeEffect
  <2>2. /\ rd'[r].pc = "next" /\ rd'[r].list = rd[r].list
        /\ rd'[r].todo = rd[r].todo /\ rd'[r].seen = rd[r].seen
        /\ rd'[r].listed = listed \cup {<<name, record>>} /\ rd'[r].answer = NoValue
    BY <2>1 DEF Read
  <2>3. Current(r) = {name} /\ Current(r)' = {}
    BY <1>1, <2>2 DEF Current
  <2>4. ReaderOK(r)'
    BY <1>1, <1>5, <2>2, <2>3 DEF ReaderOK
  <2>5. ASSUME Undisturbed(r) PROVE ListOK(r)'
    <3>1. /\ \A m \in rd[r].seen : dir[m] # NoFile
          /\ name \notin rd[r].todo
          /\ {e[1] : e \in listed} = (rd[r].seen \ rd[r].todo) \ {name}
          /\ \A e \in listed : e[2].id = e[1]
          /\ \A e1, e2 \in listed : e1[1] = e2[1] => e1 = e2
      BY <1>1, <1>5, <2>3, <2>5 DEF ListOK
    <3>2. record.id = name /\ name \in rd[r].seen /\ dir' = dir
      BY <1>1, <1>3, <1>5, <2>5, FinishedDecodes, NameKnown DEF Reads
    <3>3. {e[1] : e \in listed \cup {<<name, record>>}} = {e[1] : e \in listed} \cup {name}
      <4> DEFINE entry == <<name, record>>
      <4>1. entry[1] = name
        OBVIOUS
      <4> HIDE DEF entry, listed
      <4>2. {e[1] : e \in listed \cup {entry}} = {e[1] : e \in listed} \cup {entry[1]}
        OBVIOUS
      <4> QED
        BY <4>1, <4>2 DEF entry
    <3>4. {e[1] : e \in rd'[r].listed} = (rd[r].seen \ rd[r].todo) \ {}
      BY <2>2, <3>1, <3>2, <3>3
    <3>5. name \notin {e[1] : e \in listed}
      BY <3>1
    <3> HIDE DEF name, record, listed
    <3>6. \A e \in rd'[r].listed : e[2].id = e[1]
      BY <2>2, <3>1, <3>2
    <3>7. \A e1, e2 \in rd'[r].listed : e1[1] = e2[1] => e1 = e2
      BY <2>2, <3>1, <3>5
    <3>8. rd'[r].answer = NoValue /\ rd'[r].pc # "return"
          /\ Current(r)' \cap rd'[r].todo = {}
          /\ \A n \in rd'[r].seen : dir'[n] # NoFile
      BY <2>2, <2>3, <3>1, <3>2
    <3> QED
      BY <2>2, <2>3, <3>4, <3>6, <3>7, <3>8 DEF ListOK
  <2>6. ListOK(r)'
    BY <2>2, <2>5 DEF ListOK, Undisturbed
  <2> QED
    BY <1>3, <2>4, <2>6, OnlyReads
<1> QED
  BY <1>4, <1>5

LEMMA ListFailsInv ==
  ASSUME IInv, NEW r \in Readers, ListFails(r)
  PROVE  IInv'
<1>1. /\ Reads(r)
      /\ rd'[r].pc = "failed" /\ rd'[r].list /\ rd'[r].todo = {} /\ rd'[r].seen = {}
  BY ListFailsEffect DEF IInv
<1>2. ReaderOK(r)' /\ ListOK(r)'
  BY <1>1 DEF ReaderOK, ListOK, Current
<1> QED
  BY <1>1, <1>2, OnlyReads

LEMMA ReadFailsInv ==
  ASSUME IInv, NEW r \in Readers, ReadFails(r)
  PROVE  IInv'
<1>1. /\ Reads(r) /\ rd[r].pc \in {"open", "decode"} /\ ReaderOK(r)
      /\ rd'[r] = Read(rd[r], "failed", rd[r].name, NoFile, rd[r].todo,
                       rd[r].listed, rd[r].answer)
  BY ReadFailsEffect DEF IInv, ReadersInv
<1>2. /\ rd'[r].pc = "failed" /\ rd'[r].list = rd[r].list /\ rd'[r].name = rd[r].name
      /\ rd'[r].todo = rd[r].todo /\ rd'[r].seen = rd[r].seen
  BY <1>1 DEF Read
<1>3. ReaderOK(r)' /\ ListOK(r)'
  BY <1>1, <1>2 DEF ReaderOK, ListOK, Current
<1> QED
  BY <1>1, <1>3, OnlyReads

LEMMA ReaderStepsInv ==
  ASSUME IInv, NEW r \in Readers,
         BeginGet(r) \/ BeginList(r) \/ ListFails(r) \/ ReadStep(r)
  PROVE  IInv'
  BY BeginGetInv, BeginListInv, ListFailsInv, NextEntryInv, ListDoneInv, OpenMissingInv, OpenInv,
     ReadFailsInv, DecodeInv, DecodeFailsInv, ReturnReadInv DEF ReadStep

----------------------------------------------------------------------------
(* A Save keeps the invariant *)

\* Only this Save moves.
Saves(s) ==
  /\ UNCHANGED <<rd, crashes>> /\ saves' \in 0..MaxSaves
  /\ sv' \in [Savers -> SaverStates]
  /\ \A t \in Savers : t # s => sv'[t] = sv[t]

\* What the Save writes, and whether it succeeded, stays.
SameSave(s) ==
  sv'[s].id = sv[s].id /\ sv'[s].value = sv[s].value /\ sv'[s].ok = sv[s].ok

LEMMA IdleSaver ==
  /\ SaverIdle \in SaverStates
  /\ SaverIdle.pc = "idle" /\ SaverIdle.temp = NoFile /\ SaverIdle.ok = FALSE
  BY DEF SaverIdle, SaverStates

LEMMA SaverTypes ==
  ASSUME TypeOK
  PROVE  /\ sv \in [Savers -> SaverStates] /\ \A s \in Savers : sv[s] \in SaverStates
         /\ saves \in 0..MaxSaves /\ crashes \in 0..MaxCrashes
  BY DEF TypeOK

LEMMA SaverFields ==
  ASSUME NEW q \in SaverStates
  PROVE  /\ q.id \in Ids \cup {NoValue} /\ q.value \in Values \cup {NoValue}
         /\ q.temp \in Files \cup {NoFile} /\ q.ok \in BOOLEAN
  BY DEF SaverStates

LEMMA BeginSaveEffect ==
  ASSUME TypeOK, NEW s \in Savers, BeginSave(s)
  PROVE  /\ Saves(s) /\ UNCHANGED <<dir, content>> /\ sv[s].pc = "idle"
         /\ sv'[s].pc = "prepare" /\ sv'[s].id \in Ids /\ sv'[s].value \in Values
         /\ sv'[s].temp = NoFile /\ sv'[s].ok = FALSE
<1>1. PICK i \in Ids, v \in Values :
        sv' = [sv EXCEPT ![s] = [SaverIdle EXCEPT
                 !.pc = "prepare", !.id = i, !.value = v]]
  BY DEF BeginSave
<1> DEFINE begun == [SaverIdle EXCEPT !.pc = "prepare", !.id = i, !.value = v]
<1>2. begun \in SaverStates
  BY IdleSaver DEF SaverStates
<1>3. /\ begun.pc = "prepare" /\ begun.id = i /\ begun.value = v
      /\ begun.temp = SaverIdle.temp /\ begun.ok = SaverIdle.ok
  BY IdleSaver DEF SaverStates
<1> HIDE DEF begun
<1>4. saves' \in 0..MaxSaves
  BY SaverTypes, BoundAssumption DEF BeginSave
<1>5. UNCHANGED <<dir, content, rd, crashes>> /\ sv[s].pc = "idle"
  BY DEF BeginSave
<1>6. sv'[s] = begun /\ Saves(s)
  BY <1>1, <1>2, <1>4, <1>5, SaverTypes DEF Saves, begun
<1> QED
  BY <1>3, <1>5, <1>6, IdleSaver

LEMMA AdvanceEffect ==
  ASSUME TypeOK, NEW s \in Savers, NEW from,
         NEW to \in {"create", "encode", "close", "rename", "return"},
         Advance(s, from, to)
  PROVE  /\ Saves(s) /\ SameSave(s) /\ sv'[s].temp = sv[s].temp
         /\ sv[s].pc = from /\ sv'[s].pc = to
<1>1. sv' = [sv EXCEPT ![s].pc = to] /\ UNCHANGED <<rd, saves, crashes>> /\ sv[s].pc = from
  BY DEF Advance, counters
<1>2. /\ sv'[s].pc = to /\ sv'[s].id = sv[s].id /\ sv'[s].value = sv[s].value
      /\ sv'[s].temp = sv[s].temp /\ sv'[s].ok = sv[s].ok
  BY <1>1, SaverTypes DEF SaverStates
<1>3. sv'[s] \in SaverStates
  BY <1>1, SaverTypes DEF SaverStates
<1>4. Saves(s)
  BY <1>1, <1>3, SaverTypes DEF Saves
<1> QED
  BY <1>1, <1>2, <1>4 DEF SameSave

\* A reader is not disturbed by Saves that take no record away, write only to
\* their own temp files, and draw those among the files nobody has open.
LEMMA ReadersUndisturbed ==
  ASSUME IInv, rd' = rd,
         \A i \in Ids : dir[i] # NoFile => dir'[i] # NoFile,
         \A r \in Readers : rd[r].pc = "decode" =>
           \/ content'[rd[r].file] = content[rd[r].file]
           \/ \E s \in Savers : Writing(s) /\ sv[s].temp = rd[r].file,
         \A s \in Savers : Writing(s)' =>
           \/ Writing(s) /\ sv'[s].temp = sv[s].temp
           \/ \A r \in Readers : rd[r].file # sv'[s].temp
  PROVE  ReadersInv'
<1> SUFFICES ASSUME NEW r \in Readers PROVE ReaderOK(r)' /\ ListOK(r)'
  BY DEF ReadersInv
<1>1. ReaderOK(r) /\ ListOK(r) /\ rd[r].seen \in SUBSET Names
  BY ReaderTypes, ReaderFields DEF IInv, ReadersInv
<1>2. Current(r)' = Current(r) /\ (Undisturbed(r)' <=> Undisturbed(r))
  BY DEF Current, Undisturbed
<1>3. ASSUME rd[r].pc = "decode", Undisturbed(r)
      PROVE  /\ \E v \in Valid : content'[rd[r].file] = [id |-> rd[r].name, value |-> v]
             /\ \A s \in Savers : Writing(s)' => sv'[s].temp # rd[r].file
  <2>1. /\ \E v \in Valid : content[rd[r].file] = [id |-> rd[r].name, value |-> v]
        /\ \A s \in Savers : Writing(s) => sv[s].temp # rd[r].file
    BY <1>1, <1>3 DEF ReaderOK
  <2>2. content'[rd[r].file] = content[rd[r].file]
    BY <1>3, <2>1
  <2>3. \A s \in Savers : Writing(s)' => sv'[s].temp # rd[r].file
    BY <2>1
  <2> QED
    BY <2>1, <2>2, <2>3
<1>4. ReaderOK(r)'
  BY <1>1, <1>2, <1>3 DEF ReaderOK
<1>5. Undisturbed(r) /\ (\A n \in rd[r].seen : dir[n] # NoFile) =>
        \A n \in rd[r].seen : dir'[n] # NoFile
  BY <1>1 DEF Undisturbed, Names
<1>6. ListOK(r)'
  BY <1>1, <1>2, <1>5 DEF ListOK
<1> QED
  BY <1>4, <1>6

\* A step that touches no file and leaves the Save its temp file.
LEMMA QuietSaveInv ==
  ASSUME IInv, NEW s \in Savers, Saves(s), UNCHANGED <<dir, content>>,
         SaverOK(s)', sv'[s].temp = sv[s].temp, Writing(s)' => Writing(s)
  PROVE  IInv'
<1>1. rd' = rd /\ \A t \in Savers : t # s => sv'[t] = sv[t]
  BY DEF Saves
<1>2. TypeOK' /\ PublishedWhole' /\ DirInv'
  BY DEF IInv, TypeOK, PublishedWhole, DirInv, Saves
<1>3. \A t \in Savers : sv'[t].temp = sv[t].temp
  BY <1>1
<1>4. SaverInv'
  <2> SUFFICES ASSUME NEW t \in Savers, t # s PROVE SaverOK(t)'
    BY DEF SaverInv
  <2>1. SaverOK(t) /\ sv'[t] = sv[t]
    BY <1>1 DEF IInv, SaverInv
  <2> QED
    BY <2>1 DEF SaverOK, Writing
<1>5. TempsApart'
  BY <1>3 DEF IInv, TempsApart
<1>6. NoLeakWithoutCrash'
  BY <1>3 DEF IInv, NoLeakWithoutCrash, Saves
<1>7. \A t \in Savers : Writing(t)' => Writing(t)
  BY <1>1 DEF Writing
<1>8. ReadersInv'
  BY <1>1, <1>3, <1>7, ReadersUndisturbed
<1> QED
  BY <1>2, <1>4, <1>5, <1>6, <1>8 DEF IInv

LEMMA BeginSaveInv ==
  ASSUME IInv, NEW s \in Savers, BeginSave(s)
  PROVE  IInv'
<1>1. /\ Saves(s) /\ UNCHANGED <<dir, content>> /\ sv[s].pc = "idle"
      /\ sv'[s].pc = "prepare" /\ sv'[s].id \in Ids /\ sv'[s].value \in Values
      /\ sv'[s].temp = NoFile /\ sv'[s].ok = FALSE
  BY BeginSaveEffect DEF IInv
<1>2. sv'[s].temp = sv[s].temp
  BY <1>1 DEF IInv, SaverInv, SaverOK
<1>3. ~Writing(s)' /\ SaverOK(s)'
  BY <1>1 DEF SaverOK, Writing
<1> QED
  BY <1>1, <1>2, <1>3, QuietSaveInv

\* Prepare, Close and every error: the Save moves on and no file changes.
LEMMA QuietAdvanceInv ==
  ASSUME IInv, NEW s \in Savers, UNCHANGED <<dir, content>>,
         NEW from, NEW to, Advance(s, from, to),
         \/ from = "prepare" /\ to = "create" /\ sv[s].value \in Valid
         \/ from = "close" /\ to = "rename"
         \/ from \in {"prepare", "create", "encode", "close", "rename"} /\ to = "return"
  PROVE  IInv'
<1>1. /\ Saves(s) /\ SameSave(s) /\ sv'[s].temp = sv[s].temp
      /\ sv[s].pc = from /\ sv'[s].pc = to
  BY AdvanceEffect DEF IInv
<1>2. SaverOK(s)
  BY DEF IInv, SaverInv
<1>3. Writing(s)' => Writing(s)
  BY <1>1 DEF Writing
<1>4. SaverOK(s)'
  BY <1>1, <1>2, <1>3 DEF SaverOK, Writing, SameSave
<1> QED
  BY <1>1, <1>3, <1>4, QuietSaveInv

LEMMA CreateTempEffect ==
  ASSUME TypeOK, NEW s \in Savers, CreateTemp(s)
  PROVE  /\ Saves(s) /\ SameSave(s) /\ sv[s].pc = "create" /\ sv'[s].pc = "encode"
         /\ sv'[s].temp \in Files /\ Unused(sv'[s].temp)
         /\ dir' = [dir EXCEPT ![sv'[s].temp] = sv'[s].temp]
         /\ content' = [content EXCEPT ![sv'[s].temp] = Torn]
<1>1. PICK f \in Files :
        /\ Unused(f)
        /\ dir' = [dir EXCEPT ![f] = f]
        /\ content' = [content EXCEPT ![f] = Torn]
        /\ sv' = [sv EXCEPT ![s].pc = "encode", ![s].temp = f]
  BY DEF CreateTemp
<1>2. sv[s].pc = "create" /\ UNCHANGED <<rd, saves, crashes>>
  BY DEF CreateTemp, counters
<1>3. /\ sv'[s].pc = "encode" /\ sv'[s].id = sv[s].id /\ sv'[s].value = sv[s].value
      /\ sv'[s].temp = f /\ sv'[s].ok = sv[s].ok
  BY <1>1, SaverTypes DEF SaverStates
<1>4. sv'[s] \in SaverStates
  BY <1>1, SaverTypes DEF SaverStates
<1>5. \A t \in Savers : t # s => sv'[t] = sv[t]
  BY <1>1, SaverTypes
<1>6. sv' \in [Savers -> SaverStates]
  BY <1>1, <1>4, SaverTypes
<1>7. Saves(s)
  BY <1>2, <1>5, <1>6, SaverTypes DEF Saves
<1> QED
  BY <1>1, <1>2, <1>3, <1>7 DEF SameSave

LEMMA CreateTempInv ==
  ASSUME IInv, NEW s \in Savers, CreateTemp(s)
  PROVE  IInv'
<1> DEFINE f == sv'[s].temp
<1>1. /\ Saves(s) /\ SameSave(s) /\ sv[s].pc = "create" /\ sv'[s].pc = "encode"
      /\ f \in Files /\ Unused(f)
      /\ dir' = [dir EXCEPT ![f] = f]
      /\ content' = [content EXCEPT ![f] = Torn]
  BY CreateTempEffect DEF IInv
<1> HIDE DEF f
<1>2. rd' = rd /\ \A t \in Savers : t # s => sv'[t] = sv[t]
  BY <1>1 DEF Saves
<1>3. /\ \A n \in Names : dir[n] # f
      /\ \A t \in Savers : sv[t].temp # f
      /\ \A r \in Readers : rd[r].file # f
  BY <1>1 DEF Unused
<1>4. /\ dir \in [Names -> Files \cup {NoFile}]
      /\ content \in [Files -> Records \cup {Torn}]
  BY DEF IInv, TypeOK
<1>5. /\ dir'[f] = f
      /\ \A i \in Ids : dir'[i] = dir[i]
      /\ \A g \in Files : g # f => dir'[g] = dir[g]
  BY <1>1, <1>4, FreshAssumption DEF Names
<1>6. \A g \in Files : g # f => content'[g] = content[g]
  BY <1>1, <1>4
<1>7. TypeOK'
  <2>1. dir' \in [Names -> Files \cup {NoFile}] /\ content' \in [Files -> Records \cup {Torn}]
    BY <1>1, <1>4
  <2> QED
    BY <1>1, <1>2, <2>1 DEF IInv, TypeOK, Saves
<1>8. PublishedWhole'
  <2> SUFFICES ASSUME NEW i \in Ids, dir[i] # NoFile
               PROVE  \E v \in Valid : content'[dir[i]] = [id |-> i, value |-> v]
    BY <1>5 DEF PublishedWhole
  <2>1. dir[i] \in Files /\ dir[i] # f
    BY <1>3, <1>4 DEF Names
  <2> QED
    BY <1>6, <2>1 DEF IInv, PublishedWhole
<1>9. DirInv'
  <2>1. \A g \in Files : dir'[g] \in {g, NoFile}
    BY <1>5 DEF IInv, DirInv
  <2>2. ASSUME NEW g \in Files, dir'[g] = g PROVE \A i \in Ids : dir'[i] # g
    <3>1. CASE g = f
      BY <1>3, <1>5, <3>1 DEF Names
    <3>2. CASE g # f
      BY <1>5, <2>2, <3>2 DEF IInv, DirInv
    <3> QED
      BY <3>1, <3>2
  <2> QED
    BY <1>5, <2>1, <2>2 DEF IInv, DirInv
<1>10. SaverOK(s)'
  <2>1. SaverOK(s)
    BY DEF IInv, SaverInv
  <2>2. sv'[s].temp = f
    BY DEF f
  <2> QED
    BY <1>1, <1>5, <2>1, <2>2 DEF SaverOK, SameSave, Writing
<1>11. SaverInv'
  <2> SUFFICES ASSUME NEW t \in Savers, t # s PROVE SaverOK(t)'
    BY <1>10 DEF SaverInv
  <2>1. SaverOK(t) /\ sv'[t] = sv[t] /\ sv[t].temp # f
    BY <1>2, <1>3 DEF IInv, SaverInv
  <2>2. Writing(t) => dir'[sv[t].temp] = sv[t].temp /\ content'[sv[t].temp] = content[sv[t].temp]
    BY <1>5, <1>6, <2>1 DEF SaverOK
  <2> QED
    BY <2>1, <2>2 DEF SaverOK, Writing
<1>12. TempsApart'
  <2>1. \A t \in Savers : t # s => sv'[t].temp = sv[t].temp /\ sv'[t].temp # f
    BY <1>2, <1>3
  <2> QED
    BY <2>1 DEF IInv, TempsApart, f
<1>13. NoLeakWithoutCrash'
  <2> SUFFICES ASSUME crashes = 0, NEW g \in Files, dir'[g] # NoFile, g # f
               PROVE  \E t \in Savers : sv'[t].temp = g
    BY <1>1 DEF NoLeakWithoutCrash, Saves, f
  <2>1. PICK t \in Savers : sv[t].temp = g
    BY <1>5 DEF IInv, NoLeakWithoutCrash
  <2>2. t # s
    BY <1>1, <2>1, FreshAssumption DEF IInv, SaverInv, SaverOK
  <2> QED
    BY <1>2, <2>1, <2>2
<1>14. ReadersInv'
  <2>1. \A i \in Ids : dir[i] # NoFile => dir'[i] # NoFile
    BY <1>5
  <2>2. ASSUME NEW r \in Readers, rd[r].pc = "decode"
        PROVE  content'[rd[r].file] = content[rd[r].file]
    <3>1. rd[r].file \in Files
      BY <2>2 DEF IInv, ReadersInv, ReaderOK
    <3> QED
      BY <1>3, <1>6, <3>1
  <2>3. ASSUME NEW t \in Savers, Writing(t)'
        PROVE  \/ Writing(t) /\ sv'[t].temp = sv[t].temp
               \/ \A r \in Readers : rd[r].file # sv'[t].temp
    BY <1>2, <1>3, <2>3 DEF Writing, f
  <2> QED
    BY <1>2, <2>1, <2>2, <2>3, ReadersUndisturbed
<1> QED
  BY <1>7, <1>8, <1>9, <1>11, <1>12, <1>13, <1>14 DEF IInv

LEMMA EncodeInv ==
  ASSUME IInv, NEW s \in Savers, Encode(s)
  PROVE  IInv'
<1> DEFINE f == sv[s].temp
<1>1. /\ Saves(s) /\ SameSave(s) /\ sv'[s].temp = f
      /\ sv[s].pc = "encode" /\ sv'[s].pc = "close" /\ Writing(s)
  BY AdvanceEffect DEF IInv, Encode, Writing
<1>2. /\ f \in Files /\ dir[f] = f /\ sv[s].id \in Ids /\ sv[s].value \in Valid
      /\ SaverOK(s)
  BY <1>1 DEF IInv, SaverInv, SaverOK
<1>3. content' = [content EXCEPT ![f] = [id |-> sv[s].id, value |-> sv[s].value]]
      /\ dir' = dir
  BY DEF Encode
<1>4. /\ dir \in [Names -> Files \cup {NoFile}]
      /\ content \in [Files -> Records \cup {Torn}]
  BY DEF IInv, TypeOK
<1>5. /\ content'[f] = [id |-> sv[s].id, value |-> sv[s].value]
      /\ \A g \in Files : g # f => content'[g] = content[g]
  BY <1>2, <1>3, <1>4
<1>6. rd' = rd /\ \A t \in Savers : t # s => sv'[t] = sv[t]
  BY <1>1 DEF Saves
<1> HIDE DEF f
<1>7. TypeOK'
  <2>1. [id |-> sv[s].id, value |-> sv[s].value] \in Records
    BY <1>2, ValidAssumption DEF Records
  <2>2. content' \in [Files -> Records \cup {Torn}]
    BY <1>3, <1>4, <2>1
  <2> QED
    BY <1>1, <1>3, <1>6, <2>2 DEF IInv, TypeOK, Saves
<1>8. PublishedWhole'
  <2> SUFFICES ASSUME NEW i \in Ids, dir[i] # NoFile
               PROVE  \E v \in Valid : content'[dir[i]] = [id |-> i, value |-> v]
    BY <1>3 DEF PublishedWhole
  <2>1. dir[i] \in Files /\ dir[i] # f
    BY <1>2, <1>4 DEF Names, IInv, DirInv
  <2> QED
    BY <1>5, <2>1 DEF IInv, PublishedWhole
<1>9. DirInv'
  BY <1>3 DEF IInv, DirInv
<1>10. SaverOK(s)'
  <2>1. /\ sv'[s].temp \in Files /\ dir'[sv'[s].temp] = sv'[s].temp
        /\ content'[sv'[s].temp] = [id |-> sv'[s].id, value |-> sv'[s].value]
    BY <1>1, <1>2, <1>3, <1>5 DEF SameSave
  <2> QED
    BY <1>1, <1>2, <2>1, ValidAssumption DEF SaverOK, SameSave, Writing
<1>11. SaverInv'
  <2> SUFFICES ASSUME NEW t \in Savers, t # s PROVE SaverOK(t)'
    BY <1>10 DEF SaverInv
  <2>1. SaverOK(t) /\ sv'[t] = sv[t]
    BY <1>6 DEF IInv, SaverInv
  <2>2. Writing(t) => sv[t].temp \in Files /\ sv[t].temp # f
    BY <1>2, <2>1, FreshAssumption DEF IInv, TempsApart, SaverOK, f
  <2>3. Writing(t) => content'[sv[t].temp] = content[sv[t].temp]
    BY <1>5, <2>2
  <2> QED
    BY <1>3, <2>1, <2>3 DEF SaverOK, Writing
<1>12. \A t \in Savers : sv'[t].temp = sv[t].temp
  BY <1>1, <1>6 DEF f
<1>13. TempsApart' /\ NoLeakWithoutCrash'
  BY <1>1, <1>3, <1>12 DEF IInv, TempsApart, NoLeakWithoutCrash, Saves
<1>14. ReadersInv'
  <2>1. ASSUME NEW r \in Readers, rd[r].pc = "decode"
        PROVE  \/ content'[rd[r].file] = content[rd[r].file]
               \/ \E t \in Savers : Writing(t) /\ sv[t].temp = rd[r].file
    <3>1. rd[r].file \in Files
      BY <2>1 DEF IInv, ReadersInv, ReaderOK
    <3> QED
      BY <1>1, <1>5, <3>1 DEF f
  <2>2. \A t \in Savers : Writing(t)' => Writing(t)
    BY <1>1, <1>6 DEF Writing
  <2> QED
    BY <1>3, <1>6, <1>12, <2>1, <2>2, ReadersUndisturbed
<1> QED
  BY <1>7, <1>8, <1>9, <1>11, <1>13, <1>14 DEF IInv

LEMMA RenameEffect ==
  ASSUME TypeOK, NEW s \in Savers, Rename(s)
  PROVE  /\ Saves(s) /\ sv[s].pc = "rename" /\ sv'[s].pc = "return" /\ sv'[s].ok
         /\ sv'[s].id = sv[s].id /\ sv'[s].value = sv[s].value
         /\ sv'[s].temp = sv[s].temp
         /\ dir' = [dir EXCEPT ![sv[s].id] = sv[s].temp, ![sv[s].temp] = NoFile]
         /\ content' = content
<1>1. /\ sv[s].pc = "rename" /\ UNCHANGED <<content, rd, saves, crashes>>
      /\ dir' = [dir EXCEPT ![sv[s].id] = sv[s].temp, ![sv[s].temp] = NoFile]
      /\ sv' = [sv EXCEPT ![s].pc = "return", ![s].ok = TRUE]
  BY DEF Rename, counters
<1>2. /\ sv'[s].pc = "return" /\ sv'[s].id = sv[s].id /\ sv'[s].value = sv[s].value
      /\ sv'[s].temp = sv[s].temp /\ sv'[s].ok
  BY <1>1, SaverTypes DEF SaverStates
<1>3. sv'[s] \in SaverStates
  BY <1>1, SaverTypes DEF SaverStates
<1>4. \A t \in Savers : t # s => sv'[t] = sv[t]
  BY <1>1, SaverTypes
<1>5. sv' \in [Savers -> SaverStates]
  BY <1>1, <1>3, SaverTypes
<1> QED
  BY <1>1, <1>2, <1>4, <1>5, SaverTypes DEF Saves

LEMMA ReturnSaveEffect ==
  ASSUME TypeOK, NEW s \in Savers, ReturnSave(s)
  PROVE  /\ Saves(s) /\ sv[s].pc = "return" /\ sv'[s] = SaverIdle /\ content' = content
         /\ dir' = IF sv[s].temp = NoFile THEN dir ELSE [dir EXCEPT ![sv[s].temp] = NoFile]
<1>1. /\ sv[s].pc = "return" /\ UNCHANGED <<content, rd, saves, crashes>>
      /\ dir' = IF sv[s].temp = NoFile THEN dir ELSE [dir EXCEPT ![sv[s].temp] = NoFile]
      /\ sv' = [sv EXCEPT ![s] = SaverIdle]
  BY DEF ReturnSave, counters
<1>2. /\ sv'[s] = SaverIdle /\ sv' \in [Savers -> SaverStates]
      /\ \A t \in Savers : t # s => sv'[t] = sv[t]
  BY <1>1, SaverTypes, IdleSaver
<1> QED
  BY <1>1, <1>2, SaverTypes DEF Saves

\* Once renamed, the temp file is the record's file and no longer written.
LEMMA RenameInv ==
  ASSUME IInv, NEW s \in Savers, Rename(s)
  PROVE  IInv'
<1> DEFINE f == sv[s].temp
           id == sv[s].id
<1>1. /\ Saves(s) /\ sv[s].pc = "rename" /\ sv'[s].pc = "return" /\ sv'[s].ok
      /\ sv'[s].id = id /\ sv'[s].value = sv[s].value /\ sv'[s].temp = f
      /\ dir' = [dir EXCEPT ![id] = f, ![f] = NoFile]
      /\ content' = content
  BY RenameEffect DEF IInv
<1>2. /\ Writing(s) /\ f \in Files /\ dir[f] = f
      /\ id \in Ids /\ sv[s].value \in Valid
      /\ content[f] = [id |-> id, value |-> sv[s].value]
  BY <1>1 DEF IInv, SaverInv, SaverOK, Writing
<1>3. rd' = rd /\ \A t \in Savers : t # s => sv'[t] = sv[t]
  BY <1>1 DEF Saves
<1>4. \A t \in Savers : t # s => sv[t].temp # f
  BY <1>2, FreshAssumption DEF IInv, TempsApart
<1>5. dir \in [Names -> Files \cup {NoFile}]
  BY DEF IInv, TypeOK
<1>6. id \in Names /\ f \in Names /\ id # f /\ f # NoFile
  BY <1>2, FreshAssumption DEF Names
<1> HIDE DEF f, id
<1>7. /\ dir'[id] = f /\ dir'[f] = NoFile
      /\ \A n \in Names : n # id /\ n # f => dir'[n] = dir[n]
  BY <1>1, <1>5, <1>6
<1>8. TypeOK'
  <2>1. dir' \in [Names -> Files \cup {NoFile}]
    BY <1>1, <1>2, <1>5
  <2> QED
    BY <1>1, <1>3, <2>1 DEF IInv, TypeOK, Saves
<1>9. ASSUME NEW i \in Ids PROVE IF i = id THEN dir'[i] = f ELSE dir'[i] = dir[i] /\ dir[i] # f
  <2>1. i # f /\ i \in Names
    BY <1>2, FreshAssumption DEF Names
  <2>2. dir[i] # f
    BY <1>2 DEF IInv, DirInv
  <2> QED
    BY <1>7, <2>1, <2>2
<1>10. PublishedWhole'
  <2> SUFFICES ASSUME NEW i \in Ids, dir'[i] # NoFile
               PROVE  \E v \in Valid : content'[dir'[i]] = [id |-> i, value |-> v]
    BY DEF PublishedWhole
  <2>1. CASE i = id
    <3>1. content'[dir'[i]] = [id |-> i, value |-> sv[s].value]
      BY <1>1, <1>2, <1>7, <2>1
    <3> QED
      BY <1>2, <3>1
  <2>2. CASE i # id
    <3>1. content'[dir'[i]] = content[dir[i]] /\ dir[i] # NoFile
      BY <1>1, <1>9, <2>2
    <3> QED
      BY <3>1 DEF IInv, PublishedWhole
  <2> QED
    BY <2>1, <2>2
<1>11. DirInv'
  <2>1. \A g \in Files : g # f => dir'[g] = dir[g]
    BY <1>2, <1>7, FreshAssumption DEF Names
  <2>2. \A g \in Files : dir'[g] \in {g, NoFile}
    BY <1>7, <2>1 DEF IInv, DirInv
  <2>3. ASSUME NEW g \in Files, dir'[g] = g, NEW i \in Ids PROVE dir'[i] # g
    <3>1. g # f
      BY <1>6, <1>7, <2>3
    <3>2. dir[g] = g
      BY <2>1, <2>3, <3>1
    <3> QED
      BY <1>9, <3>1, <3>2 DEF IInv, DirInv
  <2>4. ASSUME NEW i \in Ids, NEW j \in Ids, dir'[i] = dir'[j], dir'[i] # NoFile
        PROVE  i = j
    BY <1>9, <2>4 DEF IInv, DirInv
  <2> QED
    BY <2>2, <2>3, <2>4 DEF DirInv
<1>12. SaverInv'
  <2> SUFFICES ASSUME NEW t \in Savers PROVE SaverOK(t)'
    BY DEF SaverInv
  <2>1. CASE t = s
    BY <1>1, <1>2, <2>1, ValidAssumption DEF SaverOK, Writing
  <2>2. CASE t # s
    <3>1. SaverOK(t) /\ sv'[t] = sv[t] /\ sv[t].temp # f
      BY <1>3, <1>4, <2>2 DEF IInv, SaverInv
    <3>2. Writing(t) => sv[t].temp \in Names /\ sv[t].temp # id
      BY <1>2, <3>1, FreshAssumption DEF SaverOK, Names
    <3>3. Writing(t) => dir'[sv[t].temp] = dir[sv[t].temp]
      BY <1>7, <3>1, <3>2
    <3> QED
      BY <1>1, <3>1, <3>3 DEF SaverOK, Writing
  <2> QED
    BY <2>1, <2>2
<1>13. \A t \in Savers : sv'[t].temp = sv[t].temp
  BY <1>1, <1>3 DEF f
<1>14. TempsApart'
  BY <1>13 DEF IInv, TempsApart
<1>15. NoLeakWithoutCrash'
  <2> SUFFICES ASSUME crashes = 0, NEW g \in Files, dir'[g] # NoFile
               PROVE  \E t \in Savers : sv[t].temp = g
    BY <1>1, <1>13 DEF NoLeakWithoutCrash, Saves
  <2>1. dir'[g] = dir[g]
    BY <1>2, <1>7, FreshAssumption DEF Names
  <2> QED
    BY <2>1 DEF IInv, NoLeakWithoutCrash
<1>16. ReadersInv'
  <2>1. \A i \in Ids : dir[i] # NoFile => dir'[i] # NoFile
    BY <1>6, <1>9
  <2>2. \A t \in Savers : Writing(t)' => Writing(t)
    BY <1>1, <1>2, <1>3 DEF Writing
  <2> QED
    BY <1>1, <1>3, <1>13, <2>1, <2>2, ReadersUndisturbed
<1> QED
  BY <1>8, <1>10, <1>11, <1>12, <1>14, <1>15, <1>16 DEF IInv

LEMMA ReturnSaveInv ==
  ASSUME IInv, NEW s \in Savers, ReturnSave(s)
  PROVE  IInv'
<1> DEFINE f == sv[s].temp
<1>1. /\ Saves(s) /\ sv[s].pc = "return" /\ sv'[s] = SaverIdle /\ content' = content
      /\ dir' = IF f = NoFile THEN dir ELSE [dir EXCEPT ![f] = NoFile]
  BY ReturnSaveEffect DEF IInv
<1>2. rd' = rd /\ \A t \in Savers : t # s => sv'[t] = sv[t]
  BY <1>1 DEF Saves
<1>3. dir \in [Names -> Files \cup {NoFile}] /\ f \in Files \cup {NoFile}
  BY SaverTypes, SaverFields DEF IInv, TypeOK
<1>4. \A t \in Savers : t # s /\ sv[t].temp # NoFile => sv[t].temp # f
  BY DEF IInv, TempsApart
<1>5. sv'[s].pc = "idle" /\ sv'[s].temp = NoFile /\ sv'[s].ok = FALSE
  BY <1>1, IdleSaver
<1> HIDE DEF f
<1>6. \A n \in Names : dir'[n] = IF n = f /\ f # NoFile THEN NoFile ELSE dir[n]
  BY <1>1, <1>3
<1>7. dir' \in [Names -> Files \cup {NoFile}]
  BY <1>1, <1>3
<1>8. \A i \in Ids : dir'[i] = dir[i]
  BY <1>3, <1>6, FreshAssumption DEF Names
<1>9. \A g \in Files : dir'[g] = dir[g] \/ dir'[g] = NoFile
  BY <1>6 DEF Names
<1>10. TypeOK'
  BY <1>1, <1>2, <1>7 DEF IInv, TypeOK, Saves
<1>11. PublishedWhole'
  BY <1>1, <1>8 DEF IInv, PublishedWhole
<1>12. DirInv'
  BY <1>8, <1>9, FreshAssumption DEF IInv, DirInv
<1>13. SaverInv'
  <2> SUFFICES ASSUME NEW t \in Savers PROVE SaverOK(t)'
    BY DEF SaverInv
  <2>1. CASE t = s
    BY <1>5, <2>1 DEF SaverOK, Writing
  <2>2. CASE t # s
    <3>1. SaverOK(t) /\ sv'[t] = sv[t]
      BY <1>2, <2>2 DEF IInv, SaverInv
    <3>2. Writing(t) => sv[t].temp \in Names /\ sv[t].temp # f
      BY <1>4, <2>2, <3>1, FreshAssumption DEF SaverOK, Names
    <3>3. Writing(t) => dir'[sv[t].temp] = dir[sv[t].temp]
      BY <1>6, <3>2
    <3> QED
      BY <1>1, <3>1, <3>3 DEF SaverOK, Writing
  <2> QED
    BY <2>1, <2>2
<1>14. TempsApart'
  BY <1>2, <1>5 DEF IInv, TempsApart
<1>15. NoLeakWithoutCrash'
  <2> SUFFICES ASSUME crashes = 0, NEW g \in Files, dir'[g] # NoFile
               PROVE  \E t \in Savers : sv'[t].temp = g
    BY <1>1 DEF NoLeakWithoutCrash, Saves
  <2>1. dir[g] # NoFile /\ g # f
    BY <1>3, <1>6, <1>9, FreshAssumption DEF Names
  <2>2. PICK t \in Savers : sv[t].temp = g
    BY <2>1 DEF IInv, NoLeakWithoutCrash
  <2>3. t # s
    BY <2>1, <2>2 DEF f
  <2> QED
    BY <1>2, <2>2, <2>3
<1>16. ReadersInv'
  <2>1. \A i \in Ids : dir[i] # NoFile => dir'[i] # NoFile
    BY <1>8
  <2>2. \A t \in Savers : Writing(t)' => Writing(t) /\ sv'[t].temp = sv[t].temp
    BY <1>2, <1>5 DEF Writing
  <2> QED
    BY <1>1, <1>2, <2>1, <2>2, ReadersUndisturbed
<1> QED
  BY <1>10, <1>11, <1>12, <1>13, <1>14, <1>15, <1>16 DEF IInv

----------------------------------------------------------------------------
(* The invariant is inductive *)

LEMMA InitInv == Init => IInv
<1> SUFFICES ASSUME Init PROVE IInv
  OBVIOUS
<1>1. /\ sv = [s \in Savers |-> SaverIdle] /\ rd = [r \in Readers |-> ReaderIdle]
      /\ saves = 0 /\ crashes = 0
  BY DEF Init
<1>2. TypeOK
  <2>1. sv \in [Savers -> SaverStates] /\ rd \in [Readers -> ReaderStates]
    BY <1>1, IdleReader, IdleSaver
  <2> QED
    BY <1>1, <2>1, BoundAssumption DEF Init, TypeOK
<1>3. PublishedWhole
  BY DEF Init, PublishedWhole
<1>4. DirInv
  BY FreshAssumption DEF Init, DirInv
<1>5. SaverInv
  <2> SUFFICES ASSUME NEW s \in Savers PROVE SaverOK(s)
    BY DEF SaverInv
  <2> QED
    BY <1>1, IdleSaver DEF SaverOK, Writing
<1>6. TempsApart /\ NoLeakWithoutCrash
  BY <1>1, IdleSaver DEF Init, TempsApart, NoLeakWithoutCrash
<1>7. ReadersInv
  <2> SUFFICES ASSUME NEW r \in Readers PROVE ReaderOK(r) /\ ListOK(r)
    BY DEF ReadersInv
  <2> QED
    BY <1>1, IdleReader DEF ReaderOK, ListOK
<1> QED
  BY <1>2, <1>3, <1>4, <1>5, <1>6, <1>7 DEF IInv

LEMMA CrashInv ==
  ASSUME IInv, Crash
  PROVE  IInv'
<1>1. /\ sv' = [s \in Savers |-> SaverIdle] /\ rd' = [r \in Readers |-> ReaderIdle]
      /\ UNCHANGED <<dir, content, saves>> /\ crashes' = crashes + 1 /\ crashes < MaxCrashes
  BY DEF Crash
<1>2. crashes' \in 0..MaxCrashes /\ crashes' # 0
  BY <1>1, SaverTypes, BoundAssumption DEF IInv
<1>3. TypeOK'
  <2>1. sv' \in [Savers -> SaverStates] /\ rd' \in [Readers -> ReaderStates]
    BY <1>1, IdleReader, IdleSaver
  <2> QED
    BY <1>1, <1>2, <2>1 DEF IInv, TypeOK
<1>4. PublishedWhole' /\ DirInv'
  BY <1>1 DEF IInv, PublishedWhole, DirInv
<1>5. SaverInv'
  <2> SUFFICES ASSUME NEW s \in Savers PROVE SaverOK(s)'
    BY DEF SaverInv
  <2> QED
    BY <1>1, IdleSaver DEF SaverOK, Writing
<1>6. TempsApart' /\ NoLeakWithoutCrash'
  BY <1>1, <1>2, IdleSaver DEF TempsApart, NoLeakWithoutCrash
<1>7. ReadersInv'
  <2> SUFFICES ASSUME NEW r \in Readers PROVE ReaderOK(r)' /\ ListOK(r)'
    BY DEF ReadersInv
  <2> QED
    BY <1>1, IdleReader DEF ReaderOK, ListOK
<1> QED
  BY <1>3, <1>4, <1>5, <1>6, <1>7 DEF IInv

LEMMA SaveStepsInv ==
  ASSUME IInv, NEW s \in Savers, SaveStep(s)
  PROVE  IInv'
<1>1. CASE Prepare(s)
  BY <1>1, QuietAdvanceInv DEF Prepare
<1>2. CASE Close(s)
  BY <1>2, QuietAdvanceInv DEF Close
<1>3. CASE \/ PrepareFails(s) \/ CreateTempFails(s) \/ EncodeFails(s)
           \/ CloseFails(s) \/ RenameFails(s)
  <2>1. PICK from \in {"prepare", "create", "encode", "close", "rename"} : GiveUp(s, from)
    BY <1>3
    DEF PrepareFails, CreateTempFails, EncodeFails, CloseFails, RenameFails
  <2> QED
    BY <2>1, QuietAdvanceInv DEF GiveUp
<1> QED
  BY <1>1, <1>2, <1>3, CreateTempInv, EncodeInv, RenameInv, ReturnSaveInv DEF SaveStep

LEMMA NextInv ==
  ASSUME IInv, [Next]_vars
  PROVE  IInv'
<1>1. CASE UNCHANGED vars
  <2>1. UNCHANGED <<dir, content, sv, rd, saves, crashes>>
    BY <1>1 DEF vars
  <2>2. TypeOK' /\ PublishedWhole' /\ DirInv' /\ TempsApart' /\ NoLeakWithoutCrash'
    BY <2>1 DEF IInv, TypeOK, PublishedWhole, DirInv, TempsApart, NoLeakWithoutCrash
  <2>3. SaverInv'
    BY <2>1 DEF IInv, SaverInv, SaverOK, Writing
  <2>4. ReadersInv'
    BY <2>1, ReadersUndisturbed DEF Writing
  <2> QED
    BY <2>2, <2>3, <2>4 DEF IInv
<1> QED
  BY <1>1, CrashInv, BeginSaveInv, SaveStepsInv, ReaderStepsInv DEF Next

LEMMA Invariance == Spec => []IInv
  BY InitInv, NextInv, PTL DEF Spec

\* The state of every Save, every read and every file keeps its type.
THEOREM TypeCorrect == Spec => []TypeOK
  BY Invariance, PTL DEF IInv

\* Through any failures and crashes of any number of Saves, a record's own name
\* leads to a whole and valid record (WriteAtomic).
THEOREM PublishedAlwaysWhole == Spec => []PublishedWhole
  BY Invariance, PTL DEF IInv

\* As long as the daemon has not died, every temp file in the directory is one
\* that a Save under way will still remove or rename (the deferred os.Remove).
THEOREM TempsAlwaysOwned == Spec => []NoLeakWithoutCrash
  BY Invariance, PTL DEF IInv

\* However many Saves run beside it, a List whose ReadDir met no temp file
\* answers with every record it saw there, each once and under its own id
\* (listJSONRecords).
THEOREM ListsAlwaysExact == Spec => []ListExactWithoutTemps
<1>1. IInv => ListExactWithoutTemps
  <2> SUFFICES ASSUME IInv, NEW r \in Readers,
                      rd[r].list, rd[r].pc = "return", Undisturbed(r)
               PROVE  /\ rd[r].answer # Broken
                      /\ {entry[1] : entry \in rd[r].listed} = rd[r].seen
                      /\ \A entry \in rd[r].listed : entry[2].id = entry[1]
                      /\ \A e1, e2 \in rd[r].listed : e1[1] = e2[1] => e1 = e2
    BY DEF ListExactWithoutTemps, Undisturbed
  <2>1. ListOK(r) /\ Current(r) = {}
    BY DEF IInv, ReadersInv, Current
  <2>2. rd[r].answer = NoValue /\ rd[r].todo = {}
    BY <2>1 DEF ListOK
  <2>3. {entry[1] : entry \in rd[r].listed} = rd[r].seen
    BY <2>1, <2>2 DEF ListOK
  <2>4. /\ \A entry \in rd[r].listed : entry[2].id = entry[1]
        /\ \A e1, e2 \in rd[r].listed : e1[1] = e2[1] => e1 = e2
    BY <2>1 DEF ListOK
  <2> QED
    BY <2>2, <2>3, <2>4, FreshAssumption
<1> QED
  BY <1>1, Invariance, PTL

----------------------------------------------------------------------------
(* RecordDir implements RecordStore *)

Saving == [s \in Savers |-> SaveSeen(sv[s])]
Getting == [r \in Readers |-> GetSeen(rd[r])]

\* A Save that changes seen by RecordStore: the others look as before.
LEMMA OneSaveSeen ==
  ASSUME NEW s \in Savers, Saves(s)
  PROVE  Saving' = [Saving EXCEPT ![s] = SaveSeen(sv'[s])]
<1>1. \A t \in Savers : t # s => SaveSeen(sv'[t]) = SaveSeen(sv[t])
  BY DEF Saves
<1> QED
  BY <1>1 DEF Saving

\* The files a record or an opened Get leads to are never written: while names
\* of records keep their files too, records and answers stay the same.
LEMMA FilesSettled ==
  ASSUME IInv, rd' = rd,
         \A i \in Ids : dir'[i] = dir[i],
         \A f \in Files : content'[f] = content[f]
           \/ /\ \A i \in Ids : dir[i] # f
              /\ \A r \in Readers :
                   rd[r].pc = "decode" /\ Undisturbed(r) => rd[r].file # f
  PROVE  StoredRecords' = StoredRecords /\ Getting' = Getting
<1>1. \A i \in Ids : dir[i] # NoFile => content'[dir[i]] = content[dir[i]]
  BY DEF IInv, TypeOK, Names
<1>2. StoredRecords' = StoredRecords
  BY <1>1 DEF StoredRecords
<1>3. ASSUME NEW r \in Readers PROVE GetSeen(rd[r])' = GetSeen(rd[r])
  <2>1. CASE ~rd[r].list /\ rd[r].pc = "decode"
    <3>1. rd[r].file \in Files /\ Undisturbed(r)
      BY <2>1 DEF IInv, ReadersInv, ReaderOK, Undisturbed
    <3>2. content'[rd[r].file] = content[rd[r].file]
      BY <2>1, <3>1
    <3> QED
      BY <2>1, <3>2 DEF GetSeen, Decodes
  <2>2. CASE ~(~rd[r].list /\ rd[r].pc = "decode")
    BY <2>2 DEF GetSeen
  <2> QED
    BY <2>1, <2>2
<1> QED
  BY <1>2, <1>3 DEF Getting

\* A step of a Save, as RecordStore sees it.
SavesSeen(s) ==
  \/ Store!BeginSave(s) \/ Store!CommitSave(s) \/ Store!FailSave(s)
  \/ Store!ReturnSave(s)
  \/ UNCHANGED <<StoredRecords, Saving, Getting>>

LEMMA SaverPcs ==
  ASSUME NEW q \in SaverStates
  PROVE  /\ q.pc \in {"prepare", "create", "encode", "close", "rename"} =>
              SaveSeen(q) = Store!Pending(q.id, q.value)
         /\ q.pc = "return" => SaveSeen(q) = IF q.ok THEN Store!Saved ELSE Store!Failed
         /\ q.pc = "idle" => SaveSeen(q) = Store!Quiet
<1>1. q.pc \in {"prepare", "create", "encode", "close", "rename"} =>
        SaveSeen(q) = Store!Pending(q.id, q.value)
  BY DEF SaveSeen, Store!Pending
<1>2. q.pc = "return" => SaveSeen(q) = IF q.ok THEN Store!Saved ELSE Store!Failed
  BY DEF SaveSeen, Store!Saved, Store!Failed
<1>3. q.pc = "idle" => SaveSeen(q) = Store!Quiet
  BY DEF SaveSeen, Store!Quiet
<1> QED
  BY <1>1, <1>2, <1>3

LEMMA BeginSaveRefines ==
  ASSUME IInv, NEW s \in Savers, BeginSave(s)
  PROVE  Store!BeginSave(s)
<1>1. /\ Saves(s) /\ UNCHANGED <<dir, content>> /\ sv[s].pc = "idle"
      /\ sv'[s].pc = "prepare" /\ sv'[s].id \in Ids /\ sv'[s].value \in Values
  BY BeginSaveEffect DEF IInv
<1>2. sv[s] \in SaverStates /\ sv'[s] \in SaverStates
  BY <1>1, SaverTypes DEF IInv, Saves
<1>3. Saving[s] = Store!Quiet /\ SaveSeen(sv'[s]) = Store!Pending(sv'[s].id, sv'[s].value)
  BY <1>1, <1>2, SaverPcs DEF Saving
<1>4. Saving' = [Saving EXCEPT ![s] = Store!Pending(sv'[s].id, sv'[s].value)]
  BY <1>1, <1>3, OneSaveSeen
<1>5. UNCHANGED <<StoredRecords, Getting>>
  BY <1>1, FilesSettled DEF Saves
<1> QED
  BY <1>1, <1>3, <1>4, <1>5 DEF Store!BeginSave, Saving, Getting

\* Until the Rename a Save is pending whatever it does to its temp file.
LEMMA PendingRefines ==
  ASSUME IInv, NEW s \in Savers, Prepare(s) \/ CreateTemp(s) \/ Encode(s) \/ Close(s)
  PROVE  UNCHANGED <<StoredRecords, Saving, Getting>>
<1>1. /\ Saves(s) /\ SameSave(s)
      /\ sv[s].pc \in {"prepare", "create", "encode", "close"}
      /\ sv'[s].pc \in {"create", "encode", "close", "rename"}
  BY AdvanceEffect, CreateTempEffect DEF Prepare, Encode, Close, IInv
<1>2. sv[s] \in SaverStates /\ sv'[s] \in SaverStates
  BY <1>1, SaverTypes DEF IInv, Saves
<1>3. SaveSeen(sv'[s]) = Saving[s]
  BY <1>1, <1>2, SaverPcs DEF SameSave, Saving
<1>4. Saving' = Saving
  BY <1>1, <1>3, OneSaveSeen DEF Saving
<1>5. rd' = rd
  BY <1>1 DEF Saves
<1>6. StoredRecords' = StoredRecords /\ Getting' = Getting
  <2>1. CASE Prepare(s) \/ Close(s)
    BY <2>1, <1>5, FilesSettled DEF Prepare, Close
  <2>2. CASE CreateTemp(s)
    <3>1. PICK f \in Files :
            /\ Unused(f)
            /\ dir' = [dir EXCEPT ![f] = f]
            /\ content' = [content EXCEPT ![f] = Torn]
      BY <2>2 DEF CreateTemp
    <3>2. /\ \A i \in Ids : dir[i] # f
          /\ \A r \in Readers : rd[r].file # f
      BY <3>1 DEF Unused, Names
    <3>3. \A i \in Ids : dir'[i] = dir[i]
      BY <3>1, FreshAssumption DEF IInv, TypeOK, Names
    <3>4. \A g \in Files : g # f => content'[g] = content[g]
      BY <3>1 DEF IInv, TypeOK
    <3> QED
      BY <1>5, <3>2, <3>3, <3>4, FilesSettled
  <2>3. CASE Encode(s)
    <3>1. /\ dir' = dir
          /\ content' = [content EXCEPT ![sv[s].temp] =
                           [id |-> sv[s].id, value |-> sv[s].value]]
          /\ Writing(s)
      BY <2>3 DEF Encode, Advance, Writing
    <3>2. sv[s].temp \in Files /\ dir[sv[s].temp] = sv[s].temp
      BY <3>1 DEF IInv, SaverInv, SaverOK
    <3>3. \A i \in Ids : dir[i] # sv[s].temp
      BY <3>2 DEF IInv, DirInv
    <3>4. \A r \in Readers : rd[r].pc = "decode" /\ Undisturbed(r) =>
            rd[r].file # sv[s].temp
      BY <3>1 DEF IInv, ReadersInv, ReaderOK
    <3>5. \A g \in Files : g # sv[s].temp => content'[g] = content[g]
      BY <3>1 DEF IInv, TypeOK
    <3> QED
      BY <1>5, <3>1, <3>3, <3>4, <3>5, FilesSettled
  <2> QED
    BY <2>1, <2>2, <2>3
<1> QED
  BY <1>4, <1>6

LEMMA FailureRefines ==
  ASSUME IInv, NEW s \in Savers,
         NEW from \in {"prepare", "create", "encode", "close", "rename"}, GiveUp(s, from)
  PROVE  Store!FailSave(s)
<1>1. /\ Saves(s) /\ SameSave(s) /\ UNCHANGED <<dir, content>>
      /\ sv[s].pc = from /\ sv'[s].pc = "return"
  BY AdvanceEffect DEF IInv, GiveUp
<1>2. sv[s] \in SaverStates /\ sv'[s] \in SaverStates
  BY <1>1, SaverTypes DEF IInv, Saves
<1>3. SaverOK(s)
  BY DEF IInv, SaverInv
<1>4. /\ sv[s].id \in Ids /\ sv[s].value \in Values /\ ~sv'[s].ok
  BY <1>1, <1>3 DEF SaverOK, SameSave
<1>5. Saving[s] = Store!Pending(sv[s].id, sv[s].value) /\ SaveSeen(sv'[s]) = Store!Failed
  BY <1>1, <1>2, <1>4, SaverPcs DEF Saving
<1>6. Saving' = [Saving EXCEPT ![s] = Store!Failed]
  BY <1>1, <1>5, OneSaveSeen
<1>7. UNCHANGED <<StoredRecords, Getting>>
  BY <1>1, FilesSettled DEF Saves
<1> QED
  BY <1>4, <1>5, <1>6, <1>7 DEF Store!FailSave, Saving, Getting

LEMMA RenameRefines ==
  ASSUME IInv, NEW s \in Savers, Rename(s)
  PROVE  Store!CommitSave(s)
<1> DEFINE f == sv[s].temp
           id == sv[s].id
           value == sv[s].value
<1>1. /\ Saves(s) /\ sv[s].pc = "rename" /\ sv'[s].pc = "return" /\ sv'[s].ok
      /\ dir' = [dir EXCEPT ![id] = f, ![f] = NoFile]
      /\ content' = content
  BY RenameEffect DEF IInv
<1>2. sv[s] \in SaverStates /\ sv'[s] \in SaverStates /\ rd' = rd
  BY <1>1, SaverTypes DEF IInv, Saves
<1>3. /\ id \in Ids /\ value \in Values /\ f \in Files
      /\ content[f] = [id |-> id, value |-> value]
  BY <1>1 DEF IInv, SaverInv, SaverOK, Writing
<1>4. Saving[s] = Store!Pending(id, value) /\ SaveSeen(sv'[s]) = Store!Saved
  BY <1>1, <1>2, SaverPcs DEF Saving
<1>5. Saving' = [Saving EXCEPT ![s] = Store!Saved]
  BY <1>1, <1>4, OneSaveSeen
<1>6. content'[f].value = value /\ f # NoFile
  BY <1>1, <1>3, FreshAssumption
<1>7. dir'[id] = f /\ \A i \in Ids : i # id => dir'[i] = dir[i]
  BY <1>1, <1>3, FreshAssumption DEF IInv, TypeOK, Names
<1> HIDE DEF f, id, value
<1>8. StoredRecords' = [StoredRecords EXCEPT ![id] = value]
  <2>1. StoredRecords'[id] = value
    <3>1. dir'[id] # NoFile /\ content'[dir'[id]].value = value
      BY <1>6, <1>7
    <3> QED
      BY <1>3, <3>1 DEF StoredRecords
  <2>2. \A i \in Ids : i # id => StoredRecords'[i] = StoredRecords[i]
    <3> SUFFICES ASSUME NEW i \in Ids, i # id PROVE StoredRecords'[i] = StoredRecords[i]
      OBVIOUS
    <3>1. dir'[i] = dir[i] /\ content' = content
      BY <1>1, <1>7
    <3> QED
      BY <3>1 DEF StoredRecords
  <2> QED
    BY <1>3, <2>1, <2>2 DEF StoredRecords
<1>9. Getting' = Getting
  BY <1>1, <1>2 DEF Getting, GetSeen, Decodes
<1> QED
  BY <1>3, <1>4, <1>5, <1>8, <1>9 DEF Store!CommitSave, Saving, Getting

LEMMA ReturnSaveRefines ==
  ASSUME IInv, NEW s \in Savers, ReturnSave(s)
  PROVE  Store!ReturnSave(s)
<1>1. /\ Saves(s) /\ sv[s].pc = "return" /\ sv'[s] = SaverIdle /\ content' = content
      /\ dir' = IF sv[s].temp = NoFile THEN dir ELSE [dir EXCEPT ![sv[s].temp] = NoFile]
  BY ReturnSaveEffect DEF IInv
<1>2. /\ sv[s] \in SaverStates /\ rd' = rd /\ sv[s].temp \in Files \cup {NoFile}
      /\ sv'[s] \in SaverStates /\ sv'[s].pc = "idle"
  BY <1>1, SaverTypes, SaverFields, IdleSaver DEF IInv, Saves
<1>3. Saving[s] \in {Store!Saved, Store!Failed} /\ SaveSeen(sv'[s]) = Store!Quiet
  BY <1>1, <1>2, SaverPcs DEF Saving
<1>4. Saving' = [Saving EXCEPT ![s] = Store!Quiet]
  BY <1>1, <1>3, OneSaveSeen
<1>5. \A i \in Ids : dir'[i] = dir[i]
  BY <1>1, <1>2, FreshAssumption DEF IInv, TypeOK, Names
<1>6. UNCHANGED <<StoredRecords, Getting>>
  BY <1>1, <1>2, <1>5, FilesSettled
<1> QED
  BY <1>3, <1>4, <1>6 DEF Store!ReturnSave, Saving, Getting

LEMMA SaveRefines ==
  ASSUME IInv, NEW s \in Savers, BeginSave(s) \/ SaveStep(s)
  PROVE  SavesSeen(s)
<1>1. CASE Prepare(s) \/ CreateTemp(s) \/ Encode(s) \/ Close(s)
  BY <1>1, PendingRefines DEF SavesSeen
<1>2. CASE \/ PrepareFails(s) \/ CreateTempFails(s) \/ EncodeFails(s)
           \/ CloseFails(s) \/ RenameFails(s)
  <2>1. PICK from \in {"prepare", "create", "encode", "close", "rename"} : GiveUp(s, from)
    BY <1>2
    DEF PrepareFails, CreateTempFails, EncodeFails, CloseFails, RenameFails
  <2> QED
    BY <2>1, FailureRefines DEF SavesSeen
<1>3. CASE BeginSave(s)
  BY <1>3, BeginSaveRefines DEF SavesSeen
<1>4. CASE Rename(s)
  BY <1>4, RenameRefines DEF SavesSeen
<1>5. CASE ReturnSave(s)
  BY <1>5, ReturnSaveRefines DEF SavesSeen
<1> QED
  BY <1>1, <1>2, <1>3, <1>4, <1>5 DEF SaveStep

LEMMA OneGetSeen ==
  ASSUME NEW r \in Readers, Reads(r)
  PROVE  /\ Getting' = [Getting EXCEPT ![r] = GetSeen(rd[r])']
         /\ UNCHANGED <<StoredRecords, Saving>>
<1>1. UNCHANGED <<dir, content, sv>>
  BY DEF Reads
<1>2. ASSUME NEW q \in Readers, q # r PROVE GetSeen(rd[q])' = GetSeen(rd[q])
  <2>1. rd'[q] = rd[q]
    BY <1>2 DEF Reads
  <2> QED
    BY <1>1, <2>1 DEF GetSeen, Decodes
<1>3. Getting' = [Getting EXCEPT ![r] = GetSeen(rd[r])']
  BY <1>2 DEF Getting
<1> QED
  BY <1>1, <1>3 DEF StoredRecords, Saving

\* What no Get can notice: the reader lists, or answers with what it had opened.
LEMMA UnseenRead ==
  ASSUME NEW r \in Readers, Reads(r), GetSeen(rd[r])' = GetSeen(rd[r])
  PROVE  UNCHANGED <<StoredRecords, Saving, Getting>>
  BY OneGetSeen DEF Getting

\* A step of a reader, as RecordStore sees it.
ReadsSeen(r) ==
  \/ Store!BeginGet(r) \/ Store!AnswerGet(r) \/ Store!FailGet(r) \/ Store!ReturnGet(r)
  \/ UNCHANGED <<StoredRecords, Saving, Getting>>

LEMMA ListUnseen ==
  ASSUME NEW r \in Readers, Reads(r), rd[r].list \/ rd[r].pc = "idle",
         rd'[r].list \/ rd'[r].pc = "idle"
  PROVE  ReadsSeen(r)
<1>1. GetSeen(rd[r]) = Store!Quiet /\ GetSeen(rd[r])' = Store!Quiet
  BY DEF GetSeen, Store!Quiet
<1> QED
  BY <1>1, UnseenRead DEF ReadsSeen

LEMMA BeginGetRefines ==
  ASSUME IInv, NEW r \in Readers, BeginGet(r)
  PROVE  Store!BeginGet(r)
<1>1. /\ Reads(r) /\ rd[r].pc = "idle"
      /\ rd'[r].pc = "open" /\ rd'[r].list = FALSE /\ rd'[r].name \in Ids
  BY BeginGetEffect DEF IInv
<1>2. Getting[r] = Store!Quiet
  BY <1>1 DEF Getting, GetSeen, Store!Quiet
<1>3. GetSeen(rd[r])' = Store!Asking(rd'[r].name)
  BY <1>1 DEF GetSeen, Store!Asking
<1> QED
  BY <1>1, <1>2, <1>3, OneGetSeen DEF Store!BeginGet, Saving, Getting

\* A Get that has just opened its record's file, or found none, has its answer.
LEMMA AnswerRefines ==
  ASSUME IInv, NEW r \in Readers, ~rd[r].list, OpenMissing(r) \/ Open(r)
  PROVE  Store!AnswerGet(r)
<1> DEFINE id == rd[r].name
<1>1. rd[r].pc = "open" /\ ReaderOK(r)
  BY DEF OpenMissing, Open, IInv, ReadersInv
<1>2. id \in Ids /\ id \in Names
  BY <1>1 DEF ReaderOK, Names
<1>3. Reads(r)
  BY <1>2, OpenMissingEffect, OpenEffect DEF IInv
<1>4. Getting[r] = Store!Asking(id)
  BY <1>1 DEF Getting, GetSeen, Store!Asking
<1>5. GetSeen(rd[r])' = Store!Answered(id, StoredRecords[id])
  <2>1. CASE OpenMissing(r)
    <3>1. /\ dir[id] = NoFile
          /\ rd'[r] = Read(rd[r], "return", id, rd[r].file, rd[r].todo, rd[r].listed,
                           IF rd[r].list THEN Broken ELSE NoValue)
      BY <2>1, OpenMissingEffect DEF IInv
    <3>2. /\ rd'[r].pc = "return" /\ rd'[r].list = rd[r].list /\ rd'[r].name = id
          /\ rd'[r].answer = NoValue
      BY <3>1 DEF Read
    <3>3. GetSeen(rd[r])' = Store!Answered(id, NoValue)
      BY <3>2 DEF GetSeen, Answer, Store!Answered
    <3> QED
      BY <1>2, <3>1, <3>3 DEF StoredRecords
  <2>2. CASE Open(r)
    <3>1. /\ dir[id] # NoFile
          /\ rd'[r] = Read(rd[r], "decode", id, dir[id], rd[r].todo, rd[r].listed,
                           rd[r].answer)
      BY <1>2, <2>2, OpenEffect DEF IInv
    <3>2. /\ rd'[r].pc = "decode" /\ rd'[r].list = rd[r].list /\ rd'[r].name = id
          /\ rd'[r].file = dir[id] /\ content' = content
      BY <1>3, <3>1 DEF Read, Reads
    <3>3. PICK v \in Valid : content[dir[id]] = [id |-> id, value |-> v]
      BY <1>2, <3>1 DEF IInv, PublishedWhole
    <3>4. content[dir[id]] # Torn /\ content[dir[id]].value = v /\ v \in Valid
      BY <1>2, <3>3, FreshAssumption, ValidAssumption
    <3>5. Decodes(rd[r].file)' /\ content'[rd'[r].file].value = v
      BY <3>2, <3>4 DEF Decodes
    <3>6. GetSeen(rd[r])' = Store!Answered(id, v)
      BY <3>2, <3>5 DEF GetSeen, Answer, Store!Answered
    <3> QED
      BY <1>2, <3>1, <3>4, <3>6 DEF StoredRecords
  <2> QED
    BY <2>1, <2>2
<1> QED
  BY <1>2, <1>3, <1>4, <1>5, OneGetSeen DEF Store!AnswerGet, Saving, Getting

LEMMA DecodeRefines ==
  ASSUME IInv, NEW r \in Readers, ~rd[r].list, Decode(r) \/ DecodeFails(r)
  PROVE  UNCHANGED <<StoredRecords, Saving, Getting>>
<1>1. rd[r].pc = "decode" /\ ReaderOK(r) /\ TypeOK
  BY DEF Decode, DecodeFails, IInv, ReadersInv
<1>2. rd[r].file \in Files /\ Undisturbed(r) /\ rd[r].name \in Names
  BY <1>1, NameKnown DEF ReaderOK, Undisturbed
<1>3. Decodes(rd[r].file)
  BY <1>1, <1>2, FinishedDecodes
<1>4. Decode(r)
  BY <1>3 DEF DecodeFails
<1>5. /\ Reads(r)
      /\ rd'[r] = Read(rd[r], "return", rd[r].name, NoFile, rd[r].todo,
                       rd[r].listed, content[rd[r].file].value)
  BY <1>1, <1>2, <1>4, DecodeEffect
<1>6. /\ rd'[r].pc = "return" /\ rd'[r].list = rd[r].list /\ rd'[r].name = rd[r].name
      /\ rd'[r].answer = content[rd[r].file].value
  BY <1>5 DEF Read
<1>7. GetSeen(rd[r]) = Answer(rd[r].name, content[rd[r].file].value)
  BY <1>1, <1>3 DEF GetSeen
<1>8. GetSeen(rd[r])' = Answer(rd[r].name, content[rd[r].file].value)
  BY <1>6 DEF GetSeen, Answer
<1> QED
  BY <1>5, <1>7, <1>8, UnseenRead

\* A Get on its way, with its answer or without, is failed by the file system.
LEMMA FailGetRefines ==
  ASSUME IInv, NEW r \in Readers, ~rd[r].list, ReadFails(r)
  PROVE  Store!FailGet(r)
<1>1. /\ Reads(r) /\ rd[r].pc \in {"open", "decode"}
      /\ rd'[r] = Read(rd[r], "failed", rd[r].name, NoFile, rd[r].todo,
                       rd[r].listed, rd[r].answer)
  BY ReadFailsEffect DEF IInv
<1>2. rd'[r].pc = "failed" /\ rd'[r].list = rd[r].list
  BY <1>1 DEF Read
<1>3. GetSeen(rd[r]).state \in {"asking", "answered"}
  BY <1>1 DEF GetSeen, Answer
<1>4. Getting[r] \notin {Store!Quiet, Store!Unread}
  BY <1>3 DEF Getting, Store!Quiet, Store!Unread
<1>5. GetSeen(rd[r])' = Store!Unread
  BY <1>2 DEF GetSeen, Store!Unread
<1> QED
  BY <1>1, <1>4, <1>5, OneGetSeen DEF Store!FailGet, Saving, Getting

LEMMA ReturnGetRefines ==
  ASSUME IInv, NEW r \in Readers, ~rd[r].list, ReturnRead(r)
  PROVE  Store!ReturnGet(r)
<1>1. Reads(r) /\ rd[r].pc \in {"return", "failed"} /\ rd'[r].pc = "idle"
  BY ReturnReadEffect, IdleReader DEF IInv
<1>2. GetSeen(rd[r]).state \in {"answered", "unread"}
  BY <1>1 DEF GetSeen, Answer
<1>3. Getting[r] # Store!Quiet
  BY <1>2 DEF Getting, Store!Quiet
<1>4. GetSeen(rd[r])' = Store!Quiet
  BY <1>1 DEF GetSeen, Store!Quiet
<1> QED
  BY <1>1, <1>3, <1>4, OneGetSeen DEF Store!ReturnGet, Saving, Getting

LEMMA ReadKeepsList ==
  ASSUME NEW q, NEW p, NEW n, NEW f, NEW t, NEW l, NEW a
  PROVE  Read(q, p, n, f, t, l, a).list = q.list
  BY DEF Read

LEMMA ReadRefines ==
  ASSUME IInv, NEW r \in Readers,
         BeginGet(r) \/ BeginList(r) \/ ListFails(r) \/ ReadStep(r)
  PROVE  ReadsSeen(r)
<1>1. ReaderOK(r) /\ TypeOK /\ rd[r].list \in BOOLEAN
  BY ReaderTypes, ReaderFields DEF IInv, ReadersInv
<1>2. CASE BeginGet(r)
  BY <1>2, BeginGetRefines DEF ReadsSeen
<1>3. CASE BeginList(r)
  BY <1>1, <1>3, BeginListEffect, ListUnseen
<1>4. CASE NextEntry(r)
  <2>1. Reads(r) /\ rd[r].list
    BY <1>1, <1>4, NextEntryEffect DEF ReaderOK
  <2>2. PICK n \in rd[r].todo :
          rd'[r] = Read(rd[r], "open", n, rd[r].file, rd[r].todo \ {n},
                        rd[r].listed, rd[r].answer)
    BY <1>1, <1>4, NextEntryEffect
  <2>3. rd'[r].list = rd[r].list
    BY <2>2 DEF Read
  <2> QED
    BY <2>1, <2>3, ListUnseen
<1>5. CASE ListDone(r)
  <2>1. Reads(r) /\ rd[r].list /\ rd'[r].list = rd[r].list
    BY <1>1, <1>5, ListDoneEffect, ReadKeepsList DEF ReaderOK
  <2> QED
    BY <2>1, ListUnseen
<1>6. CASE OpenMissing(r)
  <2>1. Reads(r) /\ rd'[r].list = rd[r].list
    BY <1>1, <1>6, OpenMissingEffect, ReadKeepsList
  <2> QED
    BY <1>1, <1>6, <2>1, ListUnseen, AnswerRefines DEF ReadsSeen
<1>7. CASE Open(r)
  <2>1. Reads(r) /\ rd'[r].list = rd[r].list
    <3>1. rd[r].name \in Names
      BY <1>7, NameKnown DEF Open
    <3> QED
      BY <1>1, <1>7, <3>1, OpenEffect, ReadKeepsList
  <2> QED
    BY <1>1, <1>7, <2>1, ListUnseen, AnswerRefines DEF ReadsSeen
<1>8. CASE Decode(r)
  <2>1. Reads(r) /\ (rd[r].list => rd'[r].list)
    <3>1. rd[r].name \in Names /\ rd[r].file \in Files
      BY <1>1, <1>8, NameKnown DEF Decode, ReaderOK
    <3>2. rd[r].list =>
            rd'[r] = Read(rd[r], "next", rd[r].name, NoFile, rd[r].todo,
                          rd[r].listed \cup {<<rd[r].name, content[rd[r].file]>>}, NoValue)
      BY <1>1, <1>8, <3>1, DecodeEffect
    <3>3. rd[r].list => rd'[r].list
      BY <3>2 DEF Read
    <3> QED
      BY <1>1, <1>8, <3>1, <3>3, DecodeEffect
  <2> QED
    BY <1>1, <1>8, <2>1, ListUnseen, DecodeRefines DEF ReadsSeen
<1>9. CASE DecodeFails(r)
  <2>1. Reads(r) /\ rd'[r].list = rd[r].list
    BY <1>1, <1>9, DecodeFailsEffect, ReadKeepsList
  <2> QED
    BY <1>1, <1>9, <2>1, ListUnseen, DecodeRefines DEF ReadsSeen
<1>10. CASE ListFails(r)
  BY <1>1, <1>10, ListFailsEffect, ListUnseen
<1>11. CASE ReadFails(r)
  <2>1. Reads(r) /\ rd'[r].list = rd[r].list
    BY <1>1, <1>11, ReadFailsEffect, ReadKeepsList
  <2> QED
    BY <1>1, <1>11, <2>1, ListUnseen, FailGetRefines DEF ReadsSeen
<1>12. CASE ReturnRead(r)
  <2>1. Reads(r) /\ rd'[r].pc = "idle"
    BY <1>1, <1>12, ReturnReadEffect, IdleReader
  <2> QED
    BY <1>1, <1>12, <2>1, ListUnseen, ReturnGetRefines DEF ReadsSeen
<1> QED
  BY <1>2, <1>3, <1>4, <1>5, <1>6, <1>7, <1>8, <1>9, <1>10, <1>11, <1>12 DEF ReadStep

LEMMA NextRefines ==
  ASSUME IInv, [Next]_vars
  PROVE  [Store!Next]_(Store!storeVars)
<1> SUFFICES Store!Next \/ UNCHANGED <<StoredRecords, Saving, Getting>>
  BY DEF Store!storeVars, Saving, Getting
<1>1. ASSUME NEW s \in Savers, BeginSave(s) \/ SaveStep(s)
      PROVE  Store!Next \/ UNCHANGED <<StoredRecords, Saving, Getting>>
  BY <1>1, SaveRefines DEF SavesSeen, Store!Next
<1>2. ASSUME NEW r \in Readers, BeginGet(r) \/ BeginList(r) \/ ListFails(r) \/ ReadStep(r)
      PROVE  Store!Next \/ UNCHANGED <<StoredRecords, Saving, Getting>>
  BY <1>2, ReadRefines DEF ReadsSeen, Store!Next
<1>3. CASE Crash
  <2>1. Saving' = [s \in Savers |-> Store!Quiet]
    BY <1>3, IdleSaver DEF Crash, Saving, SaveSeen, Store!Quiet
  <2>2. Getting' = [r \in Readers |-> Store!Quiet]
    BY <1>3, IdleReader DEF Crash, Getting, GetSeen, Store!Quiet
  <2>3. StoredRecords' = StoredRecords
    BY <1>3 DEF Crash, StoredRecords
  <2> QED
    BY <2>1, <2>2, <2>3 DEF Store!Next, Store!Crash, Saving, Getting
<1>4. CASE UNCHANGED vars
  BY <1>4 DEF vars, StoredRecords, Saving, Getting, GetSeen, Decodes
<1> QED
  BY <1>1, <1>2, <1>3, <1>4 DEF Next

LEMMA InitRefines == Init => Store!Init
<1> SUFFICES ASSUME Init PROVE Store!Init
  OBVIOUS
<1>1. StoredRecords \in [Ids -> Values \cup {NoValue}]
  <2> SUFFICES ASSUME NEW i \in Ids, dir[i] # NoFile
               PROVE  content[dir[i]].value \in Values
    BY DEF StoredRecords
  <2>1. PICK v \in Valid : content[dir[i]] = [id |-> i, value |-> v]
    BY DEF Init
  <2> QED
    BY <2>1, ValidAssumption
<1>2. Saving = [s \in Savers |-> Store!Quiet] /\ Getting = [r \in Readers |-> Store!Quiet]
  BY DEF Init, Saving, Getting, SaveSeen, GetSeen, SaverIdle, ReaderIdle, Store!Quiet
<1> QED
  BY <1>1, <1>2 DEF Store!Init, Saving, Getting

\* Save and Get are atomic: the files implement RecordStore, where a Save takes
\* effect in one step or fails without effect, and a Get answers with the record
\* of one instant (saveJSONRecord, getJSONRecord, WriteAtomic).
THEOREM Refinement == Spec => ImplementsRecordStore
  BY InitRefines, Invariance, NextRefines, PTL
  DEF Spec, ImplementsRecordStore, Store!Spec
=============================================================================
