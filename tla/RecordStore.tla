----------------------------- MODULE RecordStore -----------------------------
(***************************************************************************)
(* What internal/store promises about one directory of records, seen by    *)
(* its callers (promote, tracelog, run, entry): Save creates or replaces   *)
(* one record in a single indivisible step or not at all, Get answers      *)
(* with the record some instant of the call found, or with an I/O error,   *)
(* and nothing else ever changes a record.  RecordDir, the file-level      *)
(* model, implements this.                                                 *)
(***************************************************************************)

CONSTANTS
  Ids,      \* record ids
  Values,   \* everything a record holds beside its id
  Savers,   \* callers of SaveCapability, SaveProvider, SaveRun, SaveTrace
  Readers,  \* callers of GetCapability, GetProvider, GetRun, GetTrace
  NoValue   \* the record is absent

VARIABLES
  records,  \* [Ids -> Values, or NoValue]
  saving,   \* [Savers -> the Save under way, or Quiet]
  getting   \* [Readers -> the Get under way, or Quiet]

storeVars == <<records, saving, getting>>

Quiet == [state |-> "quiet"]
Pending(id, value) == [state |-> "pending", id |-> id, value |-> value]
Saved == [state |-> "saved"]
Failed == [state |-> "failed"]
Asking(id) == [state |-> "asking", id |-> id]
Answered(id, answer) == [state |-> "answered", id |-> id, answer |-> answer]
Unread == [state |-> "unread"]

Init ==
  /\ records \in [Ids -> Values \cup {NoValue}]
  /\ saving = [s \in Savers |-> Quiet]
  /\ getting = [r \in Readers |-> Quiet]

BeginSave(s) ==
  /\ saving[s] = Quiet
  /\ \E id \in Ids, value \in Values :
       saving' = [saving EXCEPT ![s] = Pending(id, value)]
  /\ UNCHANGED <<records, getting>>

\* The record changes and the Save is decided in one step.
CommitSave(s) ==
  /\ \E id \in Ids, value \in Values :
       /\ saving[s] = Pending(id, value)
       /\ records' = [records EXCEPT ![id] = value]
  /\ saving' = [saving EXCEPT ![s] = Saved]
  /\ UNCHANGED getting

\* The Save will return an error, and leaves every record as it was.
FailSave(s) ==
  /\ \E id \in Ids, value \in Values : saving[s] = Pending(id, value)
  /\ saving' = [saving EXCEPT ![s] = Failed]
  /\ UNCHANGED <<records, getting>>

ReturnSave(s) ==
  /\ saving[s] \in {Saved, Failed}
  /\ saving' = [saving EXCEPT ![s] = Quiet]
  /\ UNCHANGED <<records, getting>>

BeginGet(r) ==
  /\ getting[r] = Quiet
  /\ \E id \in Ids : getting' = [getting EXCEPT ![r] = Asking(id)]
  /\ UNCHANGED <<records, saving>>

AnswerGet(r) ==
  /\ \E id \in Ids :
       /\ getting[r] = Asking(id)
       /\ getting' = [getting EXCEPT ![r] = Answered(id, records[id])]
  /\ UNCHANGED <<records, saving>>

\* The file system fails, before the record is found or while it is read.
FailGet(r) ==
  /\ getting[r] \notin {Quiet, Unread}
  /\ getting' = [getting EXCEPT ![r] = Unread]
  /\ UNCHANGED <<records, saving>>

ReturnGet(r) ==
  /\ getting[r] # Quiet
  /\ getting' = [getting EXCEPT ![r] = Quiet]
  /\ UNCHANGED <<records, saving>>

\* The process dies: every call under way is gone, no record changes.
Crash ==
  /\ saving' = [s \in Savers |-> Quiet]
  /\ getting' = [r \in Readers |-> Quiet]
  /\ UNCHANGED records

Next ==
  \/ \E s \in Savers : 
       BeginSave(s) \/ CommitSave(s) \/ FailSave(s) \/ ReturnSave(s)
  \/ \E r \in Readers : BeginGet(r) \/ AnswerGet(r) \/ FailGet(r) \/ ReturnGet(r)
  \/ Crash

Spec == Init /\ [][Next]_storeVars
==============================================================================
