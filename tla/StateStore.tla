----------------------------- MODULE StateStore -----------------------------
(***************************************************************************)
(* CouncilStateStore (persistence.rs): one named JSON file replaced by     *)
(* writing a private temporary file, flushing it, renaming it over the     *)
(* state file and flushing the directory.  Several runtimes may save at    *)
(* once, any system call may fail, and power may be lost between any two   *)
(* calls.                                                                  *)
(*                                                                         *)
(* The file system is outside the repository and is modelled from how the  *)
(* code uses it: unflushed data may be lost (Torn) at a crash, and a       *)
(* rename may or may not survive until the directory is flushed.           *)
(* Permission bits, symbolic links and the size limit only make a call     *)
(* fail.                                                                   *)
(***************************************************************************)
EXTENDS Integers, Sequences

CONSTANTS
  Saver,       \* the calls of save under way
  Torn,        \* a file whose data never reached the disk
  MaxSaves     \* bound of the run: the values saved are 1..MaxSaves

ASSUME StoreAssumption == MaxSaves \in Nat /\ Torn \notin Nat

VARIABLES
  started,     \* values handed to save so far: the n-th call saves n
  pc,          \* where each call is
  value,       \* the value it saves
  temporary,   \* its temporary file: [there, synced]
  renames,     \* the states renamed over the file since the directory was
               \* flushed, oldest first: records [value, synced]
  durable,     \* the state that a crash cannot take away
  order,       \* history: every value ever visible, in order
  acked,       \* history: the newest place in `order' reported Ok
  floor        \* history: the place in `order' that `durable' stands for

vars == <<started, pc, value, temporary, renames, durable, order, acked, floor>>

Nowhere == [there |-> FALSE, synced |-> FALSE]

\* No file: what load reports as None.
NoState == [value |-> 0, synced |-> TRUE]

Init ==
  /\ started = 0
  /\ pc = [s \in Saver |-> "idle"]
  /\ value = [s \in Saver |-> 0]
  /\ temporary = [s \in Saver |-> Nowhere]
  /\ renames = <<>>
  /\ durable = NoState
  /\ order = <<>>
  /\ acked = 0
  /\ floor = 0

\* What `load' reads: the last rename, flushed or not.
Visible == IF renames = <<>> THEN durable ELSE renames[Len(renames)]

\* save: encode the value and create a temporary file with a fresh name.
Create(s) ==
  /\ pc[s] = "idle"
  /\ started < MaxSaves
  /\ started' = started + 1
  /\ value' = [value EXCEPT ![s] = started + 1]
  /\ temporary' = [temporary EXCEPT ![s] = [there |-> TRUE, synced |-> FALSE]]
  /\ pc' = [pc EXCEPT ![s] = "write"]
  /\ UNCHANGED <<renames, durable, order, acked, floor>>

\* Seeded fault: the temporary file is not flushed.
FlushedNever(s) == temporary

\* The temporary files once `s' has flushed its own.
Flushed(s) == [temporary EXCEPT ![s].synced = TRUE]

\* write_all and sync_all.
Write(s) ==
  /\ pc[s] = "write"
  /\ temporary' = Flushed(s)
  /\ pc' = [pc EXCEPT ![s] = "rename"]
  /\ UNCHANGED <<started, value, renames, durable, order, acked, floor>>

\* fs::rename: the new state is visible at once.
Rename(s) ==
  /\ pc[s] = "rename"
  /\ renames' = Append(renames, [value |-> value[s],
                                 synced |-> temporary[s].synced])
  /\ order' = Append(order, value[s])
  /\ temporary' = [temporary EXCEPT ![s] = Nowhere]
  /\ pc' = [pc EXCEPT ![s] = "sync"]
  /\ UNCHANGED <<started, value, durable, acked, floor>>

\* Seeded fault: the directory is not flushed before Ok.
SyncDirectoryNever == UNCHANGED <<renames, durable, floor>>

\* sync_directory: every rename so far is on disk.
SyncDirectory ==
  /\ renames' = <<>>
  /\ durable' = Visible
  /\ floor' = Len(order)

\* The place in `order' of the value a call renamed.
PlaceOf(s) == CHOOSE k \in DOMAIN order : order[k] = value[s]

\* restrict_path, sync_directory and Ok.
Finish(s) ==
  /\ pc[s] = "sync"
  /\ SyncDirectory
  /\ acked' = IF PlaceOf(s) > acked THEN PlaceOf(s) ELSE acked
  /\ pc' = [pc EXCEPT ![s] = "idle"]
  /\ UNCHANGED <<started, value, temporary, order>>

\* A system call fails: the temporary file, if it still has its name, is
\* removed and the caller gets an error.  After the rename the new state
\* stays visible all the same.
Fail(s) ==
  /\ pc[s] # "idle"
  /\ temporary' = [temporary EXCEPT ![s] = Nowhere]
  /\ pc' = [pc EXCEPT ![s] = "idle"]
  /\ UNCHANGED <<started, value, renames, durable, order, acked, floor>>

\* Power is lost.  Some prefix of the unflushed renames survives, and a file
\* that was never flushed comes back torn.  Temporary files may be left over
\* and are never read.
Crash ==
  /\ \E k \in 0..Len(renames) :
       /\ durable' = IF k = 0 THEN durable
                     ELSE IF renames[k].synced THEN renames[k]
                     ELSE [value |-> Torn, synced |-> TRUE]
       /\ floor' = floor + k
       /\ order' = SubSeq(order, 1, floor + k)
  /\ renames' = <<>>
  /\ pc' = [s \in Saver |-> "idle"]
  /\ temporary' = [s \in Saver |-> Nowhere]
  /\ UNCHANGED <<started, value, acked>>

Next ==
  \/ \E s \in Saver : Create(s) \/ Write(s) \/ Rename(s) \/ Finish(s) \/ Fail(s)
  \/ Crash

Spec == Init /\ [][Next]_vars

-----------------------------------------------------------------------------
(* Properties. *)

\* A restart never reads half a state: whatever call fails and whenever power
\* is lost, the file holds one saved value or does not exist.
NeverTorn == durable.value # Torn

\* Once save has answered Ok, no crash brings back an older state: what a
\* restart reads is that value or one renamed after it, even when several
\* saves overlap.
OkIsDurable == floor >= acked

\* The two together: whenever power is lost, a restart reads a whole state, and
\* none older than what a caller was told is saved.
DurableState == NeverTorn /\ OkIsDurable
=============================================================================
