---------------------------- MODULE SnapshotFile ----------------------------
(***************************************************************************)
(* atomicWriteFile (internal/state/snapshot.go), one step per system call  *)
(* that matters, and the file system it relies on: a write may stay in     *)
(* memory until the file is synced, a rename until the directory is.  Each *)
(* of the calls that return an error may fail, and the directory's sync.   *)
(*                                                                         *)
(* Left out: permissions and names, and a deferred Remove that itself      *)
(* fails.  A value is what SaveSnapshot encoded.                           *)
(***************************************************************************)
EXTENDS Integers

CONSTANTS
  Values,  \* what is saved
  Absent,  \* there is no file
  Torn     \* what a file holds that was not written to its end

ASSUME SnapshotFileAssumption == Absent \notin Values /\ Torn \notin Values

VARIABLES
  content,    \* the file at the snapshot's path
  survivors,  \* what that file may be after a power failure
  step,       \* where atomicWriteFile is
  data,       \* its argument
  temp,       \* the temporary file's contents, Absent if there is none
  synced,     \* whether the temporary file is on disk
  saveErr,    \* whether the last call returned an error
  litter,     \* temporary files that no process will remove
  confirmed   \* history: the value of the last save whose directory was synced

disk == <<content, survivors, litter, confirmed>>
call == <<step, data, temp, synced, saveErr>>
fileVars == <<disk, call>>

FileTypeOK ==
  /\ content \in Values \cup {Absent}
  /\ survivors \subseteq Values \cup {Absent}
  /\ content \in survivors
  /\ step \in {"idle", "create", "write", "sync", "rename", "syncDir", "remove"}
  /\ data \in Values \cup {Absent}
  /\ temp \in Values \cup {Absent, Torn}
  /\ synced \in BOOLEAN
  /\ saveErr \in BOOLEAN
  /\ litter \in Nat
  /\ confirmed \in Values \cup {Absent}

FileInit ==
  /\ content = Absent /\ survivors = {Absent}
  /\ step = "idle" /\ data = Absent /\ temp = Absent /\ synced = FALSE
  /\ saveErr = FALSE
  /\ litter = 0 /\ confirmed = Absent

-----------------------------------------------------------------------------
\* atomicWriteFile is called with v.
BeginWrite(v) ==
  /\ step = "idle"
  /\ step' = "create"
  /\ data' = v
  /\ saveErr' = FALSE
  /\ UNCHANGED <<disk, temp, synced>>

\* A call that fails returns an error, after the deferred removal.
Fails(from) ==
  /\ step = from
  /\ step' = "remove"
  /\ saveErr' = TRUE
  /\ UNCHANGED <<disk, data, temp, synced>>

\* CreateTemp and Chmod; without a temporary file there is nothing to remove.
CreateTemp ==
  \/ /\ step = "create"
     /\ step' = "write"
     /\ temp' = Torn
     /\ UNCHANGED <<disk, data, synced, saveErr>>
  \/ /\ step = "create"
     /\ step' = "remove"
     /\ temp' \in {Absent, Torn}
     /\ saveErr' = TRUE
     /\ UNCHANGED <<disk, data, synced>>

Write ==
  \/ step = "write" /\ step' = "sync" /\ temp' = data /\ UNCHANGED <<disk, data, synced, saveErr>>
  \/ Fails("write")

\* Mutant: the temporary file is not synced before it is renamed.
SyncSkipped == step = "sync" /\ step' = "rename" /\ UNCHANGED <<disk, data, temp, synced, saveErr>>

\* Sync and Close.
Sync ==
  \/ step = "sync" /\ step' = "rename" /\ synced' = TRUE /\ UNCHANGED <<disk, data, temp, saveErr>>
  \/ Fails("sync")

\* After the rename either name may survive a power failure, and the new one
\* with whatever of the data has reached the disk.
Rename ==
  \/ /\ step = "rename"
     /\ step' = "syncDir"
     /\ content' = temp
     /\ survivors' = survivors \cup (IF synced THEN {temp} ELSE {temp, Torn})
     /\ temp' = Absent
     /\ UNCHANGED <<data, synced, saveErr, litter, confirmed>>
  \/ Fails("rename")

\* Opening and syncing the directory; what fails here is ignored.
SyncDir ==
  /\ step = "syncDir"
  /\ step' = "remove"
  /\ \/ survivors' = {content} /\ confirmed' = content
     \/ UNCHANGED <<survivors, confirmed>>
  /\ UNCHANGED <<content, litter, data, temp, synced, saveErr>>

\* Mutant: there is no deferred removal.
RemoveForgotten ==
  /\ step = "remove"
  /\ step' = "idle"
  /\ litter' = IF temp # Absent THEN litter + 1 ELSE litter
  /\ data' = Absent /\ temp' = Absent /\ synced' = FALSE
  /\ UNCHANGED <<content, survivors, confirmed, saveErr>>

\* The deferred Close and Remove; after the rename there is nothing to remove.
Remove ==
  /\ step = "remove"
  /\ step' = "idle"
  /\ data' = Absent /\ temp' = Absent /\ synced' = FALSE
  /\ UNCHANGED <<disk, saveErr>>

WriteStep ==
  CreateTemp \/ Write \/ Sync \/ Rename \/ SyncDir \/ Remove

-----------------------------------------------------------------------------
\* The writing process is no more: its temporary file stays.
Abandon ==
  /\ step' = "idle"
  /\ data' = Absent /\ temp' = Absent /\ synced' = FALSE
  /\ saveErr' = FALSE
  /\ litter' = IF temp # Absent THEN litter + 1 ELSE litter
  /\ UNCHANGED confirmed

WriterDies == Abandon /\ UNCHANGED <<content, survivors>>

PowerFails ==
  /\ Abandon
  /\ content' \in survivors
  /\ survivors' = {content'}

-----------------------------------------------------------------------------
\* The system calls of atomicWriteFile, their failures, kills and power
\* failures amount to a file that is replaced in one step and never torn.
\* About the order write, sync, rename.
Atomic == INSTANCE AtomicFile WITH file <- content, older <- survivors
=============================================================================
