----------------------------- MODULE AtomicFile -----------------------------
(***************************************************************************)
(* What a snapshot file promises, whoever writes it: it holds one of the   *)
(* values saved, whole, and is replaced in one step; a power failure may   *)
(* bring back an older value, but none from before the last replacement    *)
(* that was confirmed.  SnapshotFile.tla implements this.                  *)
(***************************************************************************)
CONSTANTS
  Values,  \* what is saved
  Absent   \* there is no file

VARIABLES
  file,  \* what reading the file gives
  older  \* what reading it may give after a power failure

Init == file = Absent /\ older = {Absent}

Replace(v) == file' = v /\ older' = older \cup {v}

Confirm == older' = {file} /\ UNCHANGED file

PowerFailure ==
  \E v \in older : file' = v /\ older' = {v}

Next == (\E v \in Values : Replace(v)) \/ Confirm \/ PowerFailure

Spec == Init /\ [][Next]_<<file, older>>
=============================================================================
