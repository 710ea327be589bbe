------------------------------ MODULE AuditLog ------------------------------
(***************************************************************************)
(* The audit log of bash-guard (audit.go): hook processes append to        *)
(* bash-guard.jsonl and rotate it.                                         *)
(*                                                                         *)
(* auditMu is a mutex of one process, and a hook process writes one entry, *)
(* so it excludes nobody.  Every call to the file system is a step of its  *)
(* own, and a writer may be killed between two of them: hooks.json gives   *)
(* a hook ten seconds, and the audit comes last.                           *)
(***************************************************************************)
EXTENDS Naturals, FiniteSets

CONSTANTS
  Writers,     \* hook processes, each with one entry to write
  Full,        \* auditMaxBytes, in entries
  Keep,        \* auditKeepFiles
  MaxActive,   \* hooks that Codex runs at a time
  NoFile       \* a name without a file, a closed descriptor

ASSUME AuditAssumption ==
  /\ Full \in Nat \ {0}
  /\ Keep \in Nat \ {0}
  /\ MaxActive \in Nat \ {0}
  /\ NoFile \notin Nat

VARIABLES
  at,     \* where each writer is in writeAudit
  index,  \* the loop variable of rotateIfNeeded; 0 for the current file
  fd,     \* the file a writer has open
  slot,   \* name -> file; name 0 is bash-guard.jsonl, name i its ".i"
  lines,  \* the entries of each file, by writer
  born,   \* the number of files created; a file is its number
  crowded,\* history: two hooks have been in writeAudit at the same time
  failed  \* history: a rename has failed for another reason than a missing file

vars == <<at, index, fd, slot, lines, born, crowded, failed>>

Names == 0..Keep
Working == {"stat", "rename", "open", "append"}

TypeOK ==
  /\ at \in [Writers -> {"idle", "done", "killed"} \cup Working]
  /\ index \in [Writers -> 0..(Keep - 1)]
  /\ fd \in [Writers -> 0..born \cup {NoFile}]
  /\ slot \in [Names -> 1..born \cup {NoFile}]
  /\ lines \in [1..born -> SUBSET Writers]
  /\ born \in Nat
  /\ crowded \in BOOLEAN
  /\ failed \in BOOLEAN

Init ==
  /\ at = [w \in Writers |-> "idle"]
  /\ index = [w \in Writers |-> 0]
  /\ fd = [w \in Writers |-> NoFile]
  /\ slot = [n \in Names |-> NoFile]
  /\ lines = <<>>
  /\ born = 0
  /\ crowded = FALSE
  /\ failed = FALSE

Size(file) == Cardinality(lines[file])

Move(w, from, to) == at[w] = from /\ at' = [at EXCEPT ![w] = to]

Active == {w \in Writers : at[w] \in Working}

\* writeAudit begins; a log directory that cannot be made ends it.
Begin(w) ==
  /\ Cardinality(Active) < MaxActive
  /\ \/ Move(w, "idle", "stat") /\ crowded' = (crowded \/ Active # {})
     \/ Move(w, "idle", "done") /\ UNCHANGED crowded
  /\ UNCHANGED <<index, fd, slot, lines, born, failed>>

\* Variant: only a file that is larger than the limit is rotated.
NeedsRotationLate == slot[0] # NoFile /\ Size(slot[0]) > Full

\* Variant: every hook rotates.
NeedsRotationAlways == slot[0] # NoFile

NeedsRotation == slot[0] # NoFile /\ Size(slot[0]) >= Full

\* Variant: the loop starts one name too far.
StatTooFar(w) ==
  /\ \/ ~NeedsRotation /\ Move(w, "stat", "open") /\ UNCHANGED index
     \/ /\ NeedsRotation
        /\ Move(w, "stat", "rename")
        /\ index' = [index EXCEPT ![w] = Keep]
  /\ UNCHANGED <<fd, slot, lines, born, crowded, failed>>

Stat(w) ==
  /\ \/ ~NeedsRotation /\ Move(w, "stat", "open") /\ UNCHANGED index
     \/ /\ NeedsRotation
        /\ Move(w, "stat", "rename")
        /\ index' = [index EXCEPT ![w] = Keep - 1]
  /\ UNCHANGED <<fd, slot, lines, born, crowded, failed>>

\* Variant: the cascade runs from the newest name to the oldest.
AscendingShift(i) ==
  LET j == (Keep - 1) - i IN
  [slot EXCEPT ![j + 1] = slot[j], ![j] = NoFile]

\* rename(2) replaces the target; a source that is missing is ignored.
Shift(i) ==
  IF slot[i] = NoFile
  THEN slot
  ELSE [slot EXCEPT ![i + 1] = slot[i], ![i] = NoFile]

\* One step of the cascade; the last one moves the current file.  Whatever
\* error rename(2) returns is ignored.
Rename(w) ==
  /\ \/ slot' = Shift(index[w]) /\ UNCHANGED failed
     \/ slot[index[w]] # NoFile /\ UNCHANGED slot /\ failed' = TRUE
  /\ \/ /\ index[w] > 0
        /\ Move(w, "rename", "rename")
        /\ index' = [index EXCEPT ![w] = @ - 1]
     \/ /\ index[w] = 0
        /\ Move(w, "rename", "open")
        /\ UNCHANGED index
  /\ UNCHANGED <<fd, lines, born, crowded>>

\* OpenFile with O_CREATE and O_APPEND; it may fail, and the entry is lost.
Open(w) ==
  \/ /\ slot[0] # NoFile
     /\ Move(w, "open", "append")
     /\ fd' = [fd EXCEPT ![w] = slot[0]]
     /\ UNCHANGED <<index, slot, lines, born, crowded, failed>>
  \/ /\ slot[0] = NoFile
     /\ Move(w, "open", "append")
     /\ born' = born + 1
     /\ slot' = [slot EXCEPT ![0] = born']
     /\ lines' = [f \in 1..born' |-> IF f = born' THEN {} ELSE lines[f]]
     /\ fd' = [fd EXCEPT ![w] = born']
     /\ UNCHANGED <<index, crowded, failed>>
  \/ /\ Move(w, "open", "done")
     /\ UNCHANGED <<index, fd, slot, lines, born, crowded, failed>>

\* One write to the open file, whatever its name is by now.
Append(w) ==
  /\ Move(w, "append", "done")
  /\ lines' = [lines EXCEPT ![fd[w]] = @ \cup {w}]
  /\ fd' = [fd EXCEPT ![w] = NoFile]
  /\ UNCHANGED <<index, slot, born, crowded, failed>>

Kill(w) ==
  /\ at[w] \in Working
  /\ at' = [at EXCEPT ![w] = "killed"]
  /\ fd' = [fd EXCEPT ![w] = NoFile]
  /\ UNCHANGED <<index, slot, lines, born, crowded, failed>>

Finished ==
  /\ \A w \in Writers : at[w] \in {"done", "killed"}
  /\ UNCHANGED vars

Next ==
  \/ \E w \in Writers :
       Begin(w) \/ Stat(w) \/ Rename(w) \/ Open(w) \/ Append(w) \/ Kill(w)
  \/ Finished

Spec == Init /\ [][Next]_vars

-----------------------------------------------------------------------------
(* Properties.                                                             *)

Kept == {slot[n] : n \in Names} \ {NoFile}

\* audit.go keeps auditKeepFiles old files and drops the oldest: as long
\* as hooks run one after the other, killed or not, and no rename has failed,
\* a rename never overwrites a file while an older one is kept.
DropsOldest ==
  [][~crowded /\ ~failed => \A f \in Kept \ Kept' : \A g \in Kept : f <= g]_vars

\* audit.go:15, "10 MB before rotation": only a file that has reached the
\* limit is moved aside, also behind renames that fail.  RotatedAreFull is the
\* claim as it stands, and RotatedAreFullAlone what is left of it: hooks must
\* not overlap.
RotatedAreFull ==
  \A n \in Names \ {0} : slot[n] # NoFile => Size(slot[n]) >= Full

RotatedAreFullAlone == ~crowded => RotatedAreFull

\* However many hooks run at a time, the log does not outgrow its limit by
\* more than the entries of those that had looked at it before it was full,
\* as long as no rename has failed.
SizeBounded ==
  ~failed => \A f \in 1..born : Size(f) < Full + MaxActive

=============================================================================
