-------------------------- MODULE GuardHooksPower --------------------------
(***************************************************************************)
(* The hooks of GuardHooks on a machine that may lose power.               *)
(*                                                                         *)
(* saveApprovalState (approval_state.go) renames a file that it has not    *)
(* synced.  Until the system has written it back, a failure may leave      *)
(* behind the name of an older file, the new file, or the new name on a    *)
(* file without contents, which loadApprovalState reads as an empty state. *)
(* Codex sessions and what hooks have said outlive the failure; processes  *)
(* and their locks do not.                                                 *)
(***************************************************************************)
EXTENDS GuardHooks

CONSTANT MaxFailures  \* bound of the power failures

ASSUME FailuresAssumption == MaxFailures \in Nat

VARIABLES
  disk,      \* the states that may be read after a failure now
  failures,  \* failures so far
  recent,    \* history: hooks that have saved since the last failure
  durable    \* history: hooks whose save had been written back

powerVars == <<vars, disk, failures, recent, durable>>

\* Variant: a rename leaves the empty file or what was there before.
OnlyTheOld(state) == {EmptyState}

\* What a rename adds to what was there before.
MaySurvive(state) == {state, EmptyState}

PowerTypeOK ==
  /\ TypeOK
  /\ disk \subseteq State
  /\ file \in disk
  /\ failures \in 0..MaxFailures
  /\ durable \subseteq Hooks
  /\ recent \subseteq Hooks

PowerInit ==
  /\ Init
  /\ disk = {EmptyState}
  /\ failures = 0
  /\ recent = {}
  /\ durable = {}

\* A step of GuardHooks; a rename adds to what may survive.
HookStep ==
  /\ \E p \in Hooks : Begin(p) \/ Run(p) \/ Kill(p)
  /\ disk' = IF file' = file THEN disk ELSE disk \cup MaySurvive(file')
  /\ recent' = recent \cup {p \in Hooks : ~saved[p] /\ saved'[p]}
  /\ UNCHANGED <<failures, durable>>

\* The system writes its buffers and its journal back.
WriteBack ==
  /\ disk # {file} \/ ~(recent \subseteq durable)
  /\ disk' = {file}
  /\ durable' = durable \cup recent
  /\ UNCHANGED <<vars, failures, recent>>

PowerFails ==
  /\ failures < MaxFailures
  /\ failures' = failures + 1
  /\ file' \in disk
  /\ disk' = {file'}
  /\ recent' = {}
  /\ pc' = [p \in Hooks |-> IF pc[p] \in Ended \cup {"new"} THEN pc[p] ELSE "killed"]
  /\ lock' = NoHook
  /\ mem' = [p \in Hooks |-> EmptyState]
  /\ UNCHANGED <<clock, req, op, stamp, took, saved, reply, durable>>

PowerNext ==
  \/ HookStep
  \/ WriteBack
  \/ PowerFails
  \/ Tick /\ UNCHANGED <<disk, failures, recent, durable>>
  \/ Finished /\ UNCHANGED <<disk, failures, recent, durable>>

PowerSpec == PowerInit /\ [][PowerNext]_powerVars

-----------------------------------------------------------------------------
(* Properties.                                                             *)

\* What is taken and written back is taken for good: an entry whose removal
\* has reached the disk is in no state that any later failure can bring
\* back, through any hook that works on an older state.
TakenForGood ==
  \A p \in durable :
     took[p] # NoEntry =>
       \A state \in disk, k \in Keys :
          /\ state.pending[k] # NoEntry => state.pending[k].by # took[p].by
          /\ state.approved[k] # NoEntry => state.approved[k].by # took[p].by

\* A failure loses entries or brings old ones back, and makes none: an
\* approval that can be read was given by the user for a command that was
\* blocked in that session, and it lives no longer than TTL from then.
ApprovalsAreReal ==
  \A state \in disk, k \in Keys :
     LET entry == state.approved[k] IN
     entry # NoEntry =>
       /\ op[entry.by] = "approve"
       /\ took[entry.by] # NoEntry
       /\ took[entry.by].command = entry.command
       /\ op[took[entry.by].by] = "record"
       /\ ReqKey(took[entry.by].by) = k
       /\ entry.expires <= stamp[entry.by] + TTL

=============================================================================
