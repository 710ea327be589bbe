-------------------------- MODULE GuardHooks_proofs --------------------------
(***************************************************************************)
(* Theorems about GuardHooks, for every value of its constants.            *)
(*                                                                         *)
(* First the credit of an approval: no entry is spent twice.  On its       *)
(* invariant CreditInv rest the theorems about the life of an entry and    *)
(* about where an approval comes from, and what becomes of an entry: an    *)
(* announced one is kept, has expired, was taken, or was overwritten by a  *)
(* later one; and a prompt that matches two pending entries approves       *)
(* neither.                                                                *)
(*                                                                         *)
(* Then what the hooks implement, and the two specifications that extend   *)
(* them.  As long as flock works, every step of the hooks is one step of   *)
(* the ledger or none, under the mapping of GuardHooksLedger.  The hooks   *)
(* under the settings of the user are hooks of GuardHooks, so that its     *)
(* theorems hold of them, and a retry that is meant to be live is          *)
(* honoured.  On a machine that may lose power, a failure may bring back   *)
(* any state that was on the disk, so the invariants that tie a hook to    *)
(* the file are stated for every such state; those that say that an entry  *)
(* is gone hold only of what was saved since the last failure, and of      *)
(* what has been written back.                                             *)
(***************************************************************************)
EXTENDS GuardHooksInv, GuardHooksModes, GuardHooksPower, TLAPS

-----------------------------------------------------------------------------
(* The operators on the state of the file keep its type.                   *)

\* The state of a missing file is a state.
LEMMA EmptyStateType == EmptyState \in State
  BY DEF EmptyState, EmptyBook, State, Book

\* An entry written at a second of the clock is an entry.
LEMMA NewEntryType ==
  ASSUME NEW c \in Commands, NEW t \in Nat, NEW p \in Hooks
  PROVE  NewEntry(c, t, p) \in Entry
  BY StateAssumption DEF NewEntry, Entry

\* The key of a request is a key.
LEMMA KeyType ==
  ASSUME NEW s \in Sessions, NEW c \in Commands
  PROVE  KeyOf(s, c) \in Keys
  BY StateAssumption DEF KeyOf, Keys

\* cleanupApprovalState returns a state.
LEMMA CleanupType ==
  ASSUME NEW s \in State, NEW t \in Nat
  PROVE  Cleanup(s, t) \in State
  BY DEF Cleanup, CleanBook, State, Book

\* The closure of recordPending returns a state.
LEMMA WithPendingType ==
  ASSUME NEW s \in State, NEW k \in Keys, NEW e \in Entry
  PROVE  WithPending(s, k, e) \in State
  BY DEF WithPending, State, Book

\* The closure of consumeApproval returns a state.
LEMMA WithoutApprovedType ==
  ASSUME NEW s \in State, NEW k \in Keys
  PROVE  WithoutApproved(s, k) \in State
  BY DEF WithoutApproved, State, Book

\* The closure of approvePrefix returns a state.
LEMMA WithApprovedType ==
  ASSUME NEW s \in State, NEW k \in Keys, NEW t \in Nat, NEW p \in Hooks,
         s.pending[k] # NoEntry
  PROVE  WithApproved(s, k, t, p) \in State
  <1>1. s.pending[k] \in Entry
    BY DEF State, Book
  <1>2. NewEntry(s.pending[k].command, t, p) \in Entry
    BY <1>1, NewEntryType DEF Entry
  <1> QED
    BY <1>2 DEF WithApproved, State, Book

-----------------------------------------------------------------------------
(* Types.                                                                  *)

\* The key a PreToolUse hook works on is a key.
LEMMA ReqKeyType ==
  ASSUME NEW p \in Hooks, req[p] \in PreRequest
  PROVE  ReqKey(p) \in Keys /\ req[p].command \in Commands
  BY KeyType DEF ReqKey, PreRequest

\* What a hook has loaded is a state.
LEMMA LoadedType ==
  ASSUME TypeInv, NEW p \in Hooks
  PROVE  Loaded(p) \in State
  BY CleanupType DEF Loaded, TypeInv, TypeOK

\* A closure leaves a state in memory, and takes an entry or nothing.
LEMMA MutateType ==
  ASSUME TypeInv, NEW p \in Hooks, RecordFn(p) \/ ApproveFn(p) \/ ConsumeFn(p)
  PROVE  /\ mem' \in [Hooks -> State]
         /\ took' \in [Hooks -> Entry \cup {NoEntry}]
  <1> USE DEF TypeInv
  <1>1. stamp[p] \in Nat /\ Loaded(p) \in State
    BY LoadedType DEF TypeOK
  <1>2. CASE RecordFn(p)
    <2>1. ReqKey(p) \in Keys /\ req[p].command \in Commands
      BY <1>2, ReqKeyType DEF RecordFn, Inputs
    <2>2. NewEntry(req[p].command, stamp[p], p) \in Entry
      BY <1>1, <2>1, NewEntryType
    <2>3. WithPending(Loaded(p), ReqKey(p), NewEntry(req[p].command, stamp[p], p)) \in State
      BY <1>1, <2>1, <2>2, WithPendingType
    <2> QED
      BY <1>2, <2>3 DEF RecordFn, TypeOK
  <1>3. CASE ApproveFn(p)
    <2> DEFINE keys == Matches(Loaded(p), req[p].session, req[p].prefix)
    <2>1. CASE \E k \in keys :
                 /\ keys = {k}
                 /\ mem' = [mem EXCEPT ![p] = WithApproved(Loaded(p), k, stamp[p], p)]
                 /\ took' = [took EXCEPT ![p] = Loaded(p).pending[k]]
      <3>1. PICK k \in keys :
                 /\ mem' = [mem EXCEPT ![p] = WithApproved(Loaded(p), k, stamp[p], p)]
                 /\ took' = [took EXCEPT ![p] = Loaded(p).pending[k]]
        BY <2>1
      <3>2. req[p] \in PromptRequest
        BY <1>3 DEF ApproveFn, Inputs
      <3>3. k \in Keys /\ Loaded(p).pending[k] # NoEntry
        BY <3>2, StateAssumption DEF Matches, Keys, PromptRequest
      <3>4. WithApproved(Loaded(p), k, stamp[p], p) \in State
        BY <1>1, <3>3, WithApprovedType
      <3>5. Loaded(p).pending[k] \in Entry
        BY <1>1, <3>3 DEF State, Book
      <3> QED
        BY <3>1, <3>4, <3>5 DEF TypeOK
    <2>2. CASE mem' = [mem EXCEPT ![p] = Loaded(p)] /\ UNCHANGED took
      BY <2>2, <1>1 DEF TypeOK
    <2> QED
      BY <1>3, <2>1, <2>2 DEF ApproveFn
  <1>4. CASE ConsumeFn(p)
    <2> DEFINE entry == Loaded(p).approved[ReqKey(p)]
    <2>1. ReqKey(p) \in Keys
      BY <1>4, ReqKeyType DEF ConsumeFn, Inputs
    <2>2. entry \in Entry \cup {NoEntry} /\ WithoutApproved(Loaded(p), ReqKey(p)) \in State
      BY <1>1, <2>1, WithoutApprovedType DEF State, Book
    <2> QED
      BY <1>1, <1>4, <2>2 DEF ConsumeFn, TypeOK
  <1> QED
    BY <1>2, <1>3, <1>4

\* The initial state is well typed.
LEMMA TypeInit == Init => TypeInv
  BY EmptyStateType DEF Init, TypeInv, TypeOK, Inputs, Steps

\* Every step of every hook keeps the types.
LEMMA TypeNext == TypeInv /\ [Next]_vars => TypeInv'
  <1> SUFFICES ASSUME TypeInv, [Next]_vars PROVE TypeInv'
    OBVIOUS
  <1> USE DEF TypeInv, Goto, Local, Steps, Inside, Ended
  <1>1. ASSUME NEW p \in Hooks, Ignore(p) \/ Malformed(p) PROVE TypeInv'
    BY <1>1 DEF Ignore, Malformed, TypeOK, Inputs
  <1>2. ASSUME NEW p \in Hooks, NEW s \in Sessions, NEW c \in Commands, NEW m \in Modes,
               StartPre(p, s, c, m)
        PROVE  TypeInv'
    <2>1. [session |-> s, command |-> c, mode |-> m] \in PreRequest
      BY DEF PreRequest
    <2>2. pc[p] = "new" /\ \E n \in {"exited", "open", "evaluate"} : pc' = [pc EXCEPT ![p] = n]
      BY <1>2 DEF StartPre
    <2>3. op' \in {op, [op EXCEPT ![p] = "consume"]}
      BY <1>2 DEF StartPre
    <2>4. reply' \in {reply, [reply EXCEPT ![p] = "silent"]}
      BY <1>2 DEF StartPre
    <2>5. /\ req' = [req EXCEPT ![p] = [session |-> s, command |-> c, mode |-> m]]
          /\ UNCHANGED <<clock, file, lock, stamp, mem, took, saved>>
      BY <1>2 DEF StartPre
    <2>6. TypeOK'
      BY <2>1, <2>2, <2>3, <2>4, <2>5 DEF TypeOK
    <2>7. Inputs'
      BY <2>1, <2>2, <2>3, <2>5 DEF TypeOK, Inputs
    <2> QED
      BY <2>6, <2>7
  <1>3. ASSUME NEW p \in Hooks, NEW s \in Sessions, NEW x \in Prefixes, StartPrompt(p, s, x)
        PROVE  TypeInv'
    <2>1. [session |-> s, prefix |-> x] \in PromptRequest
      BY DEF PromptRequest
    <2> QED
      BY <1>3, <2>1 DEF StartPrompt, TypeOK, Inputs
  <1>4. ASSUME NEW p \in Hooks, Open(p) \/ FlockFails(p) PROVE TypeInv'
    BY <1>4 DEF Open, FlockFails, TypeOK, Inputs
  <1>5. ASSUME NEW p \in Hooks, Acquire(p) PROVE TypeInv'
    BY <1>5 DEF Acquire, TypeOK, Inputs
  <1>6. ASSUME NEW p \in Hooks, Stamp(p) PROVE TypeInv'
    BY <1>6 DEF Stamp, TypeOK, Inputs
  <1>7. ASSUME NEW p \in Hooks, Mutate(p) PROVE TypeInv'
    <2>1. mem' \in [Hooks -> State] /\ took' \in [Hooks -> Entry \cup {NoEntry}]
      BY <1>7, MutateType DEF Mutate
    <2>2. pc' = [pc EXCEPT ![p] = "save"]
      BY <1>7 DEF Mutate
    <2>3. UNCHANGED <<clock, file, lock, req, op, stamp, saved, reply>>
      BY <1>7 DEF Mutate
    <2>4. TypeOK'
      BY <2>1, <2>2, <2>3 DEF TypeOK
    <2>5. Inputs'
      BY <2>2, <2>3 DEF TypeOK, Inputs
    <2> QED
      BY <2>4, <2>5
  <1>8. ASSUME NEW p \in Hooks, Save(p) PROVE TypeInv'
    <2>1. file' \in State
      BY <1>8 DEF Save, TypeOK
    <2>2. saved' \in [Hooks -> BOOLEAN]
      BY <1>8 DEF Save, TypeOK
    <2>3. mem' \in [Hooks -> State]
      BY <1>8, EmptyStateType DEF Save, Dropped, TypeOK
    <2>4. /\ pc' = [pc EXCEPT ![p] = "unlock"]
          /\ UNCHANGED <<clock, lock, req, op, stamp, took, reply>>
      BY <1>8 DEF Save
    <2>5. TypeOK'
      BY <2>1, <2>2, <2>3, <2>4 DEF TypeOK
    <2>6. Inputs'
      BY <2>4 DEF TypeOK, Inputs
    <2> QED
      BY <2>5, <2>6
  <1>9. ASSUME NEW p \in Hooks, Unlock(p) PROVE TypeInv'
    BY <1>9 DEF Unlock, Freed, TypeOK, Inputs
  <1>10. ASSUME NEW p \in Hooks, Caller(p) PROVE TypeInv'
    <2>1. CASE ReturnConsume(p)
      BY <2>1 DEF ReturnConsume, TypeOK, Inputs
    <2>2. CASE Evaluate(p)
      BY <2>2 DEF Evaluate, TypeOK, Inputs
    <2>3. CASE ReturnRecord(p)
      BY <2>3 DEF ReturnRecord, TypeOK, Inputs
    <2>4. CASE Emit(p)
      BY <2>4 DEF Emit, TypeOK, Inputs
    <2>5. CASE Audit(p)
      BY <2>5 DEF Audit, TypeOK, Inputs
    <2>6. CASE ReturnApprove(p)
      BY <2>6 DEF ReturnApprove, TypeOK, Inputs
    <2> QED
      BY <1>10, <2>1, <2>2, <2>3, <2>4, <2>5, <2>6 DEF Caller
  <1>11. ASSUME NEW p \in Hooks, Kill(p) PROVE TypeInv'
    BY <1>11, EmptyStateType DEF Kill, Freed, Dropped, TypeOK, Inputs
  <1>12. CASE Tick
    BY <1>12, HooksAssumption DEF Tick, TypeOK, Inputs
  <1>13. CASE UNCHANGED vars
    BY <1>13 DEF vars, TypeOK, Inputs
  <1> QED
    BY <1>1, <1>2, <1>3, <1>4, <1>5, <1>6, <1>7, <1>8, <1>9, <1>10, <1>11, <1>12, <1>13
    DEF Next, Begin, Run, Store, Finished

\* Type correctness: every reachable state is well typed, whichever calls
\* fail and whichever hooks are killed.
THEOREM TypeCorrect == Spec => []TypeOK
  <1>1. TypeInv => TypeOK
    BY DEF TypeInv
  <1> QED
    BY <1>1, TypeInit, TypeNext, PTL DEF Spec

-----------------------------------------------------------------------------
(* The lock, and how far a hook is.                                        *)

\* With a lock that works, at most its holder is between flock and unlock.
LEMMA LockingNext ==
  ASSUME "flock" \notin Faults, TypeInv, Locking, [Next]_vars
  PROVE  Locking'
  <1> USE DEF Goto, Local, Steps, Inside, Ended, Locking, TypeInv
  <1>0. NoHook \notin Hooks
    BY HooksAssumption
  <1>1. ASSUME NEW p \in Hooks, Begin(p) PROVE Locking'
    BY <1>1 DEF Begin, Ignore, Malformed, StartPre, StartPrompt, TypeOK
  <1>2. ASSUME NEW p \in Hooks, Open(p) \/ Stamp(p) PROVE Locking'
    BY <1>2 DEF Open, Stamp, TypeOK
  <1>3. ASSUME NEW p \in Hooks, Acquire(p) PROVE Locking'
    BY <1>0, <1>3 DEF Acquire, TypeOK
  <1>4. ASSUME NEW p \in Hooks, FlockFails(p) PROVE Locking'
    BY <1>4 DEF FlockFails
  <1>5. ASSUME NEW p \in Hooks, Mutate(p) PROVE Locking'
    BY <1>5 DEF Mutate, TypeOK
  <1>6. ASSUME NEW p \in Hooks, Save(p) PROVE Locking'
    BY <1>6 DEF Save, TypeOK
  <1>7. ASSUME NEW p \in Hooks, Unlock(p) PROVE Locking'
    BY <1>0, <1>7 DEF Unlock, Freed, TypeOK
  <1>8. ASSUME NEW p \in Hooks, Caller(p) PROVE Locking'
    BY <1>8 DEF Caller, ReturnConsume, Evaluate, ReturnRecord, Emit, Audit, ReturnApprove, TypeOK
  <1>9. ASSUME NEW p \in Hooks, Kill(p) PROVE Locking'
    BY <1>0, <1>9 DEF Kill, Freed, TypeOK
  <1>10. CASE Tick \/ UNCHANGED vars
    BY <1>10 DEF Tick, vars, TypeOK
  <1> QED
    BY <1>1, <1>2, <1>3, <1>4, <1>5, <1>6, <1>7, <1>8, <1>9, <1>10 DEF Next, Run, Store, Finished

\* A hook takes an entry only in its closure and counts as saved only from
\* its rename on.
LEMMA ProgressNext ==
  ASSUME TypeInv, Progress, [Next]_vars
  PROVE  Progress'
  <1> USE DEF Goto, Local, Steps, Inside, Ended, Progress, TypeInv
  <1>1. ASSUME NEW p \in Hooks, Begin(p) PROVE Progress'
    <2>1. CASE Ignore(p) \/ Malformed(p)
      BY <2>1 DEF Ignore, Malformed, TypeOK
    <2>2. CASE \E s \in Sessions, c \in Commands, m \in Modes : StartPre(p, s, c, m)
      BY <2>2 DEF StartPre, TypeOK, Inputs
    <2>3. CASE \E s \in Sessions, x \in Prefixes : StartPrompt(p, s, x)
      BY <2>3 DEF StartPrompt, TypeOK
    <2> QED
      BY <1>1, <2>1, <2>2, <2>3 DEF Begin
  <1>2. ASSUME NEW p \in Hooks, Open(p) \/ FlockFails(p) PROVE Progress'
    BY <1>2 DEF Open, FlockFails, TypeOK
  <1>3. ASSUME NEW p \in Hooks, Acquire(p) \/ Stamp(p) \/ Unlock(p) PROVE Progress'
    BY <1>3 DEF Acquire, Stamp, Unlock, TypeOK
  <1>4. ASSUME NEW p \in Hooks, Mutate(p) PROVE Progress'
    BY <1>4 DEF Mutate, RecordFn, ApproveFn, ConsumeFn, TypeOK
  <1>5. ASSUME NEW p \in Hooks, Save(p) PROVE Progress'
    <2>1. \A q \in Hooks : q # p => saved'[q] = saved[q]
      BY <1>5 DEF Save, TypeOK
    <2>2. pc[p] = "save" /\ pc' = [pc EXCEPT ![p] = "unlock"] /\ UNCHANGED <<op, took>>
      BY <1>5 DEF Save
    <2>3. op[p] # "none"
      BY <2>2
    <2> QED
      BY <2>1, <2>2, <2>3 DEF TypeOK
  <1>6. ASSUME NEW p \in Hooks, Caller(p) PROVE Progress'
    <2>1. CASE Evaluate(p)
      BY <2>1 DEF Evaluate, TypeOK
    <2>2. CASE ReturnConsume(p) \/ ReturnRecord(p) \/ Emit(p) \/ Audit(p) \/ ReturnApprove(p)
      BY <2>2 DEF ReturnConsume, ReturnRecord, Emit, Audit, ReturnApprove, TypeOK
    <2> QED
      BY <1>6, <2>1, <2>2 DEF Caller
  <1>7. ASSUME NEW p \in Hooks, Kill(p) PROVE Progress'
    BY <1>7 DEF Kill, TypeOK
  <1>8. CASE Tick \/ UNCHANGED vars
    BY <1>8 DEF Tick, vars, TypeOK
  <1> QED
    BY <1>1, <1>2, <1>3, <1>4, <1>5, <1>6, <1>7, <1>8 DEF Next, Run, Store, Finished

-----------------------------------------------------------------------------
(* What a step leaves alone.                                               *)

\* What a hook wrote and what it took stay its own: once it has saved, or
\* has taken an entry, its request, its mutation and its entry are fixed.
LEMMA Kept ==
  ASSUME TypeInv, Progress, [Next]_vars, NEW q \in Hooks
  PROVE  /\ saved[q] /\ op[q] \in {"record", "approve"} =>
              saved'[q] /\ op'[q] = op[q] /\ req'[q] = req[q] /\ took'[q] = took[q]
         /\ took[q] # NoEntry => took'[q] = took[q] /\ op'[q] = op[q] /\ req'[q] = req[q]
  <1> USE DEF Goto, Local, Steps, Inside, Ended, Progress, TypeInv
  <1> DEFINE Fixed ==
        /\ saved[q] /\ op[q] \in {"record", "approve"} =>
              saved'[q] /\ op'[q] = op[q] /\ req'[q] = req[q] /\ took'[q] = took[q]
        /\ took[q] # NoEntry => took'[q] = took[q] /\ op'[q] = op[q] /\ req'[q] = req[q]
  <1>1. ASSUME NEW p \in Hooks, Begin(p) PROVE Fixed
    <2>1. pc[p] = "new" /\ UNCHANGED <<took, saved>>
      BY <1>1 DEF Begin, Ignore, Malformed, StartPre, StartPrompt
    <2>2. p # q => op'[q] = op[q] /\ req'[q] = req[q]
      BY <1>1 DEF Begin, Ignore, Malformed, StartPre, StartPrompt, TypeOK
    <2> QED
      BY <2>1, <2>2
  <1>2. ASSUME NEW p \in Hooks, Open(p) \/ Acquire(p) \/ FlockFails(p) \/ Stamp(p) \/ Unlock(p)
        PROVE  Fixed
    BY <1>2 DEF Open, Acquire, FlockFails, Stamp, Unlock
  <1>3. ASSUME NEW p \in Hooks, Mutate(p) PROVE Fixed
    <2>1. pc[p] = "mutate" /\ UNCHANGED <<op, req, saved>>
      BY <1>3 DEF Mutate
    <2>2. p # q => took'[q] = took[q]
      BY <1>3 DEF Mutate, RecordFn, ApproveFn, ConsumeFn, TypeOK
    <2> QED
      BY <2>1, <2>2
  <1>4. ASSUME NEW p \in Hooks, Save(p) PROVE Fixed
    <2>1. saved[q] => saved'[q]
      BY <1>4 DEF Save, TypeOK
    <2> QED
      BY <1>4, <2>1 DEF Save
  <1>5. ASSUME NEW p \in Hooks, Caller(p) PROVE Fixed
    <2>1. CASE Evaluate(p)
      <3>1. pc[p] = "evaluate" /\ UNCHANGED <<req, took>>
        BY <2>1 DEF Evaluate
      <3>2. p # q => op'[q] = op[q] /\ saved'[q] = saved[q]
        BY <2>1 DEF Evaluate, TypeOK
      <3>3. op[p] \notin {"record", "approve"} /\ took[p] = NoEntry
        BY <3>1 DEF Inputs
      <3> QED
        BY <3>1, <3>2, <3>3
    <2>2. CASE ReturnConsume(p) \/ ReturnRecord(p) \/ Emit(p) \/ Audit(p) \/ ReturnApprove(p)
      BY <2>2 DEF ReturnConsume, ReturnRecord, Emit, Audit, ReturnApprove
    <2> QED
      BY <1>5, <2>1, <2>2 DEF Caller
  <1>6. ASSUME NEW p \in Hooks, Kill(p) PROVE Fixed
    BY <1>6 DEF Kill
  <1>7. CASE Tick \/ UNCHANGED vars
    BY <1>7 DEF Tick, vars
  <1> QED
    BY <1>1, <1>2, <1>3, <1>4, <1>5, <1>6, <1>7 DEF Next, Run, Store, Finished

\* Only a rename changes the file or makes a hook count as saved.
LEMMA OnlySaves ==
  ASSUME TypeInv, Progress, [Next]_vars
  PROVE  \/ \E p \in Hooks : Save(p) /\ file' = mem[p] /\ saved' = [saved EXCEPT ![p] = TRUE]
         \/ /\ file' = file
            /\ \A q \in Hooks : saved'[q] => saved[q] /\ took'[q] = took[q]
  <1> USE DEF Goto, Local, Steps, Inside, Ended, Progress, TypeInv
  <1> DEFINE Quiet == /\ file' = file
                      /\ \A q \in Hooks : saved'[q] => saved[q] /\ took'[q] = took[q]
  <1>1. ASSUME NEW p \in Hooks, Begin(p) PROVE Quiet
    BY <1>1 DEF Begin, Ignore, Malformed, StartPre, StartPrompt
  <1>2. ASSUME NEW p \in Hooks, Open(p) \/ Acquire(p) \/ FlockFails(p) \/ Stamp(p) \/ Unlock(p)
        PROVE  Quiet
    BY <1>2 DEF Open, Acquire, FlockFails, Stamp, Unlock
  <1>3. ASSUME NEW p \in Hooks, Mutate(p) PROVE Quiet
    <2>1. pc[p] = "mutate" /\ UNCHANGED <<file, saved>>
      BY <1>3 DEF Mutate
    <2>2. \A q \in Hooks : p # q => took'[q] = took[q]
      BY <1>3 DEF Mutate, RecordFn, ApproveFn, ConsumeFn, TypeOK
    <2> QED
      BY <2>1, <2>2
  <1>4. ASSUME NEW p \in Hooks, Save(p), UNCHANGED <<file, saved>> PROVE Quiet
    BY <1>4 DEF Save
  <1>5. ASSUME NEW p \in Hooks, Caller(p) PROVE Quiet
    <2>1. CASE Evaluate(p)
      BY <2>1 DEF Evaluate, TypeOK
    <2>2. CASE ReturnConsume(p) \/ ReturnRecord(p) \/ Emit(p) \/ Audit(p) \/ ReturnApprove(p)
      BY <2>2 DEF ReturnConsume, ReturnRecord, Emit, Audit, ReturnApprove
    <2> QED
      BY <1>5, <2>1, <2>2 DEF Caller
  <1>6. ASSUME NEW p \in Hooks, Kill(p) PROVE Quiet
    BY <1>6 DEF Kill
  <1>7. CASE Tick \/ UNCHANGED vars
    BY <1>7 DEF Tick, vars
  <1>8. ASSUME NEW p \in Hooks, Save(p)
        PROVE  \/ file' = mem[p] /\ saved' = [saved EXCEPT ![p] = TRUE]
               \/ UNCHANGED <<file, saved>>
    BY <1>8 DEF Save
  <1> QED
    BY <1>1, <1>2, <1>3, <1>4, <1>5, <1>6, <1>7, <1>8 DEF Next, Run, Store, Finished

-----------------------------------------------------------------------------
(* A hook saves the outcome of its closure on the file as it is.           *)

\* After its closure a hook is based on the file.
LEMMA MutateBased ==
  ASSUME TypeInv, Progress, NEW p \in Hooks, Mutate(p)
  PROVE  Based(p)'
  <1> USE DEF TypeInv, Goto
  <1>1. /\ pc[p] = "mutate"
        /\ UNCHANGED <<clock, file, lock, req, op, stamp, saved>>
        /\ RecordFn(p) \/ ApproveFn(p) \/ ConsumeFn(p)
    BY DEF Mutate
  <1>2. took[p] = NoEntry
    BY <1>1 DEF Progress
  <1>3. Loaded(p)' = Loaded(p) /\ ReqKey(p)' = ReqKey(p)
    BY <1>1 DEF Loaded, ReqKey
  <1>4. CASE RecordFn(p)
    BY <1>1, <1>3, <1>4 DEF RecordFn, Based, TypeOK
  <1>5. CASE ApproveFn(p)
    <2> DEFINE keys == Matches(Loaded(p), req[p].session, req[p].prefix)
    <2>1. CASE \E k \in keys :
                 /\ mem' = [mem EXCEPT ![p] = WithApproved(Loaded(p), k, stamp[p], p)]
                 /\ took' = [took EXCEPT ![p] = Loaded(p).pending[k]]
      <3>1. PICK k \in keys :
                 /\ mem' = [mem EXCEPT ![p] = WithApproved(Loaded(p), k, stamp[p], p)]
                 /\ took' = [took EXCEPT ![p] = Loaded(p).pending[k]]
        BY <2>1
      <3>2. req[p] \in PromptRequest
        BY <1>5 DEF ApproveFn, Inputs
      <3>3. PICK h \in Hashes : k = <<req[p].session, h>>
        BY <3>2, StateAssumption DEF Matches, PromptRequest
      <3>4. Loaded(p).pending[k] # NoEntry
        BY DEF Matches
      <3>5. /\ mem'[p] = WithApproved(Loaded(p), k, stamp[p], p)
            /\ took'[p] = Loaded(p).pending[k]
        BY <3>1 DEF TypeOK
      <3> QED
        BY <1>1, <1>3, <1>5, <3>3, <3>4, <3>5 DEF ApproveFn, Based
    <2>2. CASE mem' = [mem EXCEPT ![p] = Loaded(p)] /\ UNCHANGED took
      BY <1>1, <1>2, <1>3, <1>5, <2>2 DEF ApproveFn, Based, TypeOK
    <2> QED
      BY <1>5, <2>1, <2>2 DEF ApproveFn
  <1>6. CASE ConsumeFn(p)
    <2>1. CASE /\ Honours(Loaded(p).approved[ReqKey(p)], req[p].command)
               /\ mem' = [mem EXCEPT ![p] = WithoutApproved(Loaded(p), ReqKey(p))]
               /\ took' = [took EXCEPT ![p] = Loaded(p).approved[ReqKey(p)]]
      BY <1>1, <1>3, <1>6, <2>1 DEF ConsumeFn, Honours, Based, TypeOK
    <2>2. CASE mem' = [mem EXCEPT ![p] = Loaded(p)] /\ UNCHANGED took
      BY <1>1, <1>2, <1>3, <1>6, <2>2 DEF ConsumeFn, Based, TypeOK
    <2> QED
      BY <1>6, <2>1, <2>2 DEF ConsumeFn
  <1> QED
    BY <1>1, <1>4, <1>5, <1>6

\* No step of another hook comes between a closure and its rename.
LEMMA SavesCurrentNext ==
  ASSUME TypeInv, Locking, Progress, SavesCurrent, [Next]_vars
  PROVE  SavesCurrent'
  <1> USE DEF Goto, Local, Inside, Ended, TypeInv
  <1> SUFFICES ASSUME NEW q \in Hooks, pc'[q] = "save"
               PROVE  Based(q)'
    BY DEF SavesCurrent
  <1> DEFINE Same == /\ pc[q] = "save"
                     /\ file' = file
                     /\ req'[q] = req[q] /\ op'[q] = op[q] /\ stamp'[q] = stamp[q]
                     /\ mem'[q] = mem[q] /\ took'[q] = took[q]
  <1>1. ASSUME Same PROVE Based(q)'
    <2>1. Based(q)
      BY <1>1 DEF SavesCurrent
    <2>2. Loaded(q)' = Loaded(q) /\ ReqKey(q)' = ReqKey(q)
      BY <1>1 DEF Loaded, ReqKey
    <2> QED
      BY <1>1, <2>1, <2>2 DEF Based
  <1>2. ASSUME NEW p \in Hooks, Begin(p) PROVE Same
    BY <1>2 DEF Begin, Ignore, Malformed, StartPre, StartPrompt, TypeOK
  <1>3. ASSUME NEW p \in Hooks, Open(p) \/ Acquire(p) \/ FlockFails(p) \/ Unlock(p)
        PROVE  Same
    BY <1>3 DEF Open, Acquire, FlockFails, Unlock, TypeOK
  <1>4. ASSUME NEW p \in Hooks, Stamp(p) PROVE Same
    BY <1>4 DEF Stamp, TypeOK
  <1>5. ASSUME NEW p \in Hooks, Mutate(p) PROVE Based(q)'
    <2>1. CASE q = p
      BY <1>5, <2>1, MutateBased
    <2>2. CASE q # p
      BY <1>5, <2>2, <1>1 DEF Mutate, RecordFn, ApproveFn, ConsumeFn, TypeOK
    <2> QED
      BY <2>1, <2>2
  <1>6. ASSUME NEW p \in Hooks, Save(p) PROVE FALSE
    <2>1. pc[p] = "save" /\ pc' = [pc EXCEPT ![p] = "unlock"]
      BY <1>6 DEF Save
    <2>2. q # p /\ pc[q] = "save"
      BY <2>1 DEF TypeOK
    <2> QED
      BY <2>1, <2>2 DEF Locking
  <1>7. ASSUME NEW p \in Hooks, Caller(p) PROVE Same
    <2>1. UNCHANGED <<file, req, stamp, mem, took>>
      BY <1>7 DEF Caller, ReturnConsume, Evaluate, ReturnRecord, Emit, Audit, ReturnApprove
    <2>2. \E n \in {"audit", "evaluate", "open", "emit", "exited"} : pc' = [pc EXCEPT ![p] = n]
      BY <1>7 DEF Caller, ReturnConsume, Evaluate, ReturnRecord, Emit, Audit, ReturnApprove
    <2>3. q # p /\ pc[q] = "save"
      BY <2>2 DEF TypeOK
    <2>4. op'[q] = op[q]
      BY <1>7, <2>3 DEF Caller, ReturnConsume, Evaluate, ReturnRecord, Emit, Audit,
                        ReturnApprove, TypeOK
    <2> QED
      BY <2>1, <2>3, <2>4
  <1>8. ASSUME NEW p \in Hooks, Kill(p) PROVE Same
    <2>1. q # p /\ pc[q] = "save"
      BY <1>8 DEF Kill, TypeOK
    <2> QED
      BY <1>8, <2>1 DEF Kill, Dropped, TypeOK
  <1>9. ASSUME Tick \/ UNCHANGED vars PROVE Same
    BY <1>9 DEF Tick, vars
  <1> QED
    BY <1>1, <1>2, <1>3, <1>4, <1>5, <1>6, <1>7, <1>8, <1>9 DEF Next, Run, Store, Finished

-----------------------------------------------------------------------------
(* The effect of a rename on the entries of the file.                      *)

\* Cleanup only drops entries.
LEMMA LoadedSub ==
  ASSUME NEW p \in Hooks, NEW k \in Keys
  PROVE  /\ Loaded(p).pending[k] \in {file.pending[k], NoEntry}
         /\ Loaded(p).approved[k] \in {file.approved[k], NoEntry}
  BY DEF Loaded, Cleanup, CleanBook

\* An entry in memory is one of the file, which the hook has not taken, or
\* the one that the hook itself has made.
InPending(p, k) ==
  \/ /\ mem[p].pending[k] = file.pending[k]
     /\ op[p] = "approve" /\ took[p] # NoEntry => file.pending[k].by # took[p].by
  \/ /\ op[p] = "record"
     /\ k = ReqKey(p)
     /\ mem[p].pending[k] = NewEntry(req[p].command, stamp[p], p)

InApproved(p, k) ==
  \/ /\ mem[p].approved[k] = file.approved[k]
     /\ op[p] = "consume" /\ took[p] # NoEntry => file.approved[k].by # took[p].by
  \/ /\ op[p] = "approve" /\ took[p] # NoEntry
     /\ k = KeyOf(req[p].session, took[p].command)
     /\ mem[p].approved[k] = NewEntry(took[p].command, stamp[p], p)

\* A hook about to save has made at most the one entry, has dropped the one
\* it took, and took it from the book that its mutation works on.
LEMMA MemEffect ==
  ASSUME TypeInv, SavesCurrent, Written, NEW p \in Hooks, pc[p] = "save"
  PROVE  /\ \A k \in Keys : mem[p].pending[k] # NoEntry => InPending(p, k)
         /\ \A k \in Keys : mem[p].approved[k] # NoEntry => InApproved(p, k)
         /\ took[p] # NoEntry /\ op[p] = "consume" =>
              \E k \in Keys : took[p] = file.approved[k]
         /\ took[p] # NoEntry /\ op[p] = "approve" =>
              \E k \in Keys : took[p] = file.pending[k]
  <1> USE DEF TypeInv
  <1>1. Based(p) /\ Loaded(p) \in State
    BY LoadedType DEF SavesCurrent
  <1>2. CASE op[p] \in {"consume", "approve"} /\ took[p] = NoEntry /\ mem[p] = Loaded(p)
    BY <1>2, LoadedSub DEF InPending, InApproved
  <1>3. CASE /\ op[p] = "record"
             /\ mem[p] = WithPending(Loaded(p), ReqKey(p), NewEntry(req[p].command, stamp[p], p))
    <2>1. /\ mem[p].pending = [Loaded(p).pending EXCEPT
               ![ReqKey(p)] = NewEntry(req[p].command, stamp[p], p)]
          /\ mem[p].approved = Loaded(p).approved
      BY <1>1, <1>3 DEF WithPending, State
    <2>2. Loaded(p).pending \in Book
      BY <1>1 DEF State
    <2> QED
      BY <1>3, <2>1, <2>2, LoadedSub DEF InPending, InApproved, Book
  <1>4. CASE /\ op[p] = "consume"
             /\ took[p] # NoEntry
             /\ took[p] = Loaded(p).approved[ReqKey(p)]
             /\ mem[p] = WithoutApproved(Loaded(p), ReqKey(p))
    <2>1. ReqKey(p) \in Keys
      BY <1>4, ReqKeyType DEF Inputs
    <2>2. took[p] = file.approved[ReqKey(p)]
      BY <1>4, <2>1, LoadedSub
    <2>3. /\ mem[p].approved = [Loaded(p).approved EXCEPT ![ReqKey(p)] = NoEntry]
          /\ mem[p].pending = Loaded(p).pending
          /\ Loaded(p).approved \in Book
      BY <1>1, <1>4 DEF WithoutApproved, State
    <2>4. ASSUME NEW k \in Keys, mem[p].approved[k] # NoEntry PROVE InApproved(p, k)
      <3>1. k # ReqKey(p) /\ mem[p].approved[k] = Loaded(p).approved[k]
        BY <2>1, <2>3, <2>4 DEF Book
      <3>2. mem[p].approved[k] = file.approved[k] /\ file.approved[k] # NoEntry
        BY <2>4, <3>1, LoadedSub
      <3>3. file.approved[k].by # took[p].by
        BY <1>4, <2>1, <2>2, <3>1, <3>2 DEF Written
      <3> QED
        BY <3>2, <3>3 DEF InApproved
    <2>5. ASSUME NEW k \in Keys, mem[p].pending[k] # NoEntry PROVE InPending(p, k)
      BY <1>4, <2>3, <2>5, LoadedSub DEF InPending
    <2> QED
      BY <1>4, <2>1, <2>2, <2>4, <2>5
  <1>5. CASE /\ op[p] = "approve"
             /\ took[p] # NoEntry
             /\ \E h \in Hashes : LET k == <<req[p].session, h>> IN
                  /\ took[p] = Loaded(p).pending[k]
                  /\ mem[p] = WithApproved(Loaded(p), k, stamp[p], p)
    <2>1. PICK h \in Hashes : LET k == <<req[p].session, h>> IN
                  /\ took[p] = Loaded(p).pending[k]
                  /\ mem[p] = WithApproved(Loaded(p), k, stamp[p], p)
      BY <1>5
    <2> DEFINE key == <<req[p].session, h>>
    <2>2. key \in Keys /\ req[p].session \in Sessions
      BY <1>5 DEF Keys, Inputs, PromptRequest
    <2>3. took[p] = file.pending[key] /\ took[p] = Loaded(p).pending[key]
      BY <1>5, <2>1, <2>2, LoadedSub
    <2>4. key = KeyOf(req[p].session, took[p].command)
      <3>1. key = ReqKey(took[p].by) /\ took[p].command = req[took[p].by].command
        BY <1>5, <2>2, <2>3 DEF Written
      <3> QED
        BY <3>1 DEF ReqKey, KeyOf
    <2>5. /\ mem[p].pending = [Loaded(p).pending EXCEPT ![key] = NoEntry]
          /\ mem[p].approved = [Loaded(p).approved EXCEPT
                 ![key] = NewEntry(took[p].command, stamp[p], p)]
      BY <2>1, <2>3 DEF WithApproved
    <2>6. Loaded(p).pending \in Book /\ Loaded(p).approved \in Book
      BY <1>1 DEF State
    <2>7. ASSUME NEW k \in Keys, mem[p].pending[k] # NoEntry PROVE InPending(p, k)
      <3>1. k # key /\ mem[p].pending[k] = Loaded(p).pending[k]
        BY <2>2, <2>5, <2>6, <2>7 DEF Book
      <3>2. mem[p].pending[k] = file.pending[k] /\ file.pending[k] # NoEntry
        BY <2>7, <3>1, LoadedSub
      <3>3. file.pending[k].by # took[p].by
        BY <1>5, <2>2, <2>3, <3>1, <3>2 DEF Written
      <3> QED
        BY <3>2, <3>3 DEF InPending
    <2>8. ASSUME NEW k \in Keys, mem[p].approved[k] # NoEntry PROVE InApproved(p, k)
      <3>1. CASE k = key
        <4>1. mem[p].approved[key] = NewEntry(took[p].command, stamp[p], p)
          BY <2>2, <2>5, <2>6 DEF Book
        <4> QED
          BY <1>5, <2>4, <3>1, <4>1 DEF InApproved
      <3>2. CASE k # key
        <4>1. mem[p].approved[k] = Loaded(p).approved[k]
          BY <2>5, <2>6, <3>2 DEF Book
        <4> QED
          BY <1>5, <2>8, <4>1, LoadedSub DEF InApproved
      <3> QED
        BY <3>1, <3>2
    <2> QED
      BY <1>5, <2>2, <2>3, <2>7, <2>8
  <1> QED
    BY <1>1, <1>2, <1>3, <1>4, <1>5 DEF Based

-----------------------------------------------------------------------------
(* Where entries come from, and that each is taken once.                   *)

\* The hook that wrote an entry has blocked, or approved, its command.
LEMMA WrittenNext ==
  ASSUME TypeInv, Progress, SavesCurrent, Written, [Next]_vars
  PROVE  Written'
  <1>1. ASSUME NEW k \in Keys, NEW e, e # NoEntry, e = file.pending[k]
        PROVE  Blocked(e.by)' /\ k = ReqKey(e.by)' /\ e.command = req'[e.by].command
    <2>1. Blocked(e.by) /\ k = ReqKey(e.by) /\ e.command = req[e.by].command /\ e.by \in Hooks
      BY <1>1 DEF Written, TypeInv, TypeOK, State, Book, Entry
    <2> QED
      BY <2>1, Kept DEF Blocked, ReqKey
  <1>2. ASSUME NEW k \in Keys, NEW e, e # NoEntry, e = file.approved[k]
        PROVE  /\ Approved(e.by)'
               /\ k = KeyOf(req'[e.by].session, took'[e.by].command)
               /\ e.command = took'[e.by].command
    <2>1. /\ Approved(e.by)
          /\ k = KeyOf(req[e.by].session, took[e.by].command)
          /\ e.command = took[e.by].command
          /\ e.by \in Hooks
      BY <1>2 DEF Written, TypeInv, TypeOK, State, Book, Entry
    <2> QED
      BY <2>1, Kept DEF Approved
  <1>3. CASE file' = file
    BY <1>1, <1>2, <1>3 DEF Written
  <1>4. ASSUME NEW p \in Hooks, Save(p), file' = mem[p], saved' = [saved EXCEPT ![p] = TRUE]
        PROVE  Written'
    <2>1. pc[p] = "save" /\ UNCHANGED <<op, req, took, stamp>> /\ saved'[p]
      BY <1>4 DEF Save, Goto, TypeInv, TypeOK
    <2>2. ASSUME NEW k \in Keys, NEW e, e # NoEntry, e = file'.pending[k]
          PROVE  Blocked(e.by)' /\ k = ReqKey(e.by)' /\ e.command = req'[e.by].command
      <3>1. InPending(p, k) /\ e = mem[p].pending[k]
        BY <1>4, <2>1, <2>2, MemEffect
      <3>2. CASE mem[p].pending[k] = file.pending[k]
        BY <1>1, <2>2, <3>1, <3>2
      <3>3. CASE /\ op[p] = "record" /\ k = ReqKey(p)
                 /\ e = NewEntry(req[p].command, stamp[p], p)
        BY <2>1, <3>3 DEF NewEntry, Blocked, ReqKey
      <3> QED
        BY <3>1, <3>2, <3>3 DEF InPending
    <2>3. ASSUME NEW k \in Keys, NEW e, e # NoEntry, e = file'.approved[k]
          PROVE  /\ Approved(e.by)'
                 /\ k = KeyOf(req'[e.by].session, took'[e.by].command)
                 /\ e.command = took'[e.by].command
      <3>1. InApproved(p, k) /\ e = mem[p].approved[k]
        BY <1>4, <2>1, <2>3, MemEffect
      <3>2. CASE mem[p].approved[k] = file.approved[k]
        BY <1>2, <2>3, <3>1, <3>2
      <3>3. CASE /\ op[p] = "approve" /\ took[p] # NoEntry
                 /\ k = KeyOf(req[p].session, took[p].command)
                 /\ e = NewEntry(took[p].command, stamp[p], p)
        BY <2>1, <3>3 DEF NewEntry, Approved
      <3> QED
        BY <3>1, <3>2, <3>3 DEF InApproved
    <2> QED
      BY <2>2, <2>3 DEF Written
  <1> QED
    BY <1>3, <1>4, OnlySaves

\* A hook takes an entry that a hook of the other kind wrote.
LEMMA SourcesNext ==
  ASSUME TypeInv, Progress, Written, Sources, [Next]_vars
  PROVE  Sources'
  <1> SUFFICES ASSUME NEW q \in Hooks, took'[q] # NoEntry, NEW b, b = took'[q].by
               PROVE  /\ op'[q] = "approve" => Blocked(b)'
                      /\ op'[q] = "consume" => Approved(b)'
    BY DEF Sources
  <1>1. ASSUME b \in Hooks
        PROVE  (Blocked(b) => Blocked(b)') /\ (Approved(b) => Approved(b)')
    BY <1>1, Kept DEF Blocked, Approved
  <1>2. CASE took[q] # NoEntry
    <2>1. took'[q] = took[q] /\ op'[q] = op[q] /\ b \in Hooks
      BY <1>2, Kept DEF TypeInv, TypeOK, Entry
    <2> QED
      BY <1>1, <1>2, <2>1 DEF Sources
  <1>3. CASE took[q] = NoEntry
    <2>1. ASSUME took'[q] # took[q] PROVE Mutate(q)
      BY <2>1 DEF Next, Begin, Run, Store, Caller, Finished, Ignore, Malformed, StartPre,
           StartPrompt, Open, Acquire, FlockFails, Stamp, Mutate, RecordFn, ApproveFn, ConsumeFn,
           Save, Unlock, ReturnConsume, Evaluate, ReturnRecord, Emit, Audit, ReturnApprove, Kill,
           Tick, Local, vars, TypeInv, TypeOK
    <2>2. Mutate(q)
      BY <1>3, <2>1
    <2>3. UNCHANGED <<file, op, saved>>
      BY <2>2 DEF Mutate
    <2>4. CASE op[q] = "approve"
      <3>1. ApproveFn(q) /\ req[q] \in PromptRequest
        BY <2>2, <2>4 DEF Mutate, RecordFn, ConsumeFn, TypeInv, Inputs
      <3>2. PICK k \in Matches(Loaded(q), req[q].session, req[q].prefix) :
                 took' = [took EXCEPT ![q] = Loaded(q).pending[k]]
        BY <1>3, <3>1 DEF ApproveFn
      <3>3. k \in Keys
        BY <3>1, StateAssumption DEF Matches, Keys, PromptRequest
      <3>4. took'[q] = file.pending[k]
        BY <3>2, <3>3, LoadedSub DEF TypeInv, TypeOK
      <3>5. Blocked(b) /\ b \in Hooks
        BY <3>3, <3>4 DEF Written, TypeInv, TypeOK, State, Book, Entry
      <3> QED
        BY <1>1, <2>3, <2>4, <3>5
    <2>5. CASE op[q] = "consume"
      <3>1. ConsumeFn(q) /\ ReqKey(q) \in Keys
        BY <2>2, <2>5, ReqKeyType DEF Mutate, RecordFn, ApproveFn, TypeInv, Inputs
      <3>2. took' = [took EXCEPT ![q] = Loaded(q).approved[ReqKey(q)]]
        BY <1>3, <3>1 DEF ConsumeFn
      <3>3. took'[q] = file.approved[ReqKey(q)]
        BY <3>1, <3>2, LoadedSub DEF TypeInv, TypeOK
      <3>4. Approved(b) /\ b \in Hooks
        BY <3>1, <3>3 DEF Written, TypeInv, TypeOK, State, Book, Entry
      <3> QED
        BY <1>1, <2>3, <2>5, <3>4
    <2> QED
      BY <2>3, <2>4, <2>5
  <1> QED
    BY <1>2, <1>3

\* Whatever was taken has a writer that saved it.
LEMMA TakenFromSaved ==
  ASSUME TypeInv, Progress, Sources, NEW q \in Hooks, took[q] # NoEntry
  PROVE  /\ saved[took[q].by]
         /\ \/ op[q] = "approve" /\ Blocked(took[q].by)
            \/ op[q] = "consume" /\ Approved(took[q].by)
  <1>1. op[q] \in {"none", "consume", "record", "approve"}
    BY DEF TypeInv, TypeOK
  <1>2. op[q] = "approve" \/ op[q] = "consume"
    BY <1>1 DEF Progress
  <1>3. (op[q] = "approve" => Blocked(took[q].by)) /\ (op[q] = "consume" => Approved(took[q].by))
    BY DEF Sources
  <1>4. Blocked(took[q].by) \/ Approved(took[q].by)
    BY <1>2, <1>3
  <1>5. saved[took[q].by]
    BY <1>4 DEF Blocked, Approved
  <1> QED
    BY <1>2, <1>3, <1>5

\* An entry whose removal is saved is not in the file.
LEMMA GoneNext ==
  ASSUME TypeInv, Progress, SavesCurrent, Written, Sources, Gone, [Next]_vars
  PROVE  Gone'
  <1> SUFFICES ASSUME NEW q \in Hooks, NEW k \in Keys, saved'[q], took'[q] # NoEntry
               PROVE  /\ file'.pending[k] # NoEntry => file'.pending[k].by # took'[q].by
                      /\ file'.approved[k] # NoEntry => file'.approved[k].by # took'[q].by
    BY DEF Gone
  <1>1. CASE file' = file /\ saved[q] /\ took'[q] = took[q]
    BY <1>1 DEF Gone
  <1>2. ASSUME NEW p \in Hooks, Save(p), file' = mem[p], saved' = [saved EXCEPT ![p] = TRUE]
        PROVE  /\ file'.pending[k] # NoEntry => file'.pending[k].by # took'[q].by
               /\ file'.approved[k] # NoEntry => file'.approved[k].by # took'[q].by
    <2>1. pc[p] = "save" /\ ~saved[p] /\ took' = took
      BY <1>2 DEF Save, Goto, Progress
    <2>2. /\ saved[took[q].by]
          /\ \/ op[q] = "approve" /\ Blocked(took[q].by)
             \/ op[q] = "consume" /\ Approved(took[q].by)
      BY <2>1, TakenFromSaved
    <2>3. q # p => saved[q]
      BY <1>2 DEF TypeInv, TypeOK
    <2>4. ASSUME file'.pending[k] # NoEntry PROVE file'.pending[k].by # took[q].by
      <3>1. InPending(p, k)
        BY <1>2, <2>1, <2>4, MemEffect
      <3>2. CASE /\ mem[p].pending[k] = file.pending[k]
                 /\ op[p] = "approve" /\ took[p] # NoEntry => file.pending[k].by # took[p].by
        <4>1. file'.pending[k] = file.pending[k]
          BY <1>2, <3>2
        <4>2. CASE q # p
          BY <2>1, <2>3, <2>4, <4>1, <4>2 DEF Gone
        <4>3. CASE q = p /\ op[q] = "approve"
          BY <2>1, <3>2, <4>1, <4>3
        <4>4. CASE op[q] = "consume"
          BY <2>2, <2>4, <4>1, <4>4 DEF Written, Blocked, Approved
        <4> QED
          BY <2>2, <4>2, <4>3, <4>4
      <3>3. CASE mem[p].pending[k] = NewEntry(req[p].command, stamp[p], p)
        BY <1>2, <2>1, <2>2, <3>3 DEF NewEntry
      <3> QED
        BY <3>1, <3>2, <3>3 DEF InPending
    <2>5. ASSUME file'.approved[k] # NoEntry PROVE file'.approved[k].by # took[q].by
      <3>1. InApproved(p, k)
        BY <1>2, <2>1, <2>5, MemEffect
      <3>2. CASE /\ mem[p].approved[k] = file.approved[k]
                 /\ op[p] = "consume" /\ took[p] # NoEntry => file.approved[k].by # took[p].by
        <4>1. file'.approved[k] = file.approved[k]
          BY <1>2, <3>2
        <4>2. CASE q # p
          BY <2>1, <2>3, <2>5, <4>1, <4>2 DEF Gone
        <4>3. CASE q = p /\ op[q] = "consume"
          BY <2>1, <3>2, <4>1, <4>3
        <4>4. CASE op[q] = "approve"
          BY <2>2, <2>5, <4>1, <4>4 DEF Written, Blocked, Approved
        <4> QED
          BY <2>2, <4>2, <4>3, <4>4
      <3>3. CASE mem[p].approved[k] = NewEntry(took[p].command, stamp[p], p)
        BY <1>2, <2>1, <2>2, <3>3 DEF NewEntry
      <3> QED
        BY <3>1, <3>2, <3>3 DEF InApproved
    <2> QED
      BY <2>1, <2>4, <2>5
  <1> QED
    BY <1>1, <1>2, OnlySaves

\* The next hook to save has taken an entry that no saved hook has taken.
LEMMA TakenOnceNext ==
  ASSUME TypeInv, Progress, SavesCurrent, Written, Sources, Gone, TakenOnce, [Next]_vars
  PROVE  TakenOnce'
  <1>1. CASE \A q \in Hooks : saved'[q] => saved[q] /\ took'[q] = took[q]
    BY <1>1 DEF TakenOnce
  <1>2. ASSUME NEW p \in Hooks, Save(p), file' = mem[p], saved' = [saved EXCEPT ![p] = TRUE]
        PROVE  TakenOnce'
    <2>1. pc[p] = "save" /\ took' = took
      BY <1>2 DEF Save, Goto
    <2>2. \A q \in Hooks : q # p /\ saved'[q] => saved[q]
      BY <1>2 DEF TypeInv, TypeOK
    <2>3. ASSUME NEW q \in Hooks, q # p, saved[q], took[q] # NoEntry, took[p] # NoEntry
          PROVE  took[p].by # took[q].by
      <3>1. op[p] = "approve" \/ op[p] = "consume"
        BY <2>3, TakenFromSaved
      <3>2. PICK k \in Keys : took[p] = file.pending[k] \/ took[p] = file.approved[k]
        BY <2>1, <2>3, <3>1, MemEffect
      <3> QED
        BY <2>3, <3>2 DEF Gone
    <2> QED
      BY <2>1, <2>2, <2>3 DEF TakenOnce
  <1> QED
    BY <1>1, <1>2, OnlySaves

-----------------------------------------------------------------------------
(* Theorems about the credit.                                              *)

\* The invariant holds as long as flock works, however often a save fails.
THEOREM CreditsInvariant ==
  ASSUME "flock" \notin Faults
  PROVE  Spec => []CreditInv
  <1>1. Init => CreditInv
    <2>1. Init => TypeInv
      BY TypeInit
    <2>2. Init => Locking /\ Progress /\ SavesCurrent /\ Sources /\ TakenOnce
      BY HooksAssumption DEF Init, Locking, Progress, SavesCurrent, Sources, TakenOnce, Inside
    <2>3. Init => Written /\ Gone
      BY DEF Init, Written, Gone, EmptyState, EmptyBook
    <2> QED
      BY <2>1, <2>2, <2>3 DEF CreditInv
  <1>2. CreditInv /\ [Next]_vars => CreditInv'
    <2> SUFFICES ASSUME CreditInv, [Next]_vars PROVE CreditInv'
      OBVIOUS
    <2> USE DEF CreditInv
    <2>1. TypeInv'
      BY TypeNext
    <2>2. Locking' /\ Progress' /\ SavesCurrent'
      BY LockingNext, ProgressNext, SavesCurrentNext
    <2>3. Written' /\ Sources' /\ Gone' /\ TakenOnce'
      BY WrittenNext, SourcesNext, GoneNext, TakenOnceNext
    <2> QED
      BY <2>1, <2>2, <2>3
  <1> QED
    BY <1>1, <1>2, PTL DEF Spec

\* A hook lets its command pass only after its rename, when saving does not
\* fail.
LEMMA PassSavesNext ==
  ASSUME "save" \notin Faults, TypeInv, Progress, PassSaves, [Next]_vars
  PROVE  PassSaves'
  <1> SUFFICES ASSUME NEW q \in Hooks, op'[q] = "consume", took'[q] # NoEntry,
                      pc'[q] \in {"unlock", "return", "audit", "exited"}
               PROVE  saved'[q]
    BY DEF PassSaves
  <1> USE DEF Goto, Local, TypeInv
  <1> DEFINE Old == /\ op[q] = "consume" /\ took[q] # NoEntry
                    /\ pc[q] \in {"unlock", "return", "audit", "exited"}
                    /\ saved[q] => saved'[q]
  <1>1. ASSUME Old PROVE saved'[q]
    BY <1>1 DEF PassSaves
  <1>2. ASSUME NEW p \in Hooks, Begin(p) PROVE Old
    <2>1. pc[p] = "new" /\ UNCHANGED <<took, saved>>
      BY <1>2 DEF Begin, Ignore, Malformed, StartPre, StartPrompt
    <2>2. p # q
      BY <2>1 DEF Progress
    <2>3. op'[q] = op[q] /\ pc'[q] = pc[q]
      BY <1>2, <2>2 DEF Begin, Ignore, Malformed, StartPre, StartPrompt, TypeOK
    <2> QED
      BY <2>1, <2>3
  <1>3. ASSUME NEW p \in Hooks, Open(p) \/ Acquire(p) \/ FlockFails(p) \/ Stamp(p) \/ Unlock(p)
        PROVE  Old
    <2>1. UNCHANGED <<op, took, saved>>
      BY <1>3 DEF Open, Acquire, FlockFails, Stamp, Unlock
    <2>2. pc[q] \in {"unlock", "return", "audit", "exited"} \/ pc[q] = "open"
      BY <1>3 DEF Open, Acquire, FlockFails, Stamp, Unlock, TypeOK
    <2> QED
      BY <2>1, <2>2 DEF Progress
  <1>4. ASSUME NEW p \in Hooks, Mutate(p) PROVE Old
    <2>1. p # q
      BY <1>4 DEF Mutate, TypeOK
    <2> QED
      BY <1>4, <2>1 DEF Mutate, RecordFn, ApproveFn, ConsumeFn, TypeOK
  <1>5. ASSUME NEW p \in Hooks, Save(p) PROVE saved'[q]
    <2>1. saved' = [saved EXCEPT ![p] = TRUE]
      BY <1>5 DEF Save
    <2>2. CASE q = p
      BY <2>1, <2>2 DEF TypeOK
    <2>3. CASE q # p
      BY <1>1, <1>5, <2>1, <2>3 DEF Save, TypeOK
    <2> QED
      BY <2>2, <2>3
  <1>6. ASSUME NEW p \in Hooks, Caller(p) PROVE Old
    <2>1. CASE Evaluate(p)
      <3>1. pc[p] = "evaluate" /\ took' = took /\ p # q
        BY <2>1 DEF Evaluate, Progress
      <3> QED
        BY <2>1, <3>1 DEF Evaluate, TypeOK
    <2>2. CASE ReturnConsume(p) \/ ReturnRecord(p) \/ Emit(p) \/ Audit(p) \/ ReturnApprove(p)
      <3>1. UNCHANGED <<op, took, saved>>
        BY <2>2 DEF ReturnConsume, ReturnRecord, Emit, Audit, ReturnApprove
      <3>2. pc[q] \in {"unlock", "return", "audit", "exited"} \/ pc[q] = "emit"
        BY <2>2 DEF ReturnConsume, ReturnRecord, Emit, Audit, ReturnApprove, TypeOK
      <3> QED
        BY <3>1, <3>2 DEF Progress
    <2> QED
      BY <1>6, <2>1, <2>2 DEF Caller
  <1>7. ASSUME NEW p \in Hooks, Kill(p) PROVE Old
    BY <1>7 DEF Kill, TypeOK
  <1>8. ASSUME Tick \/ UNCHANGED vars PROVE Old
    BY <1>8 DEF Tick, vars
  <1> QED
    BY <1>1, <1>2, <1>3, <1>4, <1>5, <1>6, <1>7, <1>8 DEF Next, Run, Store, Finished

\* One approval lets one retry pass: of any number of hooks, interleaved in
\* any way and killed anywhere, no two that let their command run have taken
\* the same approval.  The two assumptions are those that the code leaves
\* unchecked; without either of them the property fails.
THEOREM ApprovalSpentOnce ==
  ASSUME "flock" \notin Faults, "save" \notin Faults
  PROVE  Spec => []SpentOnce
  <1>1. Init => PassSaves
    BY DEF Init, PassSaves
  <1>2. CreditInv /\ PassSaves /\ [Next]_vars => PassSaves'
    BY PassSavesNext DEF CreditInv
  <1>3. CreditInv /\ PassSaves => SpentOnce
    BY DEF CreditInv, TakenOnce, PassSaves, SpentOnce, Passed
  <1> QED
    BY <1>1, <1>2, <1>3, CreditsInvariant, PTL DEF Spec

-----------------------------------------------------------------------------
(* What a step may change.                                                 *)

\* A hook looks at the clock before it has taken or saved anything, and what
\* it writes down is the second that it reads.
LEMMA StampKept ==
  ASSUME TypeInv, Progress, [Next]_vars, NEW q \in Hooks
  PROVE  /\ saved[q] \/ took[q] # NoEntry => stamp'[q] = stamp[q]
         /\ stamp'[q] # stamp[q] => Stamp(q) /\ stamp'[q] = clock
         /\ clock <= clock'
  <1> USE DEF Goto, Local, TypeInv
  <1> DEFINE Still == stamp' = stamp /\ clock' = clock
  <1>0. clock \in Nat
    BY DEF TypeOK
  <1>1. ASSUME NEW p \in Hooks, Begin(p) PROVE Still
    BY <1>1 DEF Begin, Ignore, Malformed, StartPre, StartPrompt
  <1>2. ASSUME NEW p \in Hooks, Open(p) \/ Acquire(p) \/ FlockFails(p) \/ Unlock(p) PROVE Still
    BY <1>2 DEF Open, Acquire, FlockFails, Unlock
  <1>3. ASSUME NEW p \in Hooks, Mutate(p) \/ Save(p) \/ Kill(p) PROVE Still
    BY <1>3 DEF Mutate, Save, Kill
  <1>4. ASSUME NEW p \in Hooks, Caller(p) PROVE Still
    BY <1>4 DEF Caller, ReturnConsume, Evaluate, ReturnRecord, Emit, Audit, ReturnApprove
  <1>5. ASSUME NEW p \in Hooks, Stamp(p)
        PROVE  /\ clock' = clock
               /\ p # q => stamp'[q] = stamp[q]
               /\ stamp'[p] = clock
               /\ ~saved[p] /\ took[p] = NoEntry
    BY <1>5 DEF Stamp, TypeOK, Progress
  <1>6. CASE Tick
    BY <1>0, <1>6 DEF Tick
  <1>7. CASE UNCHANGED vars
    BY <1>0, <1>7 DEF vars
  <1> QED
    BY <1>0, <1>1, <1>2, <1>3, <1>4, <1>5, <1>6, <1>7 DEF Next, Run, Store, Finished

\* A hook takes an entry only in its closure, and takes it from what it has
\* loaded: a pending one of its session, or the approval of its command.
LEMMA TookFrom ==
  ASSUME TypeInv, [Next]_vars, NEW q \in Hooks, took[q] = NoEntry, took'[q] # NoEntry
  PROVE  /\ Mutate(q) /\ pc[q] = "mutate" /\ UNCHANGED <<clock, file, req, op, stamp, saved>>
         /\ \E k \in Keys :
              \/ /\ op[q] = "approve" /\ req[q] \in PromptRequest
                 /\ k[1] = req[q].session
                 /\ took'[q] = Loaded(q).pending[k]
              \/ /\ op[q] = "consume" /\ req[q] \in PreRequest
                 /\ k = ReqKey(q)
                 /\ took'[q] = Loaded(q).approved[k]
                 /\ took'[q].command = req[q].command
  <1>1. Mutate(q)
    BY DEF Next, Begin, Run, Store, Caller, Finished, Ignore, Malformed, StartPre,
       StartPrompt, Open, Acquire, FlockFails, Stamp, Mutate, RecordFn, ApproveFn, ConsumeFn,
       Save, Unlock, ReturnConsume, Evaluate, ReturnRecord, Emit, Audit, ReturnApprove, Kill,
       Tick, Local, vars, TypeInv, TypeOK
  <1>2. pc[q] = "mutate" /\ UNCHANGED <<clock, file, req, op, stamp, saved>>
    BY <1>1 DEF Mutate, Goto
  <1>3. CASE ApproveFn(q)
    <2>1. req[q] \in PromptRequest
      BY <1>3 DEF ApproveFn, TypeInv, Inputs
    <2>2. PICK k \in Matches(Loaded(q), req[q].session, req[q].prefix) :
               took' = [took EXCEPT ![q] = Loaded(q).pending[k]]
      BY <1>3 DEF ApproveFn
    <2>3. k \in Keys /\ k[1] = req[q].session
      BY <2>1, StateAssumption DEF Matches, Keys, PromptRequest
    <2>4. took'[q] = Loaded(q).pending[k]
      BY <2>2 DEF TypeInv, TypeOK
    <2> QED
      BY <1>1, <1>2, <1>3, <2>1, <2>3, <2>4 DEF ApproveFn
  <1>4. CASE ConsumeFn(q)
    <2>1. req[q] \in PreRequest /\ ReqKey(q) \in Keys
      BY <1>4, ReqKeyType DEF ConsumeFn, TypeInv, Inputs
    <2>2. /\ Honours(Loaded(q).approved[ReqKey(q)], req[q].command)
          /\ took'[q] = Loaded(q).approved[ReqKey(q)]
      BY <1>4 DEF ConsumeFn, TypeInv, TypeOK
    <2> QED
      BY <1>1, <1>2, <1>4, <2>1, <2>2 DEF ConsumeFn, Honours
  <1> QED
    BY <1>1, <1>3, <1>4 DEF Mutate, RecordFn

\* What was loaded and is there is in the file, and has not expired.
LEMMA LoadedAlive ==
  ASSUME TypeInv, NEW q \in Hooks, NEW k \in Keys
  PROVE  /\ Loaded(q).pending[k] # NoEntry =>
              /\ Loaded(q).pending[k] = file.pending[k]
              /\ file.pending[k] \in Entry /\ stamp[q] < file.pending[k].expires
         /\ Loaded(q).approved[k] # NoEntry =>
              /\ Loaded(q).approved[k] = file.approved[k]
              /\ file.approved[k] \in Entry /\ stamp[q] < file.approved[k].expires
  <1>1. stamp[q] \in Nat /\ file.pending[k] \in Entry \cup {NoEntry}
                         /\ file.approved[k] \in Entry \cup {NoEntry}
    BY DEF TypeInv, TypeOK, State, Book
  <1>2. /\ Loaded(q).pending[k] = IF Expired(file.pending[k], stamp[q]) THEN NoEntry ELSE file.pending[k]
        /\ Loaded(q).approved[k] = IF Expired(file.approved[k], stamp[q]) THEN NoEntry ELSE file.approved[k]
    BY DEF Loaded, Cleanup, CleanBook
  <1>3. ASSUME NEW e \in Entry, ~Expired(e, stamp[q]) PROVE stamp[q] < e.expires
    <2>1. e # NoEntry /\ e.expires \in Nat
      BY NoEntryAssumption DEF Entry
    <2> QED
      BY <1>1, <1>3, <2>1 DEF Expired
  <1> QED
    BY <1>1, <1>2, <1>3

\* The writer of an entry of the file is a hook that has saved it.
LEMMA WriterSaved ==
  ASSUME TypeInv, Written, NEW k \in Keys
  PROVE  /\ file.pending[k] # NoEntry =>
              file.pending[k].by \in Hooks /\ saved[file.pending[k].by]
         /\ file.approved[k] # NoEntry =>
              file.approved[k].by \in Hooks /\ saved[file.approved[k].by]
  BY DEF Written, Blocked, Approved, TypeInv, TypeOK, State, Book, Entry

-----------------------------------------------------------------------------
(* The life of an entry.                                                   *)

\* A new entry lives from the stamp of its writer, and stamps of writers stay.
LEMMA LivesNext ==
  ASSUME TypeInv, Progress, SavesCurrent, Written, Lives, [Next]_vars
  PROVE  Lives'
  <1>1. ASSUME NEW k \in Keys
        PROVE  /\ file.pending[k] # NoEntry =>
                    file.pending[k].expires = stamp'[file.pending[k].by] + TTL
               /\ file.approved[k] # NoEntry =>
                    file.approved[k].expires = stamp'[file.approved[k].by] + TTL
    BY WriterSaved, StampKept DEF Lives
  <1>2. CASE file' = file
    BY <1>1, <1>2 DEF Lives
  <1>3. ASSUME NEW p \in Hooks, Save(p), file' = mem[p]
        PROVE  Lives'
    <2>1. pc[p] = "save" /\ stamp' = stamp
      BY <1>3 DEF Save, Goto
    <2>2. ASSUME NEW k \in Keys, file'.pending[k] # NoEntry
          PROVE  file'.pending[k].expires = stamp'[file'.pending[k].by] + TTL
      <3>1. InPending(p, k)
        BY <1>3, <2>1, <2>2, MemEffect
      <3> QED
        BY <1>1, <1>3, <2>1, <2>2, <3>1 DEF InPending, NewEntry
    <2>3. ASSUME NEW k \in Keys, file'.approved[k] # NoEntry
          PROVE  file'.approved[k].expires = stamp'[file'.approved[k].by] + TTL
      <3>1. InApproved(p, k)
        BY <1>3, <2>1, <2>3, MemEffect
      <3> QED
        BY <1>1, <1>3, <2>1, <2>3, <3>1 DEF InApproved, NewEntry
    <2> QED
      BY <2>2, <2>3 DEF Lives
  <1> QED
    BY <1>2, <1>3, OnlySaves

\* Between the stamp of a hook and its closure nobody else writes the file.
LEMMA StampsNext ==
  ASSUME TypeInv, Locking, Progress, Written, Stamps, [Next]_vars
  PROVE  Stamps'
  <1>1. /\ clock \in Nat /\ clock' \in Nat /\ clock <= clock'
        /\ \A p \in Hooks : stamp[p] \in Nat /\ stamp'[p] \in Nat
    <2>1. TypeInv'
      BY TypeNext
    <2>2. clock <= clock' \/ Hooks = {}
      BY StampKept
    <2>3. clock <= clock'
      BY <2>2 DEF Next, Tick, Finished, vars, TypeInv, TypeOK
    <2> QED
      BY <2>1, <2>3 DEF TypeInv, TypeOK
  <1>2. \A p \in Hooks : stamp'[p] <= clock'
    <2> TAKE p \in Hooks
    <2>1. stamp'[p] = stamp[p] \/ stamp'[p] = clock
      BY StampKept
    <2> QED
      BY <1>1, <2>1 DEF Stamps
  <1>3. ASSUME NEW p \in Hooks, pc'[p] = "mutate", NEW k \in Keys, NEW b \in Hooks, saved[b],
               \/ file.pending[k] # NoEntry /\ b = file.pending[k].by
               \/ file.approved[k] # NoEntry /\ b = file.approved[k].by
        PROVE  stamp'[b] <= stamp'[p]
    <2>1. stamp'[b] = stamp[b]
      BY <1>3, StampKept
    <2>2. CASE Stamp(p)
      <3>1. stamp'[p] = clock
        BY <2>2 DEF Stamp, TypeInv, TypeOK
      <3> QED
        BY <2>1, <3>1 DEF Stamps
    <2>3. CASE pc[p] = "mutate" /\ stamp'[p] = stamp[p]
      BY <1>3, <2>1, <2>3 DEF Stamps
    <2>4. Stamp(p) \/ (pc[p] = "mutate" /\ stamp'[p] = stamp[p])
      <3>1. pc[p] = "mutate" \/ Stamp(p)
        BY <1>3 DEF Next, Begin, Run, Store, Caller, Finished, Ignore, Malformed, StartPre,
           StartPrompt, Open, Acquire, FlockFails, Stamp, Mutate, Save, Unlock, ReturnConsume,
           Evaluate, ReturnRecord, Emit, Audit, ReturnApprove, Kill, Tick, vars, Goto, TypeInv, TypeOK
      <3> QED
        BY <3>1, StampKept
    <2> QED
      BY <2>2, <2>3, <2>4
  <1>4. ASSUME NEW p \in Hooks, pc'[p] = "mutate" PROVE file' = file
    <2>1. ASSUME NEW r \in Hooks, Save(r) PROVE FALSE
      <3>1. pc[r] = "save" /\ pc' = [pc EXCEPT ![r] = "unlock"]
        BY <2>1 DEF Save, Goto
      <3>2. p # r /\ pc[p] = "mutate"
        BY <1>4, <3>1 DEF TypeInv, TypeOK
      <3> QED
        BY <3>1, <3>2 DEF Locking, Inside
    <2> QED
      BY <2>1, OnlySaves
  <1> QED
    BY <1>2, <1>3, <1>4, WriterSaved DEF Stamps

\* What a hook takes has not expired at its stamp, and was there before it.
LEMMA WithinNext ==
  ASSUME TypeInv, Progress, Written, Sources, Lives, Stamps, WithinTTL, [Next]_vars
  PROVE  WithinTTL'
  <1> SUFFICES ASSUME NEW q \in Hooks, took'[q] # NoEntry
               PROVE  /\ stamp'[q] >= stamp'[took'[q].by]
                      /\ stamp'[q] < stamp'[took'[q].by] + TTL
    BY DEF WithinTTL
  <1>0. \A p \in Hooks : stamp[p] \in Nat
    BY DEF TypeInv, TypeOK
  <1>1. CASE took[q] # NoEntry
    <2>1. took'[q] = took[q] /\ stamp'[q] = stamp[q]
      BY <1>1, Kept, StampKept
    <2>2. took[q].by \in Hooks /\ saved[took[q].by]
      BY <1>1, TakenFromSaved DEF TypeInv, TypeOK, Entry
    <2>3. stamp'[took[q].by] = stamp[took[q].by]
      BY <2>2, StampKept
    <2> QED
      BY <1>1, <2>1, <2>3 DEF WithinTTL
  <1>2. CASE took[q] = NoEntry
    <2>1. pc[q] = "mutate" /\ stamp' = stamp
      BY <1>2, TookFrom
    <2>2. PICK k \in Keys : took'[q] = Loaded(q).pending[k] \/ took'[q] = Loaded(q).approved[k]
      BY <1>2, TookFrom
    <2>3. \/ took'[q] = file.pending[k] /\ file.pending[k] # NoEntry
          \/ took'[q] = file.approved[k] /\ file.approved[k] # NoEntry
      BY <2>2, LoadedAlive
    <2>4. stamp[q] < took'[q].expires
      BY <2>2, LoadedAlive
    <2>5. took'[q].expires = stamp[took'[q].by] + TTL
      BY <2>3 DEF Lives
    <2>6. stamp[took'[q].by] <= stamp[q] /\ took'[q].by \in Hooks
      BY <2>1, <2>3, WriterSaved DEF Stamps
    <2> QED
      BY <1>0, <2>1, <2>4, <2>5, <2>6
  <1> QED
    BY <1>1, <1>2

\* An approval is used, and a block approved, within TTL of when it was
\* given, for any number of hooks and however long they wait for the lock.
THEOREM UsedWithinTTL ==
  ASSUME "flock" \notin Faults
  PROVE  Spec => []WithinTTL
  <1>1. Init => Lives /\ Stamps /\ WithinTTL
    BY HooksAssumption DEF Init, Lives, Stamps, WithinTTL, EmptyState, EmptyBook
  <1>2. CreditInv /\ Lives /\ Stamps /\ WithinTTL /\ [Next]_vars => (Lives /\ Stamps /\ WithinTTL)'
    BY LivesNext, StampsNext, WithinNext DEF CreditInv
  <1> QED
    BY <1>1, <1>2, CreditsInvariant, PTL DEF Spec

-----------------------------------------------------------------------------
(* Where an approval comes from.                                           *)

\* What a hook takes was written for its own session, and for its command.
LEMMA ProvenanceNext ==
  ASSUME TypeInv, Progress, Written, Sources, Provenance, [Next]_vars
  PROVE  Provenance'
  <1> DEFINE Origin(q) ==
        /\ op[q] = "approve" => /\ op[took[q].by] = "record"
                                /\ req[took[q].by].session = req[q].session
                                /\ req[took[q].by].command = took[q].command
        /\ op[q] = "consume" => ApprovedBy(q, took[q].by)
  <1> SUFFICES ASSUME NEW q \in Hooks, took'[q] # NoEntry PROVE Origin(q)'
    BY DEF Provenance
  <1>1. CASE took[q] # NoEntry
    <2>1. took'[q] = took[q] /\ op'[q] = op[q] /\ req'[q] = req[q]
      BY <1>1, Kept
    <2>2. took[q].by \in Hooks
      BY <1>1 DEF TypeInv, TypeOK, Entry
    <2>3. Origin(q)
      BY <1>1 DEF Provenance
    <2>4. CASE op[q] = "approve"
      <3>1. Blocked(took[q].by)
        BY <1>1, <2>4, TakenFromSaved
      <3>2. op'[took[q].by] = op[took[q].by] /\ req'[took[q].by] = req[took[q].by]
        BY <2>2, <3>1, Kept DEF Blocked
      <3> QED
        BY <2>1, <2>3, <2>4, <3>2
    <2>5. CASE op[q] = "consume"
      <3> DEFINE a == took[q].by
                 b == took[a].by
      <3>1. Approved(a)
        BY <1>1, <2>5, TakenFromSaved
      <3>2. op'[a] = op[a] /\ req'[a] = req[a] /\ took'[a] = took[a]
        BY <2>2, <3>1, Kept DEF Approved
      <3>3. Blocked(b)
        BY <2>2, <3>1, TakenFromSaved DEF Approved
      <3>4. b \in Hooks
        BY <2>2, <3>1 DEF Approved, TypeInv, TypeOK, Entry
      <3>5. op'[b] = op[b] /\ req'[b] = req[b]
        BY <3>3, <3>4, Kept DEF Blocked
      <3>6. ApprovedBy(q, a)
        BY <2>3, <2>5
      <3>7. ApprovedBy(q, a)'
        BY <2>1, <3>2, <3>5, <3>6 DEF ApprovedBy
      <3> QED
        BY <2>1, <2>5, <3>7
    <2>6. op[q] = "approve" \/ op[q] = "consume"
      BY <1>1, TakenFromSaved
    <2> QED
      BY <2>4, <2>5, <2>6
  <1>2. CASE took[q] = NoEntry
    <2>1. UNCHANGED <<file, req, op>> /\ took'[q] \in Entry \cup {NoEntry}
      BY <1>2, TookFrom, TypeNext DEF TypeInv, TypeOK
    <2>2. PICK k \in Keys :
              \/ /\ op[q] = "approve" /\ req[q] \in PromptRequest
                 /\ k[1] = req[q].session
                 /\ took'[q] = Loaded(q).pending[k]
              \/ /\ op[q] = "consume" /\ req[q] \in PreRequest
                 /\ k = ReqKey(q)
                 /\ took'[q] = Loaded(q).approved[k]
                 /\ took'[q].command = req[q].command
      BY <1>2, TookFrom
    <2>3. CASE op[q] = "approve"
      <3> DEFINE e == file.pending[k]
      <3>1. took'[q] = e /\ e # NoEntry /\ k[1] = req[q].session
        BY <2>2, <2>3, LoadedAlive
      <3>2. Blocked(e.by) /\ k = ReqKey(e.by) /\ e.command = req[e.by].command
        BY <3>1 DEF Written
      <3>3. req[e.by].session = req[q].session
        BY <3>1, <3>2 DEF ReqKey, KeyOf
      <3> QED
        BY <2>1, <2>3, <3>1, <3>2, <3>3 DEF Blocked
    <2>4. CASE op[q] = "consume"
      <3> DEFINE e == file.approved[k]
                 a == e.by
                 b == took[a].by
      <3>1. /\ took'[q] = e /\ e # NoEntry /\ e.command = req[q].command
            /\ k = ReqKey(q) /\ e \in Entry
        BY <2>2, <2>4, LoadedAlive
      <3>2. /\ Approved(a) /\ a \in Hooks
            /\ k = KeyOf(req[a].session, took[a].command)
            /\ e.command = took[a].command
        BY <3>1 DEF Written, Entry
      <3>3. req[a].session = req[q].session
        BY <3>1, <3>2 DEF ReqKey, KeyOf
      <3>4. took'[a] = took[a]
        BY <3>2, Kept DEF Approved
      <3>5. /\ op[b] = "record"
            /\ req[b].session = req[a].session
            /\ req[b].command = took[a].command
        BY <3>2 DEF Provenance, Approved
      <3>6. ApprovedBy(q, a)'
        BY <2>1, <3>1, <3>2, <3>3, <3>4, <3>5 DEF ApprovedBy, Approved
      <3> QED
        BY <2>1, <2>4, <3>1, <3>6
    <2> QED
      BY <2>1, <2>2, <2>3, <2>4
  <1> QED
    BY <1>1, <1>2

\* A hook is silent about a risky command only after it took an approval.
LEMMA SilencesNext ==
  ASSUME TypeInv, Progress, Silences, [Next]_vars
  PROVE  Silences'
  <1> USE DEF Goto, Local, Inside, Ended, TypeInv
  <1> DEFINE Quiet(q) ==
        /\ pc[q] = "new" => req[q] = NoReq
        /\ pc[q] \notin {"audit"} \cup Ended => reply[q] = "none"
        /\ AlwaysRisky(q) /\ (reply[q] = "silent" \/ (pc[q] = "audit" /\ reply[q] = "none"))
             => op[q] = "consume" /\ took[q] # NoEntry
  <1> SUFFICES ASSUME NEW q \in Hooks PROVE Quiet(q)'
    BY DEF Silences
  <1>0. Quiet(q)
    BY DEF Silences
  <1>1. ASSUME pc'[q] = pc[q] /\ req'[q] = req[q] /\ reply'[q] = reply[q]
               /\ op'[q] = op[q] /\ took'[q] = took[q]
        PROVE  Quiet(q)'
    BY <1>0, <1>1 DEF AlwaysRisky, IsPre
  <1>2. ASSUME reply'[q] = "none", pc'[q] \notin {"new", "audit"} PROVE Quiet(q)'
    BY <1>2
  <1>3. ASSUME NEW p \in Hooks, Ignore(p) \/ Malformed(p) PROVE Quiet(q)'
    <2>1. req' = req /\ pc[p] = "new" /\ pc' = [pc EXCEPT ![p] = "exited"]
      BY <1>3 DEF Ignore, Malformed
    <2>2. CASE p = q
      BY <1>0, <2>1, <2>2, NoReqAssumption DEF AlwaysRisky, IsPre, TypeOK
    <2>3. CASE p # q
      BY <1>1, <1>3, <2>3 DEF Ignore, Malformed, TypeOK
    <2> QED
      BY <2>2, <2>3
  <1>4. ASSUME NEW p \in Hooks, NEW s \in Sessions, NEW c \in Commands, NEW m \in Modes,
               StartPre(p, s, c, m)
        PROVE  Quiet(q)'
    <2>1. CASE p # q
      BY <1>1, <1>4, <2>1 DEF StartPre, TypeOK
    <2>2. CASE p = q
      <3>1. pc[q] = "new" /\ req'[q] = [session |-> s, command |-> c, mode |-> m]
        BY <1>4, <2>2 DEF StartPre, TypeOK
      <3>2. CASE m \in {"off", "disabled"} /\ pc'[q] = "exited"
        BY <3>1, <3>2 DEF AlwaysRisky
      <3>3. CASE pc'[q] \in {"open", "evaluate"} /\ reply' = reply
        BY <1>0, <1>2, <3>1, <3>3
      <3> QED
        BY <1>4, <2>2, <3>2, <3>3 DEF StartPre, TypeOK
    <2> QED
      BY <2>1, <2>2
  <1>5. ASSUME NEW p \in Hooks, NEW s \in Sessions, NEW x \in Prefixes, StartPrompt(p, s, x)
        PROVE  Quiet(q)'
    <2>1. CASE p # q
      BY <1>1, <1>5, <2>1 DEF StartPrompt, TypeOK
    <2>2. CASE p = q
      BY <1>0, <1>2, <1>5, <2>2 DEF StartPrompt, TypeOK
    <2> QED
      BY <2>1, <2>2
  <1>6. ASSUME NEW p \in Hooks, Store(p) \/ FlockFails(p) PROVE Quiet(q)'
    <2>1. /\ pc[p] \in {"open", "flock"} \cup Inside
          /\ \E n \in {"flock", "return"} \cup Inside : pc' = [pc EXCEPT ![p] = n]
          /\ UNCHANGED <<req, op, reply>>
      BY <1>6 DEF Store, Open, Acquire, FlockFails, Stamp, Mutate, Save, Unlock
    <2>2. CASE p # q
      <3>1. took'[q] = took[q]
        BY <1>6, <2>2 DEF Store, Open, Acquire, FlockFails, Stamp, Mutate, RecordFn, ApproveFn,
                          ConsumeFn, Save, Unlock, TypeOK
      <3> QED
        BY <1>1, <2>1, <2>2, <3>1 DEF TypeOK
    <2>3. CASE p = q
      <3>1. reply'[q] = "none" /\ pc'[q] \in {"flock", "return"} \cup Inside
        BY <1>0, <2>1, <2>3 DEF TypeOK
      <3> QED
        BY <1>2, <3>1
    <2> QED
      BY <2>2, <2>3
  <1>7. ASSUME NEW p \in Hooks, Caller(p), p # q PROVE Quiet(q)'
    BY <1>1, <1>7 DEF Caller, ReturnConsume, Evaluate, ReturnRecord, Emit, Audit, ReturnApprove, TypeOK
  <1>8. ASSUME Caller(q) PROVE Quiet(q)'
    <2>1. CASE ReturnConsume(q)
      <3>1. /\ op[q] = "consume" /\ reply'[q] = "none" /\ UNCHANGED <<req, op, took>>
            /\ (pc'[q] = "audit" /\ took[q] # NoEntry) \/ pc'[q] = "evaluate"
        BY <1>0, <2>1 DEF ReturnConsume, TypeOK
      <3> QED
        BY <3>1
    <2>2. CASE Evaluate(q)
      <3>1. PICK level \in Levels[req[q].command] :
                 \/ level = "allow" /\ pc' = [pc EXCEPT ![q] = "audit"]
                 \/ level = "ask" /\ pc' = [pc EXCEPT ![q] = "open"]
        BY <2>2 DEF Evaluate
      <3>2. reply'[q] = "none" /\ req' = req
        BY <1>0, <2>2 DEF Evaluate
      <3>3. CASE pc'[q] = "audit" /\ level = "allow"
        <4>1. ~AlwaysRisky(q)'
          BY <3>1, <3>2, <3>3 DEF AlwaysRisky
        <4> QED
          BY <3>2, <3>3, <4>1
      <3>4. CASE pc'[q] = "open"
        BY <1>2, <3>2, <3>4
      <3> QED
        BY <3>1, <3>3, <3>4 DEF TypeOK
    <2>3. CASE ReturnRecord(q)
      <3>1. reply'[q] = "none" /\ pc'[q] = "emit"
        BY <1>0, <2>3 DEF ReturnRecord, TypeOK
      <3> QED
        BY <1>2, <3>1
    <2>4. CASE Emit(q)
      <3>1. reply'[q] \in {"advise", "deny"} /\ pc'[q] = "audit"
        BY <2>4 DEF Emit, TypeOK
      <3> QED
        BY <3>1
    <2>5. CASE Audit(q)
      <3>1. /\ pc[q] = "audit" /\ pc'[q] = "exited" /\ UNCHANGED <<req, op, took>>
            /\ reply'[q] = IF reply[q] = "none" THEN "silent" ELSE reply[q]
        BY <2>5 DEF Audit, TypeOK
      <3> QED
        BY <1>0, <3>1 DEF AlwaysRisky, IsPre
    <2>6. CASE ReturnApprove(q)
      <3>1. reply'[q] \in {"approved", "refused"} /\ pc'[q] = "exited"
        BY <2>6 DEF ReturnApprove, TypeOK
      <3> QED
        BY <3>1
    <2> QED
      BY <1>8, <2>1, <2>2, <2>3, <2>4, <2>5, <2>6 DEF Caller
  <1>9. ASSUME NEW p \in Hooks, Kill(p) PROVE Quiet(q)'
    <2>1. UNCHANGED <<req, op, took, reply>> /\ pc' = [pc EXCEPT ![p] = "killed"]
      BY <1>9 DEF Kill
    <2>2. pc'[q] \in {pc[q], "killed"}
      BY <2>1 DEF TypeOK
    <2> QED
      BY <1>0, <2>1, <2>2 DEF AlwaysRisky, IsPre
  <1>10. CASE Tick \/ UNCHANGED vars
    BY <1>1, <1>10 DEF Tick, vars
  <1> QED
    BY <1>3, <1>4, <1>5, <1>6, <1>7, <1>8, <1>9, <1>10 DEF Next, Begin, Run, Finished

\* No failing save, no kill and no interleaving lets a command that the rules
\* find risky run in an enforcing mode, unless the user has approved it, in
\* its session, after a block of the same command.
THEOREM RiskyOnlyApproved ==
  ASSUME "flock" \notin Faults
  PROVE  Spec => []RiskyRunsOnlyApproved
  <1>1. Init => Provenance /\ Silences
    BY DEF Init, Provenance, Silences, AlwaysRisky, IsPre, Ended
  <1>2. CreditInv /\ Provenance /\ Silences /\ [Next]_vars => (Provenance /\ Silences)'
    BY ProvenanceNext, SilencesNext DEF CreditInv
  <1>3. Provenance /\ Silences => RiskyRunsOnlyApproved
    BY DEF Provenance, Silences, RiskyRunsOnlyApproved, AlwaysRisky
  <1> QED
    BY <1>1, <1>2, <1>3, CreditsInvariant, PTL DEF Spec

-----------------------------------------------------------------------------
(* The clock of the hook that holds the lock.                              *)

\* Nobody looks at the clock between the look and the rename of the holder.
LEMMA LatestNext ==
  ASSUME TypeInv, Locking, Progress, Stamps, Latest, [Next]_vars
  PROVE  Latest'
  <1> SUFFICES ASSUME NEW p \in Hooks, pc'[p] \in {"mutate", "save"}, NEW q \in Hooks
               PROVE  stamp'[q] <= stamp'[p]
    BY DEF Latest
  <1>0. clock \in Nat /\ \A r \in Hooks : stamp[r] \in Nat /\ stamp[r] <= clock
    BY DEF Stamps, TypeInv, TypeOK
  <1>1. CASE Stamp(p)
    <2>1. stamp'[p] = clock
      BY <1>1 DEF Stamp, TypeInv, TypeOK
    <2>2. stamp'[q] = stamp[q] \/ stamp'[q] = clock
      BY StampKept
    <2> QED
      BY <1>0, <2>1, <2>2
  <1>2. CASE ~Stamp(p)
    <2>1. pc[p] \in {"mutate", "save"}
      BY <1>2 DEF Next, Begin, Run, Store, Caller, Finished, Ignore, Malformed, StartPre,
         StartPrompt, Open, Acquire, FlockFails, Mutate, Save, Unlock, ReturnConsume, Evaluate,
         ReturnRecord, Emit, Audit, ReturnApprove, Kill, Tick, vars, Goto, Stamp, TypeInv, TypeOK
    <2>2. ASSUME NEW r \in Hooks, Stamp(r) PROVE FALSE
      <3>1. pc[r] = "stamp" /\ r # p
        BY <1>2, <2>2 DEF Stamp, Goto
      <3> QED
        BY <2>1, <3>1 DEF Locking, Inside
    <2>3. stamp'[q] = stamp[q] /\ stamp'[p] = stamp[p]
      BY <2>2, StampKept
    <2> QED
      BY <2>1, <2>3 DEF Latest
  <1> QED
    BY <1>1, <1>2

-----------------------------------------------------------------------------
(* The fate of an entry in a rename.                                       *)

\* A hook about to save keeps a pending entry, has found it expired, has
\* taken it, or has overwritten it.
LEMMA PendingFate ==
  ASSUME TypeInv, SavesCurrent, NEW s \in Hooks, pc[s] = "save",
         NEW k \in Keys, file.pending[k] # NoEntry
  PROVE  \/ mem[s].pending[k] = file.pending[k]
         \/ file.pending[k].expires <= stamp[s]
         \/ TakenBy(s, file.pending[k].by)
         \/ /\ op[s] = "record" /\ k = ReqKey(s)
            /\ mem[s].pending[k] # NoEntry /\ mem[s].pending[k].by = s
  <1> USE DEF TypeInv
  <1>1. Based(s) /\ Loaded(s) \in State /\ stamp[s] \in Nat
    BY LoadedType DEF SavesCurrent, TypeOK
  <1>2. Loaded(s).pending[k] = file.pending[k] \/ file.pending[k].expires <= stamp[s]
    BY DEF Loaded, Cleanup, CleanBook, Expired
  <1>3. CASE mem[s] = Loaded(s)
    BY <1>2, <1>3
  <1>4. CASE /\ op[s] = "record"
             /\ mem[s] = WithPending(Loaded(s), ReqKey(s), NewEntry(req[s].command, stamp[s], s))
    <2> DEFINE e == NewEntry(req[s].command, stamp[s], s)
    <2>1. ReqKey(s) \in Keys /\ req[s].command \in Commands
      BY <1>4, ReqKeyType DEF Inputs
    <2>2. e # NoEntry /\ e.by = s
      BY <1>1, <2>1, NewEntryType, NoEntryAssumption DEF NewEntry
    <2>3. mem[s].pending = [Loaded(s).pending EXCEPT ![ReqKey(s)] = e] /\ Loaded(s).pending \in Book
      BY <1>1, <1>4 DEF WithPending, State
    <2>4. mem[s].pending[k] = IF k = ReqKey(s) THEN e ELSE Loaded(s).pending[k]
      BY <2>3 DEF Book
    <2> QED
      BY <1>2, <1>4, <2>2, <2>4
  <1>5. CASE op[s] = "consume" /\ mem[s] = WithoutApproved(Loaded(s), ReqKey(s))
    <2>1. mem[s].pending = Loaded(s).pending
      BY <1>1, <1>5 DEF WithoutApproved, State
    <2> QED
      BY <1>2, <2>1
  <1>6. CASE /\ took[s] # NoEntry
             /\ \E h \in Hashes : LET j == <<req[s].session, h>> IN
                  /\ took[s] = Loaded(s).pending[j]
                  /\ mem[s] = WithApproved(Loaded(s), j, stamp[s], s)
    <2>1. PICK j : took[s] = Loaded(s).pending[j] /\ mem[s] = WithApproved(Loaded(s), j, stamp[s], s)
      BY <1>6
    <2>2. mem[s].pending = [Loaded(s).pending EXCEPT ![j] = NoEntry] /\ Loaded(s).pending \in Book
      BY <1>1, <2>1 DEF WithApproved, State
    <2>3. CASE k = j
      BY <1>2, <1>6, <2>1, <2>3 DEF TakenBy
    <2>4. CASE k # j
      <3>1. mem[s].pending[k] = Loaded(s).pending[k]
        BY <2>2, <2>4 DEF Book
      <3> QED
        BY <1>2, <3>1
    <2> QED
      BY <2>3, <2>4
  <1> QED
    BY <1>1, <1>3, <1>4, <1>5, <1>6 DEF Based

\* The same for an approved entry.
LEMMA ApprovedFate ==
  ASSUME TypeInv, SavesCurrent, Written, NEW s \in Hooks, pc[s] = "save",
         NEW k \in Keys, file.approved[k] # NoEntry
  PROVE  \/ mem[s].approved[k] = file.approved[k]
         \/ file.approved[k].expires <= stamp[s]
         \/ TakenBy(s, file.approved[k].by)
         \/ /\ op[s] = "approve" /\ took[s] # NoEntry
            /\ k = KeyOf(req[s].session, took[s].command)
            /\ mem[s].approved[k] # NoEntry /\ mem[s].approved[k].by = s
  <1> USE DEF TypeInv
  <1>1. Based(s) /\ Loaded(s) \in State /\ stamp[s] \in Nat
    BY LoadedType DEF SavesCurrent, TypeOK
  <1>2. Loaded(s).approved[k] = file.approved[k] \/ file.approved[k].expires <= stamp[s]
    BY DEF Loaded, Cleanup, CleanBook, Expired
  <1>3. CASE mem[s] = Loaded(s)
    BY <1>2, <1>3
  <1>4. CASE mem[s] = WithPending(Loaded(s), ReqKey(s), NewEntry(req[s].command, stamp[s], s))
    <2>1. mem[s].approved = Loaded(s).approved
      BY <1>1, <1>4 DEF WithPending, State
    <2> QED
      BY <1>2, <2>1
  <1>5. CASE /\ took[s] # NoEntry /\ took[s] = Loaded(s).approved[ReqKey(s)]
             /\ mem[s] = WithoutApproved(Loaded(s), ReqKey(s))
    <2>1. mem[s].approved = [Loaded(s).approved EXCEPT ![ReqKey(s)] = NoEntry]
          /\ Loaded(s).approved \in Book
      BY <1>1, <1>5 DEF WithoutApproved, State
    <2>2. CASE k = ReqKey(s)
      BY <1>2, <1>5, <2>2 DEF TakenBy
    <2>3. CASE k # ReqKey(s)
      <3>1. mem[s].approved[k] = Loaded(s).approved[k]
        BY <2>1, <2>3 DEF Book
      <3> QED
        BY <1>2, <3>1
    <2> QED
      BY <2>2, <2>3
  <1>6. CASE op[s] = "approve" /\ took[s] # NoEntry
             /\ \E h \in Hashes : LET j == <<req[s].session, h>> IN
                  /\ took[s] = Loaded(s).pending[j]
                  /\ mem[s] = WithApproved(Loaded(s), j, stamp[s], s)
    <2>1. PICK h \in Hashes : LET j == <<req[s].session, h>> IN
                  /\ took[s] = Loaded(s).pending[j]
                  /\ mem[s] = WithApproved(Loaded(s), j, stamp[s], s)
      BY <1>6
    <2> DEFINE j == <<req[s].session, h>>
               e == NewEntry(took[s].command, stamp[s], s)
    <2>2. mem[s].approved = [Loaded(s).approved EXCEPT ![j] = e] /\ Loaded(s).approved \in Book
      BY <1>1, <2>1 DEF WithApproved, State
    <2>3. CASE k # j
      <3>1. mem[s].approved[k] = Loaded(s).approved[k]
        BY <2>2, <2>3 DEF Book
      <3> QED
        BY <1>2, <3>1
    <2>4. CASE k = j
      <3>1. took[s] \in Entry
        BY <1>6 DEF TypeOK
      <3>2. e # NoEntry /\ e.by = s
        BY <1>1, <3>1, NewEntryType, NoEntryAssumption DEF NewEntry, Entry
      <3>3. mem[s].approved[k] = e
        BY <2>2, <2>4 DEF Book
      <3>4. InApproved(s, k)
        BY <3>2, <3>3, MemEffect
      <3>5. e = file.approved[k] => k = KeyOf(req[s].session, took[s].command)
        BY <1>6, <2>4, <3>2, <3>3, MemEffect DEF Written, Approved, InApproved
      <3> QED
        BY <1>6, <3>2, <3>3, <3>4, <3>5 DEF InApproved
    <2> QED
      BY <2>3, <2>4
  <1> QED
    BY <1>1, <1>3, <1>4, <1>5, <1>6 DEF Based

-----------------------------------------------------------------------------
(* An entry leaves a trace.                                                *)

\* A hook comes to count as one that has blocked, or approved, by its rename.
LEMMA BecomesWriter ==
  ASSUME TypeInv, Progress, [Next]_vars, NEW p \in Hooks
  PROVE  \/ (Blocked(p)' => Blocked(p)) /\ (Approved(p)' => Approved(p))
         \/ Save(p) /\ file' = mem[p] /\ saved' = [saved EXCEPT ![p] = TRUE]
  <1>1. saved'[p] => op'[p] = op[p]
    <2> USE DEF Goto, Local, TypeInv
    <2>1. ASSUME NEW q \in Hooks, Begin(q) PROVE saved'[p] => op'[p] = op[p]
      <3>1. pc[q] = "new" /\ saved' = saved
        BY <2>1 DEF Begin, Ignore, Malformed, StartPre, StartPrompt
      <3>2. p # q => op'[p] = op[p]
        BY <2>1 DEF Begin, Ignore, Malformed, StartPre, StartPrompt, TypeOK
      <3> QED
        BY <3>1, <3>2 DEF Progress
    <2>2. ASSUME NEW q \in Hooks, Evaluate(q) PROVE saved'[p] => op'[p] = op[p]
      BY <2>2 DEF Evaluate, TypeOK
    <2> QED
      BY <2>1, <2>2 DEF Next, Run, Store, Caller, Finished, Open, Acquire, FlockFails, Stamp,
         Mutate, Save, Unlock, ReturnConsume, ReturnRecord, Emit, Audit, ReturnApprove, Kill,
         Tick, vars
  <1>2. CASE saved'[p] => saved[p] /\ took'[p] = took[p]
    BY <1>1, <1>2 DEF Blocked, Approved
  <1>3. ASSUME NEW s \in Hooks, Save(s), file' = mem[s], saved' = [saved EXCEPT ![s] = TRUE]
        PROVE  s # p => (saved'[p] => saved[p] /\ took'[p] = took[p])
    BY <1>3 DEF Save, TypeInv, TypeOK
  <1> QED
    BY <1>2, <1>3, OnlySaves

\* What a writer has written, and who has overwritten it, stays so.
LEMMA HeirKept ==
  ASSUME TypeInv, Progress, [Next]_vars, NEW q \in Hooks, NEW p \in Hooks,
         Heir(q, p), Blocked(p) \/ Approved(p)
  PROVE  Heir(q, p)' /\ KeyBy(p)' = KeyBy(p)
  <1>1. /\ saved[p] /\ op[p] \in {"record", "approve"}
        /\ saved[q] /\ op[q] = op[p]
    BY DEF Heir, Blocked, Approved
  <1>2. /\ saved'[q] /\ op'[q] = op[q] /\ req'[q] = req[q] /\ took'[q] = took[q]
        /\ op'[p] = op[p] /\ req'[p] = req[p] /\ took'[p] = took[p]
    BY <1>1, Kept
  <1>3. stamp'[q] = stamp[q] /\ stamp'[p] = stamp[p]
    BY <1>1, StampKept
  <1>4. KeyBy(p)' = KeyBy(p) /\ KeyBy(q)' = KeyBy(q)
    BY <1>2 DEF KeyBy, ReqKey
  <1> QED
    BY <1>2, <1>3, <1>4 DEF Heir

\* The key of a writer is a key.
LEMMA KeyByType ==
  ASSUME TypeInv, NEW p \in Hooks, Blocked(p) \/ Approved(p)
  PROVE  KeyBy(p) \in Keys
  <1>1. CASE Blocked(p)
    BY <1>1, ReqKeyType DEF Blocked, KeyBy, TypeInv, Inputs
  <1>2. CASE Approved(p)
    <2>1. req[p] \in PromptRequest /\ took[p] \in Entry
      BY <1>2 DEF Approved, TypeInv, TypeOK, Inputs
    <2> QED
      BY <1>2, <2>1, KeyType DEF Approved, KeyBy, PromptRequest, Entry
  <1> QED
    BY <1>1, <1>2

\* A hook that overwrites an entry under the lock is an heir of its writer.
LEMMA Overwrites ==
  ASSUME TypeInv, Progress, Latest, [Next]_vars,
         NEW s \in Hooks, Save(s), saved' = [saved EXCEPT ![s] = TRUE],
         NEW p \in Hooks, Blocked(p) \/ Approved(p), op[s] = op[p], KeyBy(s) = KeyBy(p),
         op[s] = "approve" => took[s] # NoEntry
  PROVE  Heir(s, p)' /\ KeyBy(p)' = KeyBy(p)
  <1>1. pc[s] = "save" /\ UNCHANGED <<op, req, took, stamp>>
    BY DEF Save, Goto
  <1>2. saved'[s] /\ stamp[s] >= stamp[p]
    BY <1>1 DEF Latest, TypeInv, TypeOK
  <1>3. KeyBy(s)' = KeyBy(s) /\ KeyBy(p)' = KeyBy(p)
    BY <1>1 DEF KeyBy, ReqKey
  <1> QED
    BY <1>1, <1>2, <1>3 DEF Heir

\* Once traced, an entry stays so: the rename that makes it disappear is
\* that of a hook that took it, found it expired or overwrote it.
LEMMA TracedKept ==
  ASSUME TypeInv, Progress, SavesCurrent, Written, Lives, Stamps, Latest, [Next]_vars,
         NEW p \in Hooks
  PROVE  /\ Blocked(p) /\ Traced(file.pending, p) => Traced(file.pending, p)'
         /\ Approved(p) /\ Traced(file.approved, p) => Traced(file.approved, p)'
  <1>0. /\ clock \in Nat /\ \A r \in Hooks : stamp[r] \in Nat
        /\ TTL \in Nat
    BY StateAssumption DEF TypeInv, TypeOK
  <1>1. ASSUME saved[p], NEW c \in Hooks, stamp[c] >= stamp[p] + TTL
        PROVE  stamp'[c] >= stamp'[p] + TTL
    <2>1. stamp'[p] = stamp[p]
      BY <1>1, StampKept
    <2>2. stamp'[c] = stamp[c] \/ stamp'[c] = clock
      BY StampKept
    <2> QED
      BY <1>0, <1>1, <2>1, <2>2 DEF Stamps
  <1>2. ASSUME NEW q \in Hooks, NEW r \in Hooks, TakenBy(r, q)
        PROVE  TakenBy(r, q)'
    BY <1>2, Kept DEF TakenBy
  <1>3. ASSUME NEW q \in Hooks, Heir(q, p), NEW s \in Hooks, stamp[s] >= stamp[q] + TTL
        PROVE  stamp[s] >= stamp[p] + TTL
    BY <1>0, <1>3 DEF Heir
  <1> DEFINE k == KeyBy(p)
  <1>4. ASSUME Blocked(p), NEW q \in Hooks, Heir(q, p),
               file.pending[k] # NoEntry, file.pending[k].by = q
        PROVE  Traced(file.pending, p)'
    <2>0. k \in Keys
      BY <1>4, KeyByType
    <2>1. Heir(q, p)' /\ KeyBy(p)' = k
      BY <1>4, HeirKept
    <2>2. CASE file' = file
      BY <1>4, <2>1, <2>2 DEF Traced
    <2>3. ASSUME NEW s \in Hooks, Save(s), file' = mem[s], saved' = [saved EXCEPT ![s] = TRUE]
          PROVE  Traced(file.pending, p)'
      <3>1. pc[s] = "save" /\ took' = took
        BY <2>3 DEF Save, Goto
      <3>2. CASE mem[s].pending[k] = file.pending[k]
        BY <1>4, <2>1, <2>3, <3>2 DEF Traced
      <3>3. CASE file.pending[k].expires <= stamp[s]
        <4>1. stamp[s] >= stamp[q] + TTL
          BY <1>0, <1>4, <2>0, <3>3 DEF Lives
        <4> QED
          BY <1>1, <1>3, <1>4, <4>1 DEF Traced, Blocked
      <3>4. CASE TakenBy(s, q)
        BY <1>2, <2>1, <3>4 DEF Traced
      <3>5. CASE /\ op[s] = "record" /\ k = ReqKey(s)
                 /\ mem[s].pending[k] # NoEntry /\ mem[s].pending[k].by = s
        <4>1. Heir(s, p)'
          BY <1>4, <2>3, <3>5, Overwrites DEF Blocked, KeyBy
        <4> QED
          BY <2>1, <2>3, <3>5, <4>1 DEF Traced
      <3> QED
        BY <1>4, <2>0, <3>1, <3>2, <3>3, <3>4, <3>5, PendingFate
    <2> QED
      BY <2>2, <2>3, OnlySaves
  <1>5. ASSUME Approved(p), NEW q \in Hooks, Heir(q, p),
               file.approved[k] # NoEntry, file.approved[k].by = q
        PROVE  Traced(file.approved, p)'
    <2>0. k \in Keys
      BY <1>5, KeyByType
    <2>1. Heir(q, p)' /\ KeyBy(p)' = k
      BY <1>5, HeirKept
    <2>2. CASE file' = file
      BY <1>5, <2>1, <2>2 DEF Traced
    <2>3. ASSUME NEW s \in Hooks, Save(s), file' = mem[s], saved' = [saved EXCEPT ![s] = TRUE]
          PROVE  Traced(file.approved, p)'
      <3>1. pc[s] = "save" /\ took' = took
        BY <2>3 DEF Save, Goto
      <3>2. CASE mem[s].approved[k] = file.approved[k]
        BY <1>5, <2>1, <2>3, <3>2 DEF Traced
      <3>3. CASE file.approved[k].expires <= stamp[s]
        <4>1. stamp[s] >= stamp[q] + TTL
          BY <1>0, <1>5, <2>0, <3>3 DEF Lives
        <4> QED
          BY <1>1, <1>3, <1>5, <4>1 DEF Traced, Approved
      <3>4. CASE TakenBy(s, q)
        BY <1>2, <2>1, <3>4 DEF Traced
      <3>5. CASE /\ op[s] = "approve" /\ took[s] # NoEntry
                 /\ k = KeyOf(req[s].session, took[s].command)
                 /\ mem[s].approved[k] # NoEntry /\ mem[s].approved[k].by = s
        <4>1. Heir(s, p)'
          BY <1>5, <2>3, <3>5, Overwrites DEF Approved, KeyBy
        <4> QED
          BY <2>1, <2>3, <3>5, <4>1 DEF Traced
      <3> QED
        BY <1>5, <2>0, <3>1, <3>2, <3>3, <3>4, <3>5, ApprovedFate
    <2> QED
      BY <2>2, <2>3, OnlySaves
  <1>6. ASSUME NEW q \in Hooks, Heir(q, p), Blocked(p) \/ Approved(p), NEW r \in Hooks, TakenBy(r, q)
        PROVE  Heir(q, p)' /\ TakenBy(r, q)'
    BY <1>2, <1>6, HeirKept
  <1>7. ASSUME Blocked(p), Traced(file.pending, p) PROVE Traced(file.pending, p)'
    BY <1>1, <1>4, <1>6, <1>7 DEF Traced, Blocked
  <1>8. ASSUME Approved(p), Traced(file.approved, p) PROVE Traced(file.approved, p)'
    BY <1>1, <1>5, <1>6, <1>8 DEF Traced, Approved
  <1> QED
    BY <1>7, <1>8

\* A hook that saves has its own entry in the file.
LEMMA OwnEntry ==
  ASSUME TypeInv, SavesCurrent, Written, NEW p \in Hooks, pc[p] = "save"
  PROVE  /\ op[p] = "record" =>
              mem[p].pending[KeyBy(p)] # NoEntry /\ mem[p].pending[KeyBy(p)].by = p
         /\ op[p] = "approve" /\ took[p] # NoEntry =>
              mem[p].approved[KeyBy(p)] # NoEntry /\ mem[p].approved[KeyBy(p)].by = p
  <1> USE DEF TypeInv
  <1>1. Based(p) /\ Loaded(p) \in State /\ stamp[p] \in Nat
    BY LoadedType DEF SavesCurrent, TypeOK
  <1>2. ASSUME op[p] = "record"
        PROVE  mem[p].pending[KeyBy(p)] # NoEntry /\ mem[p].pending[KeyBy(p)].by = p
    <2> DEFINE e == NewEntry(req[p].command, stamp[p], p)
    <2>1. ReqKey(p) \in Keys /\ req[p].command \in Commands
      BY <1>2, ReqKeyType DEF Inputs
    <2>2. e # NoEntry /\ e.by = p
      BY <1>1, <2>1, NewEntryType, NoEntryAssumption DEF NewEntry
    <2>3. mem[p] = WithPending(Loaded(p), ReqKey(p), e)
      BY <1>1, <1>2 DEF Based
    <2>4. mem[p].pending = [Loaded(p).pending EXCEPT ![ReqKey(p)] = e] /\ Loaded(p).pending \in Book
      BY <1>1, <2>3 DEF WithPending, State
    <2> QED
      BY <1>2, <2>1, <2>2, <2>4 DEF Book, KeyBy
  <1>3. ASSUME op[p] = "approve", took[p] # NoEntry
        PROVE  mem[p].approved[KeyBy(p)] # NoEntry /\ mem[p].approved[KeyBy(p)].by = p
    <2> DEFINE e == NewEntry(took[p].command, stamp[p], p)
    <2>1. PICK h \in Hashes : LET j == <<req[p].session, h>> IN
                  /\ took[p] = Loaded(p).pending[j]
                  /\ mem[p] = WithApproved(Loaded(p), j, stamp[p], p)
      BY <1>1, <1>3 DEF Based
    <2> DEFINE j == <<req[p].session, h>>
    <2>2. j \in Keys
      BY <1>3 DEF Keys, Inputs, PromptRequest
    <2>3. took[p] = file.pending[j]
      BY <1>3, <2>1, <2>2, LoadedSub
    <2>4. j = KeyBy(p)
      <3>1. j = ReqKey(took[p].by) /\ took[p].command = req[took[p].by].command
        BY <1>3, <2>2, <2>3 DEF Written
      <3> QED
        BY <1>3, <3>1 DEF ReqKey, KeyOf, KeyBy
    <2>5. e # NoEntry /\ e.by = p
      <3>1. took[p] \in Entry
        BY <1>3 DEF TypeOK
      <3> QED
        BY <1>1, <3>1, NewEntryType, NoEntryAssumption DEF NewEntry, Entry
    <2>6. mem[p].approved = [Loaded(p).approved EXCEPT ![j] = e] /\ Loaded(p).approved \in Book
      BY <1>1, <2>1 DEF WithApproved, State
    <2> QED
      BY <2>2, <2>4, <2>5, <2>6 DEF Book
  <1> QED
    BY <1>2, <1>3

\* Every entry that was ever saved is traced.
LEMMA TracesNext ==
  ASSUME TypeInv, Progress, SavesCurrent, Written, Lives, Stamps, Latest, Traces, [Next]_vars
  PROVE  Traces'
  <1> SUFFICES ASSUME NEW p \in Hooks
               PROVE  /\ Blocked(p)' => Traced(file.pending, p)'
                      /\ Approved(p)' => Traced(file.approved, p)'
    BY DEF Traces
  <1>1. CASE (Blocked(p)' => Blocked(p)) /\ (Approved(p)' => Approved(p))
    BY <1>1, TracedKept DEF Traces
  <1>2. CASE Save(p) /\ file' = mem[p] /\ saved' = [saved EXCEPT ![p] = TRUE]
    <2>1. pc[p] = "save" /\ UNCHANGED <<op, req, took, stamp>> /\ saved'[p]
      BY <1>2 DEF Save, Goto, TypeInv, TypeOK
    <2>2. stamp'[p] >= stamp'[p]
      BY <2>1 DEF TypeInv, TypeOK
    <2>3. KeyBy(p)' = KeyBy(p)
      BY <2>1 DEF KeyBy, ReqKey
    <2>4. Blocked(p)' \/ Approved(p)' => Heir(p, p)'
      BY <2>2 DEF Heir, Blocked, Approved
    <2> QED
      BY <1>2, <2>1, <2>3, <2>4, OwnEntry DEF Traced, Blocked, Approved
  <1> QED
    BY <1>1, <1>2, BecomesWriter

\* A reply tells what the hook has done.
LEMMA RepliesNext ==
  ASSUME TypeInv, Progress, Replies, [Next]_vars
  PROVE  Replies'
  <1> USE DEF Goto, Local, TypeInv
  <1> SUFFICES ASSUME NEW p \in Hooks
               PROVE  /\ reply'[p] = "approved" => Approved(p)'
                      /\ reply'[p] \in {"deny", "advise"} => op'[p] = "record"
    BY DEF Replies
  <1>1. Approved(p) => Approved(p)'
    BY Kept DEF Approved
  <1>2. CASE op'[p] = op[p] /\ reply'[p] = reply[p]
    BY <1>1, <1>2 DEF Replies
  <1>3. ASSUME NEW q \in Hooks, Begin(q), q = p
        PROVE  reply'[p] \notin {"approved", "deny", "advise"}
    <2>1. op[p] = "none"
      BY <1>3 DEF Begin, Ignore, Malformed, StartPre, StartPrompt, Inputs
    <2>2. reply[p] \notin {"approved", "deny", "advise"}
      BY <2>1 DEF Replies, Approved
    <2>3. reply'[p] \in {reply[p], "silent", "refused"}
      BY <1>3 DEF Begin, Ignore, Malformed, StartPre, StartPrompt, TypeOK
    <2> QED
      BY <2>2, <2>3
  <1>4. ASSUME NEW q \in Hooks, Begin(q), q # p PROVE op'[p] = op[p] /\ reply'[p] = reply[p]
    BY <1>4 DEF Begin, Ignore, Malformed, StartPre, StartPrompt, TypeOK
  <1>5. ASSUME NEW q \in Hooks, Caller(q), q # p PROVE op'[p] = op[p] /\ reply'[p] = reply[p]
    BY <1>5 DEF Caller, ReturnConsume, Evaluate, ReturnRecord, Emit, Audit, ReturnApprove, TypeOK
  <1>6. CASE Evaluate(p)
    <2>1. op[p] # "record" /\ ~Approved(p)
      BY <1>6 DEF Evaluate, Progress, Approved
    <2>2. reply'[p] = reply[p]
      BY <1>6 DEF Evaluate
    <2> QED
      BY <2>1, <2>2 DEF Replies
  <1>7. CASE Emit(p)
    <2>1. op'[p] = "record" /\ reply'[p] \in {"deny", "advise"}
      BY <1>7 DEF Emit, Progress, TypeOK
    <2> QED
      BY <2>1
  <1>8. CASE Audit(p)
    <2>1. op'[p] = op[p] /\ reply'[p] \in {reply[p], "silent"}
      BY <1>8 DEF Audit, TypeOK
    <2> QED
      BY <1>1, <2>1 DEF Replies
  <1>9. CASE ReturnApprove(p)
    <2>1. /\ op[p] = "approve" /\ UNCHANGED <<op, saved, took>>
          /\ reply'[p] = IF saved[p] /\ took[p] # NoEntry THEN "approved" ELSE "refused"
      BY <1>9 DEF ReturnApprove, TypeOK
    <2> QED
      BY <2>1 DEF Approved
  <1> QED
    BY <1>2, <1>3, <1>4, <1>5, <1>6, <1>7, <1>8, <1>9
    DEF Next, Run, Store, Caller, Finished, Open, Acquire, FlockFails, Stamp, Mutate, Save,
        Unlock, ReturnConsume, ReturnRecord, Kill, Tick, vars

-----------------------------------------------------------------------------
(* A prompt that matches two entries.                                      *)

\* The entry of a block that has not expired, was not taken and matches the
\* prompt is found by the closure of approvePrefix.
LEMMA MatchFound ==
  ASSUME TypeInv, Written, Lives, Latest, Traces,
         NEW a \in Hooks, pc[a] = "mutate", op[a] = "approve",
         NEW b \in Hooks, Blocked(b),
         req[b].session = req[a].session,
         HashOf[req[b].command] \in PrefixOf[req[a].prefix],
         stamp[a] < stamp[b] + TTL,
         ~ \E q, r \in Hooks :
              /\ op[r] = "record" /\ ReqKey(r) = ReqKey(b)
              /\ took[q] # NoEntry /\ took[q].by = r
  PROVE  ReqKey(b) \in Matches(Loaded(a), req[a].session, req[a].prefix)
  <1> DEFINE k == ReqKey(b)
  <1>0. /\ \A r \in Hooks : stamp[r] \in Nat
        /\ TTL \in Nat
    BY StateAssumption DEF TypeInv, TypeOK
  <1>1. k \in Keys /\ KeyBy(b) = k
    BY ReqKeyType DEF Blocked, KeyBy, TypeInv, Inputs
  <1>2. ~ \E c \in Hooks : stamp[c] >= stamp[b] + TTL
    BY <1>0 DEF Latest
  <1>3. PICK q \in Hooks :
             /\ Heir(q, b)
             /\ \/ file.pending[k] # NoEntry /\ file.pending[k].by = q
                \/ \E r \in Hooks : TakenBy(r, q)
    BY <1>1, <1>2 DEF Traces, Traced
  <1>4. file.pending[k] # NoEntry /\ file.pending[k].by = q
    BY <1>1, <1>3 DEF Heir, Blocked, KeyBy, TakenBy
  <1>5. file.pending[k].expires = stamp[q] + TTL /\ stamp[q] >= stamp[b]
    BY <1>1, <1>3, <1>4 DEF Lives, Heir
  <1>6. stamp[a] < file.pending[k].expires
    BY <1>0, <1>5
  <1>7. file.pending[k].expires \in Nat /\ stamp[a] \in Nat
    BY <1>1, <1>4 DEF TypeInv, TypeOK, State, Book, Entry
  <1>8. Loaded(a).pending[k] = file.pending[k]
    BY <1>1, <1>6, <1>7 DEF Loaded, Cleanup, CleanBook, Expired
  <1>9. k \in {req[a].session} \X PrefixOf[req[a].prefix]
    BY DEF ReqKey, KeyOf
  <1> QED
    BY <1>4, <1>8, <1>9 DEF Matches

\* The closure of approvePrefix takes an entry only when it is the only one.
LEMMA AmbiguousNext ==
  ASSUME TypeInv, Progress, Written, Sources, Lives, Stamps, Latest, Traces, AmbiguousRefused,
         [Next]_vars
  PROVE  AmbiguousRefused'
  <1> DEFINE Both(a, b) ==
               /\ op[a] = "approve" /\ took[a] # NoEntry
               /\ op[b] = "record" /\ saved[b]
               /\ req[b].session = req[a].session
               /\ HashOf[req[b].command] \in PrefixOf[req[a].prefix]
               /\ HashOf[req[b].command] # HashOf[took[a].command]
               /\ stamp[b] < stamp[a] /\ stamp[a] < stamp[b] + TTL
             Used(b) == \E q, r \in Hooks :
                           /\ op[r] = "record" /\ ReqKey(r) = ReqKey(b)
                           /\ took[q] # NoEntry /\ took[q].by = r
  <1> SUFFICES ASSUME NEW a \in Hooks, NEW b \in Hooks, Both(a, b)' PROVE Used(b)'
    BY DEF AmbiguousRefused
  <1>0. \A r \in Hooks : stamp[r] \in Nat
    BY DEF TypeInv, TypeOK
  <1>1. ASSUME Blocked(b), Used(b) PROVE Used(b)'
    <2>1. PICK q \in Hooks, r \in Hooks :
               /\ op[r] = "record" /\ ReqKey(r) = ReqKey(b)
               /\ took[q] # NoEntry /\ took[q].by = r
      BY <1>1
    <2>2. saved[r]
      BY <2>1, TakenFromSaved
    <2>3. /\ op'[r] = op[r] /\ req'[r] = req[r]
          /\ req'[b] = req[b] /\ took'[q] = took[q]
      BY <1>1, <2>1, <2>2, Kept DEF Blocked
    <2> QED
      BY <2>1, <2>3 DEF ReqKey
  <1>2. CASE Blocked(b) /\ took[a] # NoEntry
    <2>1. /\ took'[a] = took[a] /\ op'[a] = op[a] /\ req'[a] = req[a] /\ stamp'[a] = stamp[a]
          /\ op'[b] = op[b] /\ req'[b] = req[b] /\ stamp'[b] = stamp[b] /\ saved[b]
      BY <1>2, Kept, StampKept DEF Blocked
    <2>2. Both(a, b)
      BY <2>1
    <2> QED
      BY <1>1, <1>2, <2>2 DEF AmbiguousRefused
  <1>3. CASE Blocked(b) /\ took[a] = NoEntry
    <2>1. /\ Mutate(a) /\ pc[a] = "mutate"
          /\ UNCHANGED <<clock, file, req, op, stamp, saved>>
      BY <1>3, TookFrom
    <2> SUFFICES ASSUME ~Used(b) PROVE FALSE
      BY <1>1, <1>3
    <2>2. ReqKey(b) \in Matches(Loaded(a), req[a].session, req[a].prefix)
      BY <1>3, <2>1, MatchFound
    <2>3. PICK k \in Matches(Loaded(a), req[a].session, req[a].prefix) :
               /\ Matches(Loaded(a), req[a].session, req[a].prefix) = {k}
               /\ took' = [took EXCEPT ![a] = Loaded(a).pending[k]]
      <3>1. ApproveFn(a)
        BY <2>1 DEF Mutate, RecordFn, ConsumeFn
      <3> QED
        BY <1>3, <3>1 DEF ApproveFn
    <2>4. k = ReqKey(b) /\ took'[a] = Loaded(a).pending[k] /\ took'[a] # NoEntry
      BY <2>2, <2>3 DEF TypeInv, TypeOK
    <2>5. k \in Keys
      BY <1>3, <2>4, ReqKeyType DEF Blocked, TypeInv, Inputs
    <2>6. took'[a] = file.pending[k] /\ file.pending[k] # NoEntry
      BY <2>4, <2>5, LoadedSub
    <2>7. HashOf[took'[a].command] = HashOf[req[b].command]
      <3>1. PICK h : h = file.pending[k].by
        OBVIOUS
      <3>2. k = ReqKey(h) /\ file.pending[k].command = req[h].command
        BY <2>5, <2>6, <3>1 DEF Written
      <3>3. ReqKey(h) = ReqKey(b)
        BY <2>4, <3>2
      <3>4. HashOf[req[h].command] = HashOf[req[b].command]
        BY <3>3 DEF ReqKey, KeyOf
      <3> QED
        BY <2>6, <3>2, <3>4
    <2> QED
      BY <2>1, <2>7
  <1>4. CASE ~Blocked(b)
    <2>1. Save(b) /\ pc[b] = "save" /\ UNCHANGED <<stamp, took>>
      BY <1>4, BecomesWriter DEF Blocked, Save, Goto
    <2>2. stamp[a] <= stamp[b]
      BY <2>1 DEF Latest
    <2> QED
      BY <1>0, <2>1, <2>2
  <1> QED
    BY <1>2, <1>3, <1>4

-----------------------------------------------------------------------------
(* Theorems about the entries.                                             *)

\* The inductive invariant: an entry that was ever saved leaves a trace.
THEOREM TracesInvariant ==
  ASSUME "flock" \notin Faults
  PROVE  Spec => []TraceInv
  <1>1. Init => Lives /\ Stamps /\ WithinTTL
    BY HooksAssumption DEF Init, Lives, Stamps, WithinTTL, EmptyState, EmptyBook
  <1>2. Init => Latest /\ Traces /\ Replies
    BY DEF Init, Latest, Traces, Replies, Blocked, Approved
  <1>3. /\ CreditInv /\ Lives /\ Stamps /\ WithinTTL /\ Latest /\ Traces /\ Replies
        /\ [Next]_vars
        => (Lives /\ Stamps /\ WithinTTL /\ Latest /\ Traces /\ Replies)'
    BY LivesNext, StampsNext, WithinNext, LatestNext, TracesNext, RepliesNext DEF CreditInv
  <1>4. CreditInv /\ Lives /\ Stamps /\ WithinTTL /\ Latest /\ Traces /\ Replies => TraceInv
    BY DEF TraceInv, LifeInv
  <1> QED
    BY <1>1, <1>2, <1>3, <1>4, CreditsInvariant, PTL DEF Spec

\* Under a lock that works no write of another hook makes an announced entry
\* disappear: a block that the model was told of, or an approval that the
\* user was told of, is on file, has expired, was taken, or was overwritten
\* by a later entry of which the same is true.
THEOREM AnnouncedEntriesKept ==
  ASSUME "flock" \notin Faults
  PROVE  Spec => []AnnouncedNotLost
  <1>1. ASSUME TraceInv PROVE AnnouncedNotLost
    <2> SUFFICES ASSUME NEW p \in Hooks
                 PROVE  /\ reply[p] = "approved" =>
                             Accounted(file.approved, KeyOf(req[p].session, took[p].command), p)
                        /\ reply[p] \in {"deny", "advise"} /\ saved[p] =>
                             Accounted(file.pending, ReqKey(p), p)
      BY DEF AnnouncedNotLost
    <2>0. /\ \A r \in Hooks : stamp[r] \in Nat /\ stamp[r] <= clock
          /\ clock \in Nat /\ TTL \in Nat
      BY <1>1, StateAssumption DEF TraceInv, LifeInv, CreditInv, Stamps, TypeInv, TypeOK
    <2>1. ASSUME NEW book, NEW k, k = KeyBy(p), Traced(book, p) PROVE Accounted(book, k, p)
      <3>1. CASE \E c \in Hooks : stamp[c] >= stamp[p] + TTL
        <4>1. stamp[p] + TTL <= clock
          BY <2>0, <3>1
        <4> QED
          BY <4>1 DEF Accounted
      <3>2. ASSUME NEW q \in Hooks, Heir(q, p),
                   \/ book[k] # NoEntry /\ book[k].by = q
                   \/ \E r \in Hooks : TakenBy(r, q)
            PROVE  Accounted(book, k, p)
        BY <3>2 DEF Accounted, Heir, TakenBy
      <3> QED
        BY <2>1, <3>1, <3>2 DEF Traced
    <2>2. ASSUME reply[p] = "approved"
          PROVE  Accounted(file.approved, KeyOf(req[p].session, took[p].command), p)
      <3>1. Approved(p) /\ Traced(file.approved, p)
        BY <1>1, <2>2 DEF TraceInv, Replies, Traces
      <3> QED
        BY <2>1, <3>1 DEF Approved, KeyBy
    <2>3. ASSUME reply[p] \in {"deny", "advise"}, saved[p]
          PROVE  Accounted(file.pending, ReqKey(p), p)
      <3>1. Blocked(p) /\ Traced(file.pending, p)
        BY <1>1, <2>3 DEF TraceInv, Replies, Traces, Blocked
      <3> QED
        BY <2>1, <3>1 DEF Blocked, KeyBy
    <2> QED
      BY <2>2, <2>3
  <1> QED
    BY <1>1, TracesInvariant, PTL

\* A prompt whose prefix matches two entries that were on file before it
\* approves neither, for any number of sessions, hooks, hashes and prefixes.
THEOREM AmbiguousNeverApproved ==
  ASSUME "flock" \notin Faults
  PROVE  Spec => []AmbiguousRefused
  <1>1. Init => AmbiguousRefused
    BY DEF Init, AmbiguousRefused
  <1>2. TraceInv /\ AmbiguousRefused /\ [Next]_vars => AmbiguousRefused'
    BY AmbiguousNext DEF TraceInv, LifeInv, CreditInv
  <1> QED
    BY <1>1, <1>2, TracesInvariant, PTL DEF Spec

-----------------------------------------------------------------------------
(* The ledger and the hooks speak of the same entries.                     *)

LEMMA SameTerms ==
  /\ Ledger!Keys = Keys /\ Ledger!Book = Book /\ Ledger!EmptyBook = EmptyBook
  /\ \A e, t : Ledger!Expired(e, t) <=> Expired(e, t)
  /\ \A s, c : Ledger!KeyOf(s, c) = KeyOf(s, c)
  /\ \A c, t, h : Ledger!NewEntry(c, t, h) = NewEntry(c, t, h)
  <1>1. Ledger!Keys = Keys
    BY DEF Ledger!Keys, Keys
  <1>2. Ledger!Book = Book /\ Ledger!EmptyBook = EmptyBook
    BY <1>1 DEF Ledger!Book, Book, Ledger!Entry, Entry, Ledger!EmptyBook, EmptyBook
  <1>3. \A e, t : Ledger!Expired(e, t) <=> Expired(e, t)
    BY DEF Ledger!Expired, Expired
  <1>4. \A s, c : Ledger!KeyOf(s, c) = KeyOf(s, c)
    BY DEF Ledger!KeyOf, KeyOf
  <1>5. \A c, t, h : Ledger!NewEntry(c, t, h) = NewEntry(c, t, h)
    BY DEF Ledger!NewEntry, NewEntry
  <1> QED
    BY <1>1, <1>2, <1>3, <1>4, <1>5

\* What a hook finds after cleanup is alive in the ledger's sense.
LEMMA FoundAlive ==
  ASSUME TypeInv, NEW p \in Hooks, NEW k \in Keys
  PROVE  /\ Loaded(p).pending[k] # NoEntry =>
              Loaded(p).pending[k] = file.pending[k] /\ Ledger!Alive(file.pending[k], stamp[p])
         /\ Loaded(p).approved[k] # NoEntry =>
              Loaded(p).approved[k] = file.approved[k] /\ Ledger!Alive(file.approved[k], stamp[p])
  <1>1. /\ Loaded(p).pending[k] = IF Expired(file.pending[k], stamp[p]) THEN NoEntry ELSE file.pending[k]
        /\ Loaded(p).approved[k] = IF Expired(file.approved[k], stamp[p]) THEN NoEntry ELSE file.approved[k]
    BY DEF Loaded, Cleanup, CleanBook
  <1> QED
    BY <1>1, SameTerms DEF Ledger!Alive

-----------------------------------------------------------------------------
(* Steps that change no entry.                                             *)

\* What has been issued and what has been taken changes only by a rename.
LEMMA CreditsKept ==
  ASSUME TypeInv, Progress, [Next]_vars,
         \A q \in Hooks : saved'[q] => saved[q] /\ took'[q] = took[q]
  PROVE  Issued' = Issued /\ Taken' = Taken
  <1>1. ASSUME NEW q \in Hooks, saved'[q] PROVE saved[q] /\ took'[q] = took[q] /\ op'[q] = op[q]
    <2>1. saved[q] /\ took'[q] = took[q]
      BY <1>1
    <2>2. (pc[q] # "new" /\ pc[q] # "evaluate") \/ op'[q] = op[q]
      <3>1. CASE pc[q] = "evaluate" /\ op'[q] # op[q]
        <4>1. Evaluate(q)
          BY <3>1 DEF Next, Begin, Run, Store, Caller, Finished, Ignore, Malformed, StartPre,
             StartPrompt, Open, Acquire, FlockFails, Stamp, Mutate, Save, Unlock, ReturnConsume,
             Evaluate, ReturnRecord, Emit, Audit, ReturnApprove, Kill, Tick, Local, vars, Goto,
             TypeInv, TypeOK
        <4>2. ~saved'[q]
          BY <3>1, <4>1 DEF Evaluate, TypeInv, TypeOK
        <4> QED
          BY <1>1, <4>2
      <3>2. CASE pc[q] = "new"
        BY <2>1, <3>2 DEF Progress
      <3> QED
        BY <3>1, <3>2
    <2>3. op'[q] # op[q] => pc[q] = "new" \/ pc[q] = "evaluate"
      BY DEF Next, Begin, Run, Store, Caller, Finished, Ignore, Malformed, StartPre,
         StartPrompt, Open, Acquire, FlockFails, Stamp, Mutate, Save, Unlock, ReturnConsume,
         Evaluate, ReturnRecord, Emit, Audit, ReturnApprove, Kill, Tick, Local, vars, Goto,
         TypeInv, TypeOK
    <2> QED
      BY <2>1, <2>2, <2>3
  <1>2. ASSUME NEW q \in Hooks, saved[q], ~saved'[q] PROVE took[q] = NoEntry /\ op[q] \notin {"record", "approve"}
    <2>1. pc[q] = "evaluate"
      BY <1>2 DEF Next, Begin, Run, Store, Caller, Finished, Ignore, Malformed, StartPre,
         StartPrompt, Open, Acquire, FlockFails, Stamp, Mutate, Save, Unlock, ReturnConsume,
         Evaluate, ReturnRecord, Emit, Audit, ReturnApprove, Kill, Tick, Local, vars, Goto,
         TypeInv, TypeOK
    <2> QED
      BY <1>2, <2>1, Kept DEF Progress
  <1>3. \A q \in Hooks : saved'[q] \in BOOLEAN /\ saved[q] \in BOOLEAN
    BY TypeNext DEF TypeInv, TypeOK
  <1>4. Issued' = Issued
    BY <1>1, <1>2, <1>3 DEF Issued
  <1>5. {q \in Hooks : saved'[q] /\ took'[q] # NoEntry} = {q \in Hooks : saved[q] /\ took[q] # NoEntry}
    BY <1>1, <1>2, <1>3
  <1>6. Taken' = Taken
    BY <1>1, <1>5 DEF Taken
  <1> QED
    BY <1>4, <1>6

\* Only the clock's own step moves the clock, and it moves nothing else.
LEMMA ClockStep ==
  ASSUME TypeInv, [Next]_vars, clock' # clock
  PROVE  clock' > clock /\ clock' \in Nat
  BY DEF Next, Begin, Run, Store, Caller, Finished, Ignore, Malformed, StartPre,
     StartPrompt, Open, Acquire, FlockFails, Stamp, Mutate, Save, Unlock, ReturnConsume,
     Evaluate, ReturnRecord, Emit, Audit, ReturnApprove, Kill, Tick, Local, vars, Goto,
     TypeInv, TypeOK

\* Between renames the ledger stutters, or time passes.
LEMMA QuietStep ==
  ASSUME TypeInv, Progress, [Next]_vars, file' = file,
         \A q \in Hooks : saved'[q] => saved[q] /\ took'[q] = took[q]
  PROVE  [Ledger!LedgerNext]_(Ledger!ledger)
  <1>1. Issued' = Issued /\ Taken' = Taken
    BY CreditsKept
  <1>2. CASE clock' = clock
    BY <1>1, <1>2 DEF Ledger!ledger
  <1>3. CASE clock' # clock
    BY <1>1, <1>3, ClockStep DEF Ledger!LedgerNext, Ledger!Pass
  <1> QED
    BY <1>2, <1>3

-----------------------------------------------------------------------------
(* Renames.                                                                *)

\* Cleanup is what the ledger lets a step do to the entries it is not about.
LEMMA CleanupExpires ==
  ASSUME TypeInv, NEW p \in Hooks
  PROVE  /\ Loaded(p).pending \in Book /\ Loaded(p).approved \in Book
         /\ Ledger!OnlyExpires(file.pending, Loaded(p).pending, {}, stamp[p])
         /\ Ledger!OnlyExpires(file.approved, Loaded(p).approved, {}, stamp[p])
  <1>1. Loaded(p) \in State
    BY LoadedType
  <1>2. \A k \in Keys :
          /\ Loaded(p).pending[k] = IF Expired(file.pending[k], stamp[p]) THEN NoEntry ELSE file.pending[k]
          /\ Loaded(p).approved[k] = IF Expired(file.approved[k], stamp[p]) THEN NoEntry ELSE file.approved[k]
    BY DEF Loaded, Cleanup, CleanBook
  <1>3. /\ Ledger!OnlyExpires(file.pending, Loaded(p).pending, {}, stamp[p])
        /\ Ledger!OnlyExpires(file.approved, Loaded(p).approved, {}, stamp[p])
    BY <1>2, SameTerms DEF Ledger!OnlyExpires
  <1> QED
    BY <1>1, <1>3 DEF State

\* The credits after a rename by p.
LEMMA CreditsAfter ==
  ASSUME TypeInv, Progress, NEW p \in Hooks, Save(p), saved' = [saved EXCEPT ![p] = TRUE]
  PROVE  /\ p \notin Issued
         /\ op[p] = "record" \/ (op[p] = "approve" /\ took[p] # NoEntry)
              => Issued' = Issued \cup {p}
         /\ op[p] = "consume" \/ (op[p] = "approve" /\ took[p] = NoEntry)
              => Issued' = Issued
         /\ took[p] # NoEntry => Taken' = Taken \cup {took[p].by}
         /\ took[p] = NoEntry => Taken' = Taken
  <1>1. /\ ~saved[p] /\ UNCHANGED <<op, took>>
        /\ \A q \in Hooks : saved'[q] <=> (saved[q] \/ q = p)
    BY DEF Save, Goto, Progress, TypeInv, TypeOK
  <1>2. Issued' = {q \in Hooks : /\ saved[q] \/ q = p
                                 /\ op[q] = "record" \/ (op[q] = "approve" /\ took[q] # NoEntry)}
    BY <1>1 DEF Issued
  <1>3. {q \in Hooks : saved'[q] /\ took'[q] # NoEntry}
          = {q \in Hooks : saved[q] /\ took[q] # NoEntry}
              \cup (IF took[p] # NoEntry THEN {p} ELSE {})
    BY <1>1
  <1>4. Taken' = {took[q].by : q \in {r \in Hooks : saved[r] /\ took[r] # NoEntry}
                                       \cup (IF took[p] # NoEntry THEN {p} ELSE {})}
    BY <1>1, <1>3 DEF Taken
  <1>5. (took[p] # NoEntry => Taken' = Taken \cup {took[p].by}) /\ (took[p] = NoEntry => Taken' = Taken)
    BY <1>4 DEF Taken
  <1> QED
    BY <1>1, <1>2, <1>5 DEF Issued

\* A rename that succeeds is one step of the ledger, at the second that its
\* hook stamped.
LEMMA SaveStep ==
  ASSUME TypeInv, Progress, SavesCurrent, Written, Provenance, Stamps, NEW p \in Hooks, Save(p),
         file' = mem[p], saved' = [saved EXCEPT ![p] = TRUE]
  PROVE  Ledger!LedgerNext
  <1>1. /\ pc[p] = "save" /\ clock' = clock /\ stamp[p] \in 0..clock
        /\ file \in State /\ Loaded(p) \in State
    BY LoadedType DEF Save, Goto, Stamps, TypeInv, TypeOK
  <1>2. Based(p)
    BY <1>1 DEF SavesCurrent
  <1>3. /\ file.pending \in Book /\ file.approved \in Book
        /\ Loaded(p).pending \in Book /\ Loaded(p).approved \in Book
        /\ Ledger!OnlyExpires(file.pending, Loaded(p).pending, {}, stamp[p])
        /\ Ledger!OnlyExpires(file.approved, Loaded(p).approved, {}, stamp[p])
    BY <1>1, CleanupExpires DEF State
  <1> DEFINE t == stamp[p]
  <1>4. CASE op[p] \in {"consume", "approve"} /\ took[p] = NoEntry /\ mem[p] = Loaded(p)
    <2>1. Issued' = Issued /\ Taken' = Taken
      BY <1>4, CreditsAfter
    <2>2. Ledger!Forget(t)
      BY <1>1, <1>3, <1>4, <2>1, SameTerms DEF Ledger!Forget
    <2> QED
      BY <1>1, <2>2 DEF Ledger!LedgerNext
  <1>5. CASE /\ op[p] = "record"
             /\ mem[p] = WithPending(Loaded(p), ReqKey(p), NewEntry(req[p].command, t, p))
    <2> DEFINE s == req[p].session
               c == req[p].command
               e == NewEntry(c, t, p)
    <2>1. s \in Sessions /\ c \in Commands /\ ReqKey(p) \in Keys /\ ReqKey(p) = KeyOf(s, c)
      BY <1>5, KeyType DEF TypeInv, Inputs, PreRequest, ReqKey
    <2>2. e \in Entry
      BY <1>1, <2>1, NewEntryType
    <2>3. took[p] = NoEntry
      BY <1>5 DEF Progress
    <2>4. p \notin Issued /\ Issued' = Issued \cup {p} /\ Taken' = Taken
      BY <1>5, <2>3, CreditsAfter
    <2>5. /\ file'.pending = [Loaded(p).pending EXCEPT ![ReqKey(p)] = e]
          /\ file'.approved = Loaded(p).approved
      BY <1>1, <1>5 DEF WithPending, State
    <2>6. /\ file'.pending \in Book /\ file'.pending[KeyOf(s, c)] = e
          /\ Ledger!OnlyExpires(file.pending, file'.pending, {KeyOf(s, c)}, t)
      <3> HIDE DEF e
      <3> QED
        BY <1>3, <2>1, <2>2, <2>5, SameTerms DEF Ledger!OnlyExpires, Book
    <2>7. /\ file'.approved \in Book
          /\ Ledger!OnlyExpires(file.approved, file'.approved, {}, t)
      BY <1>3, <2>5
    <2>8. Ledger!Offer(s, c, p, t)
      <3> HIDE DEF s, c, t
      <3> QED
        BY <1>1, <2>4, <2>6, <2>7, SameTerms DEF Ledger!Offer
    <2> QED
      BY <1>1, <2>1, <2>8, SameTerms DEF Ledger!LedgerNext
  <1>6. CASE /\ op[p] = "consume"
             /\ took[p] # NoEntry
             /\ took[p] = Loaded(p).approved[ReqKey(p)]
             /\ mem[p] = WithoutApproved(Loaded(p), ReqKey(p))
    <2> DEFINE s == req[p].session
               c == req[p].command
               k == ReqKey(p)
    <2>1. s \in Sessions /\ c \in Commands /\ k \in Keys /\ k = KeyOf(s, c)
      BY <1>6, KeyType DEF TypeInv, Inputs, PreRequest, ReqKey
    <2>2. took[p] = file.approved[k] /\ Ledger!Alive(file.approved[k], t)
      BY <1>6, <2>1, FoundAlive
    <2>3. Issued' = Issued /\ Taken' = Taken \cup {took[p].by}
      BY <1>6, CreditsAfter
    <2>4. /\ file'.approved = [Loaded(p).approved EXCEPT ![k] = NoEntry]
          /\ file'.pending = Loaded(p).pending
      BY <1>1, <1>6 DEF WithoutApproved, State
    <2>5. took[p].command = c
      <3>1. ApprovedBy(p, took[p].by)
        BY <1>6 DEF Provenance
      <3>2. took[p] = file.approved[k] /\ file.approved[k] # NoEntry
        BY <1>6, <2>2
      <3>3. Approved(took[p].by) /\ took[p].command = took[took[p].by].command
        BY <2>1, <3>2 DEF Written
      <3>4. took[p].by \in Hooks
        BY <1>6 DEF TypeInv, TypeOK, Entry
      <3>5. req[took[took[p].by].by].command = took[took[p].by].command
        BY <3>3, <3>4 DEF Provenance, Approved
      <3> QED
        BY <3>1, <3>3, <3>5 DEF ApprovedBy
    <2>6. /\ file'.approved \in Book /\ file'.approved[k] = NoEntry
          /\ Ledger!OnlyExpires(file.approved, file'.approved, {k}, t)
      <3> HIDE DEF k
      <3> QED
        BY <1>3, <2>1, <2>4, SameTerms DEF Ledger!OnlyExpires, Book
    <2>7. /\ file'.pending \in Book
          /\ Ledger!OnlyExpires(file.pending, file'.pending, {}, t)
      BY <1>3, <2>4
    <2>8. Ledger!Spend(s, c, t)
      <3> HIDE DEF s, c, k, t
      <3> QED
        BY <1>1, <2>1, <2>2, <2>3, <2>5, <2>6, <2>7, SameTerms DEF Ledger!Spend
    <2> QED
      BY <1>1, <2>1, <2>8, SameTerms DEF Ledger!LedgerNext
  <1>7. CASE /\ op[p] = "approve"
             /\ took[p] # NoEntry
             /\ \E h \in Hashes : LET k == <<req[p].session, h>> IN
                  /\ took[p] = Loaded(p).pending[k]
                  /\ mem[p] = WithApproved(Loaded(p), k, t, p)
    <2>1. PICK h \in Hashes : LET k == <<req[p].session, h>> IN
                  /\ took[p] = Loaded(p).pending[k]
                  /\ mem[p] = WithApproved(Loaded(p), k, t, p)
      BY <1>7
    <2> DEFINE k == <<req[p].session, h>>
               e == NewEntry(took[p].command, t, p)
    <2>2. k \in Keys
      BY <1>7 DEF Keys, TypeInv, Inputs, PromptRequest
    <2>3. took[p] = file.pending[k] /\ Ledger!Alive(file.pending[k], t)
      BY <1>7, <2>1, <2>2, FoundAlive
    <2>4. p \notin Issued /\ Issued' = Issued \cup {p} /\ Taken' = Taken \cup {took[p].by}
      BY <1>7, CreditsAfter
    <2>5. e \in Entry
      BY <1>1, <1>7, NewEntryType DEF TypeInv, TypeOK, Entry
    <2>6. /\ file'.pending = [Loaded(p).pending EXCEPT ![k] = NoEntry]
          /\ file'.approved = [Loaded(p).approved EXCEPT ![k] = e]
      BY <2>1 DEF WithApproved
    <2>7. /\ file'.pending \in Book /\ file'.pending[k] = NoEntry
          /\ Ledger!OnlyExpires(file.pending, file'.pending, {k}, t)
          /\ file'.approved \in Book /\ file'.approved[k] = e
          /\ Ledger!OnlyExpires(file.approved, file'.approved, {k}, t)
      <3> HIDE DEF k, e
      <3> QED
        BY <1>3, <2>2, <2>5, <2>6, SameTerms DEF Ledger!OnlyExpires, Book
    <2>8. e = NewEntry(file.pending[k].command, t, p)
      BY <2>3
    <2>9. Ledger!Grant(k, p, t)
      <3> HIDE DEF k, e, t
      <3> QED
        BY <1>1, <2>3, <2>4, <2>7, <2>8, SameTerms DEF Ledger!Grant
    <2> QED
      BY <1>1, <2>2, <2>9, SameTerms DEF Ledger!LedgerNext
  <1> QED
    BY <1>2, <1>4, <1>5, <1>6, <1>7 DEF Based

-----------------------------------------------------------------------------
(* Theorems about the ledger.                                              *)

\* The refinement: state.json under any number of concurrent hooks, with
\* failing saves and kills, changes as the ledger does.
THEOREM HooksImplementLedger ==
  ASSUME "flock" \notin Faults
  PROVE  Spec => ImplementsLedger
  <1>1. Init => Ledger!LedgerInit
    BY SameTerms DEF Init, Ledger!LedgerInit, Issued, Taken, EmptyState
  <1>2. CreditInv /\ Provenance /\ Stamps /\ [Next]_vars => [Ledger!LedgerNext]_(Ledger!ledger)
    <2> SUFFICES ASSUME CreditInv, Provenance, Stamps, [Next]_vars
                 PROVE  [Ledger!LedgerNext]_(Ledger!ledger)
      OBVIOUS
    <2>1. CASE file' = file /\ \A q \in Hooks : saved'[q] => saved[q] /\ took'[q] = took[q]
      BY <2>1, QuietStep DEF CreditInv
    <2>2. ASSUME NEW p \in Hooks, Save(p), file' = mem[p], saved' = [saved EXCEPT ![p] = TRUE]
          PROVE  Ledger!LedgerNext
      BY <2>2, SaveStep DEF CreditInv
    <2> QED
      BY <2>1, <2>2, OnlySaves DEF CreditInv
  <1>3. Init => Provenance /\ Stamps
    BY DEF Init, Provenance, Stamps
  <1>4. CreditInv /\ Provenance /\ Stamps /\ [Next]_vars => (Provenance /\ Stamps)'
    BY ProvenanceNext, StampsNext DEF CreditInv
  <1> QED
    BY <1>1, <1>2, <1>3, <1>4, CreditsInvariant, PTL DEF Spec, ImplementsLedger, Ledger!LedgerSpec

\* No credit that was taken is in the file, and no two entries of it are the
\* same credit, for any number of sessions and commands.
THEOREM NoCreditEverReturns ==
  ASSUME "flock" \notin Faults
  PROVE  Spec => []NoCreditReturns
  <1>1. CreditInv => Ledger!Unspent
    <2> SUFFICES ASSUME CreditInv, NEW k \in Keys
                 PROVE  /\ file.pending[k] # NoEntry => file.pending[k].by \in Issued \ Taken
                        /\ file.approved[k] # NoEntry => file.approved[k].by \in Issued \ Taken
      BY SameTerms DEF Ledger!Unspent
    <2>1. /\ file.pending[k] # NoEntry => file.pending[k].by \in Issued
          /\ file.approved[k] # NoEntry => file.approved[k].by \in Issued
      BY WriterSaved DEF CreditInv, Written, Blocked, Approved, Issued
    <2>2. ASSUME NEW x \in Taken
          PROVE  /\ file.pending[k] # NoEntry => file.pending[k].by # x
                 /\ file.approved[k] # NoEntry => file.approved[k].by # x
      BY <2>2 DEF CreditInv, Gone, Taken
    <2> QED
      BY <2>1, <2>2
  <1>2. CreditInv => Ledger!DistinctCredits
    <2> SUFFICES ASSUME CreditInv, NEW j \in Keys, NEW k \in Keys
                 PROVE  /\ file.pending[j] # NoEntry /\ file.approved[k] # NoEntry
                             => file.pending[j].by # file.approved[k].by
                        /\ j # k /\ file.pending[j] # NoEntry /\ file.pending[k] # NoEntry
                             => file.pending[j].by # file.pending[k].by
                        /\ j # k /\ file.approved[j] # NoEntry /\ file.approved[k] # NoEntry
                             => file.approved[j].by # file.approved[k].by
      BY SameTerms DEF Ledger!DistinctCredits
    <2> QED
      BY DEF CreditInv, Written, Blocked, Approved
  <1> QED
    BY <1>1, <1>2, CreditsInvariant, PTL DEF NoCreditReturns

-----------------------------------------------------------------------------
(* Hooks that resolve their mode are hooks of GuardHooks.                  *)

\* What resolveCodexMode returns is one of the modes.
LEMMA ResolvedMode ==
  ASSUME NEW s \in Settings
  PROVE  ResolveCodexMode(s) \in Modes
  BY ModesAssumption

\* A step under the settings is a step of GuardHooks, or changes nothing.
LEMMA ModesStep ==
  ASSUME [ModesNext]_modeVars
  PROVE  [Next]_vars
  <1>1. ASSUME NEW p \in Hooks, StartSet(p) PROVE Next
    <2>1. PICK s \in Sessions, c \in Commands, setting \in Settings :
               StartPre(p, s, c, ResolveCodexMode(setting))
      BY <1>1 DEF StartSet
    <2> QED
      BY <2>1, ResolvedMode DEF Next, Begin
  <1>2. ASSUME NEW p \in Hooks, Other(p) PROVE Next
    BY <1>2 DEF Other, Next, Begin
  <1> QED
    BY <1>1, <1>2 DEF ModesNext, modeVars, Next

\* Every theorem about Spec holds of the hooks under the settings.
THEOREM ModesImplementHooks == ModesSpec => Spec
  <1>1. ModesInit => Init
    BY DEF ModesInit
  <1>2. [ModesNext]_modeVars => [Next]_vars
    BY ModesStep
  <1> QED
    BY <1>1, <1>2, PTL DEF ModesSpec, Spec

-----------------------------------------------------------------------------
(* The settings: what a hook knows.                                        *)

\* A hook knows only of approvals that have been given.
Knows ==
  /\ known \in [Hooks -> SUBSET Hooks]
  /\ \A p \in Hooks : \A a \in known[p] : Approved(a)

\* The hook has looked for an approval and found none, or has not looked.
Missed(p) ==
  \/ op[p] = "record"
  \/ op[p] = "consume" /\ took[p] = NoEntry /\ pc[p] \in {"save", "unlock", "return", "evaluate"}

\* A hook that does not look for approvals knows of none, and one that has
\* found none knows of none that is due.
Missings ==
  \A p \in Hooks :
     /\ op[p] = "none" => known[p] = {}
     /\ Missed(p) => \A a \in known[p] : ~Due(a, p)

ModesInv == Knows /\ Missings

-----------------------------------------------------------------------------
(* What a step does to what a hook knows.                                  *)

\* A step of one hook leaves where the others are.
LEMMA OthersStay ==
  ASSUME TypeInv, NEW q \in Hooks, NEW p \in Hooks, p # q, Other(q)
  PROVE  pc'[p] = pc[p]
  BY DEF Other, Ignore, Malformed, StartPrompt, Run, Store, Caller, Open, Acquire, Stamp, Mutate,
     Save, Unlock, ReturnConsume, Evaluate, ReturnRecord, Emit, Audit, ReturnApprove, Kill, Goto,
     TypeInv, TypeOK

\* A hook learns what it knows when it begins, and forgets it when it cannot
\* open the store.
LEMMA KnownStep ==
  ASSUME TypeInv, Knows, [ModesNext]_modeVars, NEW p \in Hooks, known'[p] # {}
  PROVE  \/ known'[p] = known[p] /\ ~(pc[p] = "open" /\ pc'[p] = "return")
         \/ /\ known'[p] = Announced
            /\ \E s \in Sessions, c \in Commands, setting \in Settings :
                 StartPre(p, s, c, ResolveCodexMode(setting)) /\ MeansLive(setting)
  <1>0. known \in [Hooks -> SUBSET Hooks]
    BY DEF Knows
  <1>1. ASSUME NEW q \in Hooks, StartSet(q), q = p
        PROVE  /\ known'[p] = Announced
               /\ \E s \in Sessions, c \in Commands, setting \in Settings :
                    StartPre(p, s, c, ResolveCodexMode(setting)) /\ MeansLive(setting)
    BY <1>0, <1>1 DEF StartSet
  <1>2. ASSUME NEW q \in Hooks, StartSet(q), q # p
        PROVE  known'[p] = known[p] /\ pc'[p] = pc[p]
    BY <1>0, <1>2 DEF StartSet, StartPre, Goto, TypeInv, TypeOK
  <1>3. ASSUME NEW q \in Hooks, Other(q), q = p
        PROVE  known'[p] = known[p] /\ ~(pc[p] = "open" /\ pc'[p] = "return")
    BY <1>0, <1>3 DEF Other
  <1>4. ASSUME NEW q \in Hooks, Other(q), q # p
        PROVE  known'[p] = known[p] /\ pc'[p] = pc[p]
    <2>1. known'[p] = known[p]
      BY <1>0, <1>4 DEF Other
    <2> QED
      BY <1>4, <2>1, OthersStay
  <1>5. ASSUME (Tick \/ Finished \/ UNCHANGED vars) /\ UNCHANGED known
        PROVE  known'[p] = known[p] /\ pc'[p] = pc[p]
    BY <1>5 DEF Tick, Finished, vars
  <1> QED
    BY <1>1, <1>2, <1>3, <1>4, <1>5 DEF ModesNext, modeVars

\* What was announced has been approved, and stays so.
LEMMA KnowsNext ==
  ASSUME TypeInv, Progress, Replies, Knows, [ModesNext]_modeVars
  PROVE  Knows'
  <1>1. [Next]_vars
    BY ModesStep
  <1>2. known' \in [Hooks -> SUBSET Hooks]
    BY DEF Knows, ModesNext, StartSet, Other, Announced, modeVars
  <1>3. ASSUME NEW p \in Hooks, NEW a \in known'[p] PROVE Approved(a)'
    <2>1. known'[p] = known[p] \/ known'[p] = Announced
      BY <1>3, KnownStep
    <2>2. a \in Hooks /\ Approved(a)
      BY <1>3, <2>1 DEF Knows, Announced, Replies
    <2> QED
      BY <1>1, <2>2, Kept DEF Approved
  <1> QED
    BY <1>2, <1>3 DEF Knows

-----------------------------------------------------------------------------
(* A retry that finds no approval has none that is due.                    *)

\* An approval that was taken or replaced, or whose life was over, does not
\* become due again.
LEMMA NotDueAgain ==
  ASSUME TypeInv, Progress, Stamps, [Next]_vars, NEW a \in Hooks, Approved(a),
         NEW p \in Hooks, req'[p] = req[p], ~Due(a, p)
  PROVE  ~Due(a, p)'
  <1>0. /\ clock \in Nat /\ TTL \in Nat
        /\ \A r \in Hooks : stamp[r] \in Nat /\ stamp[r] <= clock
    BY StateAssumption DEF Stamps, TypeInv, TypeOK
  <1>1. took'[a] = took[a] /\ req'[a] = req[a] /\ stamp'[a] = stamp[a]
    BY Kept, StampKept DEF Approved
  <1>2. CASE stamp[p] >= stamp[a] + TTL
    <2>1. stamp'[p] = stamp[p] \/ stamp'[p] = clock
      BY StampKept
    <2>2. stamp'[p] >= stamp'[a] + TTL
      BY <1>0, <1>1, <1>2, <2>1
    <2>3. stamp'[p] \in Nat /\ stamp'[a] + TTL \in Nat
      BY <1>0, <1>1, <2>1
    <2> QED
      BY <2>2, <2>3 DEF Due
  <1>3. ASSUME NEW q \in Hooks, took[q] # NoEntry, took[q].by = a PROVE ~Due(a, p)'
    BY <1>3, Kept DEF Due
  <1>4. ASSUME NEW b \in Hooks \ {a}, op[b] = "approve", took[b] # NoEntry,
               took[b].command = took[a].command, req[b].session = req[a].session,
               stamp[b] >= stamp[a]
        PROVE  ~Due(a, p)'
    <2>1. op'[b] = op[b] /\ took'[b] = took[b] /\ req'[b] = req[b] /\ stamp'[b] = stamp[b]
      BY <1>4, Kept, StampKept
    <2> QED
      BY <1>1, <1>4, <2>1 DEF Due
  <1>5. CASE ~(req[a].session = req[p].session /\ took[a].command = req[p].command)
    BY <1>1, <1>5 DEF Due
  <1> QED
    BY <1>0, <1>2, <1>3, <1>4, <1>5 DEF Due

\* The closure of consumeApproval honours an approval that is due.
LEMMA DueIsHonoured ==
  ASSUME DistinctHashes, TypeInv, Written, Lives, Latest, Traces,
         NEW p \in Hooks, pc[p] = "mutate", op[p] = "consume",
         NEW a \in Hooks, Approved(a), Due(a, p)
  PROVE  Honours(Loaded(p).approved[ReqKey(p)], req[p].command)
  <1> DEFINE k == KeyBy(a)
             e == file.approved[k]
  <1>0. /\ \A r \in Hooks : stamp[r] \in Nat
        /\ TTL \in Nat
    BY StateAssumption DEF TypeInv, TypeOK
  <1>1. k \in Keys /\ k = ReqKey(p)
    BY KeyByType DEF Approved, Due, KeyBy, ReqKey
  <1>2. ~ \E c \in Hooks : stamp[c] >= stamp[a] + TTL
    BY <1>0 DEF Latest, Due
  <1>3. PICK q \in Hooks :
             /\ Heir(q, a)
             /\ \/ e # NoEntry /\ e.by = q
                \/ \E r \in Hooks : TakenBy(r, q)
    BY <1>2 DEF Traces, Traced
  <1>4. q = a
    <2>1. /\ op[q] = "approve" /\ took[q] # NoEntry /\ stamp[q] >= stamp[a]
          /\ KeyOf(req[q].session, took[q].command) = KeyOf(req[a].session, took[a].command)
      BY <1>3 DEF Heir, Approved, KeyBy
    <2>2. took[q] \in Entry /\ took[a] \in Entry
      BY <2>1 DEF Approved, TypeInv, TypeOK
    <2>3. took[q].command = took[a].command /\ req[q].session = req[a].session
      BY <2>1, <2>2 DEF KeyOf, DistinctHashes, Entry
    <2> QED
      BY <2>1, <2>3 DEF Due
  <1>5. e # NoEntry /\ e.by = a
    BY <1>3, <1>4 DEF Due, TakenBy
  <1>6. e.expires = stamp[a] + TTL /\ e.command = req[p].command
    BY <1>1, <1>5 DEF Lives, Written, Due
  <1>7. stamp[p] < e.expires
    BY <1>6 DEF Due
  <1>8. e.expires \in Nat /\ stamp[p] \in Nat
    BY <1>0, <1>6
  <1>9. Loaded(p).approved[k] = e
    BY <1>1, <1>7, <1>8 DEF Loaded, Cleanup, CleanBook, Expired
  <1> QED
    BY <1>1, <1>5, <1>6, <1>9 DEF Honours

\* A hook comes to have missed an approval in its closure only.
LEMMA MissedFrom ==
  ASSUME TypeInv, Progress, [Next]_vars, NEW p \in Hooks, op[p] # "none",
         ~(pc[p] = "open" /\ pc'[p] = "return"), ~Missed(p), Missed(p)'
  PROVE  Mutate(p) /\ op[p] = "consume" /\ took'[p] = NoEntry
  <1> USE DEF Goto, Local, TypeInv
  <1>1. pc[p] # "new"
    BY DEF Inputs
  <1>2. ASSUME NEW q \in Hooks, q # p, Begin(q) \/ Run(q) \/ FlockFails(q) \/ Kill(q)
        PROVE  FALSE
    <2>1. op'[p] = op[p] /\ pc'[p] = pc[p]
      BY <1>2 DEF Begin, Ignore, Malformed, StartPre, StartPrompt, Run, Store, Caller, Open,
         Acquire, FlockFails, Stamp, Mutate, Save, Unlock, ReturnConsume, Evaluate, ReturnRecord,
         Emit, Audit, ReturnApprove, Kill, TypeOK
    <2>2. took'[p] = took[p]
      BY <1>2 DEF Begin, Ignore, Malformed, StartPre, StartPrompt, Run, Store, Caller, Open,
         Acquire, FlockFails, Stamp, Mutate, RecordFn, ApproveFn, ConsumeFn, Save, Unlock,
         ReturnConsume, Evaluate, ReturnRecord, Emit, Audit, ReturnApprove, Kill, TypeOK
    <2> QED
      BY <2>1, <2>2 DEF Missed
  <1>3. ASSUME Begin(p) PROVE FALSE
    BY <1>1, <1>3 DEF Begin, Ignore, Malformed, StartPre, StartPrompt
  <1>4. ASSUME Open(p) \/ Acquire(p) \/ FlockFails(p) \/ Stamp(p) \/ Kill(p) PROVE FALSE
    BY <1>4 DEF Open, Acquire, FlockFails, Stamp, Kill, Missed, TypeOK
  <1>5. ASSUME Save(p) \/ Unlock(p) \/ ReturnConsume(p) PROVE FALSE
    BY <1>5 DEF Save, Unlock, ReturnConsume, Missed, TypeOK
  <1>6. ASSUME Evaluate(p) PROVE FALSE
    <2>1. pc[p] = "evaluate" /\ took[p] = NoEntry /\ op[p] \notin {"record", "approve"}
      BY <1>6 DEF Evaluate, Progress, Inputs
    <2>2. op[p] = "consume"
      BY <2>1 DEF TypeOK
    <2> QED
      BY <2>1, <2>2 DEF Missed
  <1>7. ASSUME ReturnRecord(p) \/ Emit(p) \/ Audit(p) \/ ReturnApprove(p) PROVE FALSE
    BY <1>7 DEF ReturnRecord, Emit, Audit, ReturnApprove, Missed, TypeOK
  <1>8. ASSUME Tick \/ UNCHANGED vars PROVE FALSE
    BY <1>8 DEF Tick, vars, Missed
  <1>9. Mutate(p)
    BY <1>2, <1>3, <1>4, <1>5, <1>6, <1>7, <1>8 DEF Next, Run, Store, Caller, Finished
  <1> QED
    BY <1>9 DEF Mutate, Missed

\* A hook that has found no approval knows of none that is due.
LEMMA MissingsNext ==
  ASSUME SpelledAsRead, DistinctHashes, TypeInv, Progress, Written, Lives, Stamps, Latest,
         Traces, Knows, Missings, [ModesNext]_modeVars
  PROVE  Missings'
  <1> SUFFICES ASSUME NEW p \in Hooks, NEW a \in known'[p]
               PROVE  op'[p] # "none" /\ (Missed(p)' => ~Due(a, p)')
    BY DEF Missings
  <1>0. [Next]_vars
    BY ModesStep
  <1>1. CASE \E s \in Sessions, c \in Commands, setting \in Settings :
               StartPre(p, s, c, ResolveCodexMode(setting)) /\ MeansLive(setting)
    <2>1. PICK s \in Sessions, c \in Commands : StartPre(p, s, c, "live")
      BY <1>1 DEF SpelledAsRead
    <2>2. op'[p] = "consume" /\ pc'[p] = "open"
      BY <2>1 DEF StartPre, Goto, TypeInv, TypeOK
    <2> QED
      BY <2>2 DEF Missed
  <1>2. CASE known'[p] = known[p] /\ ~(pc[p] = "open" /\ pc'[p] = "return")
    <2>1. op[p] # "none" /\ a \in Hooks /\ Approved(a)
      BY <1>2 DEF Missings, Knows
    <2>2. pc[p] # "new"
      BY <2>1 DEF TypeInv, Inputs
    <2>3. req'[p] = req[p] /\ op'[p] # "none"
      <3>1. ASSUME NEW q \in Hooks, Begin(q) PROVE req'[p] = req[p] /\ op'[p] = op[p]
        BY <2>2, <3>1 DEF Begin, Ignore, Malformed, StartPre, StartPrompt, Goto, TypeInv, TypeOK
      <3>2. ASSUME NEW q \in Hooks, Evaluate(q) PROVE req'[p] = req[p] /\ op'[p] # "none"
        BY <2>1, <3>2 DEF Evaluate, Local, TypeInv, TypeOK
      <3> QED
        BY <1>0, <2>1, <3>1, <3>2 DEF Next, Run, Store, Caller, Finished, Open, Acquire,
           FlockFails, Stamp, Mutate, Save, Unlock, ReturnConsume, ReturnRecord, Emit, Audit,
           ReturnApprove, Kill, Tick, Local, vars
    <2>4. CASE Missed(p)
      <3>1. ~Due(a, p)
        BY <1>2, <2>4 DEF Missings
      <3> QED
        BY <1>0, <2>1, <2>3, <3>1, NotDueAgain
    <2>5. CASE ~Missed(p) /\ Missed(p)'
      <3>1. Mutate(p) /\ op[p] = "consume" /\ took'[p] = NoEntry
        BY <1>0, <1>2, <2>1, <2>5, MissedFrom
      <3>2. ConsumeFn(p) /\ pc[p] = "mutate" /\ UNCHANGED <<req, op, stamp>>
        BY <3>1 DEF Mutate, Goto, RecordFn, ApproveFn
      <3>3. ~Honours(Loaded(p).approved[ReqKey(p)], req[p].command) /\ took' = took
        <4>1. \/ /\ Honours(Loaded(p).approved[ReqKey(p)], req[p].command)
                 /\ took' = [took EXCEPT ![p] = Loaded(p).approved[ReqKey(p)]]
              \/ /\ ~Honours(Loaded(p).approved[ReqKey(p)], req[p].command)
                 /\ took' = took
          BY <3>2 DEF ConsumeFn
        <4> QED
          BY <3>1, <4>1 DEF Honours, TypeInv, TypeOK
      <3>4. ~Due(a, p)
        BY <2>1, <3>1, <3>2, <3>3, DueIsHonoured
      <3> QED
        BY <2>3, <3>2, <3>3, <3>4 DEF Due
    <2> QED
      BY <2>3, <2>4, <2>5
  <1> QED
    BY <1>1, <1>2, KnownStep

-----------------------------------------------------------------------------
(* Theorems about the settings.                                            *)

\* What a hook knows, and what it has missed, for any settings that are
\* spelled as the code reads them.
THEOREM ModesInvariant ==
  ASSUME SpelledAsRead, DistinctHashes, "flock" \notin Faults
  PROVE  ModesSpec => []ModesInv
  <1>1. ModesInit => ModesInv
    BY DEF ModesInit, Init, ModesInv, Knows, Missings, Missed
  <1>2. TraceInv /\ ModesInv /\ [ModesNext]_modeVars => ModesInv'
    BY KnowsNext, MissingsNext DEF TraceInv, LifeInv, CreditInv, ModesInv
  <1> QED
    BY <1>1, <1>2, ModesImplementHooks, TracesInvariant, PTL DEF ModesSpec

\* Every reachable state under the settings is well typed, whichever calls
\* fail.
THEOREM ModesTypeCorrect == ModesSpec => []ModesTypeOK
  <1> DEFINE KnownOK == known \in [Hooks -> SUBSET Hooks]
  <1>1. ModesInit => KnownOK
    BY DEF ModesInit
  <1>2. KnownOK /\ [ModesNext]_modeVars => KnownOK'
    BY DEF ModesNext, StartSet, Other, Announced, modeVars
  <1>3. TypeOK /\ KnownOK => ModesTypeOK
    BY DEF ModesTypeOK
  <1> HIDE DEF KnownOK
  <1> QED
    BY <1>1, <1>2, <1>3, ModesImplementHooks, TypeCorrect, PTL DEF ModesSpec

\* A retry that is meant to be live and begins after its approval has been
\* announced is not blocked while the approval is due, whatever the modes of
\* the other hooks, and whether or not saving fails.
THEOREM LiveIsHonoured ==
  ASSUME SpelledAsRead, DistinctHashes, "flock" \notin Faults
  PROVE  ModesSpec => []LiveHonours
  <1>1. TraceInv /\ ModesInv => LiveHonours
    BY DEF TraceInv, Replies, ModesInv, Missings, Missed, LiveHonours
  <1> QED
    BY <1>1, ModesImplementHooks, TracesInvariant, ModesInvariant, PTL

\* Whatever settings the user chooses, however often and however spelled, the
\* hooks implement the ledger, no credit comes back, a risky command runs
\* only on an approval, and an ambiguous prompt approves nothing.
THEOREM ModesKeepPromises ==
  ASSUME "flock" \notin Faults
  PROVE  ModesSpec => /\ ImplementsLedger
                      /\ []NoCreditReturns
                      /\ []RiskyRunsOnlyApproved
                      /\ []AmbiguousRefused
  BY ModesImplementHooks, HooksImplementLedger, NoCreditEverReturns, RiskyOnlyApproved,
     AmbiguousNeverApproved, PTL

-----------------------------------------------------------------------------
(* The power: what is true of every state on the disk.                     *)

\* Every entry of a state has a writer that blocked, or approved, its command
\* under its key, and lives from the stamp of that writer.
Truthful(state) ==
  \A k \in Keys :
     LET e == state.pending[k]
         f == state.approved[k]
     IN /\ e # NoEntry => /\ Blocked(e.by) /\ k = ReqKey(e.by)
                          /\ e.command = req[e.by].command
                          /\ e.expires = stamp[e.by] + TTL
        /\ f # NoEntry => /\ Approved(f.by)
                          /\ k = KeyOf(req[f.by].session, took[f.by].command)
                          /\ f.command = took[f.by].command
                          /\ f.expires = stamp[f.by] + TTL

\* The entry that p took is not in the state.
Absent(p, state) ==
  \A k \in Keys :
     /\ state.pending[k] # NoEntry => state.pending[k].by # took[p].by
     /\ state.approved[k] # NoEntry => state.approved[k].by # took[p].by

DiskType ==
  /\ disk \subseteq State /\ file \in disk
  /\ failures \in 0..MaxFailures
  /\ durable \subseteq Hooks /\ recent \subseteq Hooks

Truths == \A state \in disk : Truthful(state)

\* Whoever has saved once does not take an entry any more.
Counted == \A p \in recent \cup durable : saved[p] \/ op[p] = "record"

\* What was taken since the last failure is not in the file, and what was
\* taken and written back is nowhere on the disk.
Removals ==
  /\ \A p \in recent : took[p] # NoEntry => Absent(p, file)
  /\ \A p \in durable : took[p] # NoEntry => \A state \in disk : Absent(p, state)

PowerInv ==
  /\ TypeInv /\ Locking /\ Progress /\ SavesCurrent
  /\ DiskType /\ Truths /\ Sources /\ Provenance /\ Silences /\ Counted /\ Removals

-----------------------------------------------------------------------------
(* States of the disk.                                                     *)

\* What is true of a state stays true: its writers do not change.
LEMMA TruthfulKept ==
  ASSUME TypeInv, Progress, [Next]_vars, NEW state \in State, Truthful(state)
  PROVE  Truthful(state)'
  <1> SUFFICES ASSUME NEW k \in Keys
               PROVE  /\ state.pending[k] # NoEntry =>
                           /\ Blocked(state.pending[k].by)' /\ k = ReqKey(state.pending[k].by)'
                           /\ state.pending[k].command = req'[state.pending[k].by].command
                           /\ state.pending[k].expires = stamp'[state.pending[k].by] + TTL
                      /\ state.approved[k] # NoEntry =>
                           /\ Approved(state.approved[k].by)'
                           /\ k = KeyOf(req'[state.approved[k].by].session,
                                        took'[state.approved[k].by].command)
                           /\ state.approved[k].command = took'[state.approved[k].by].command
                           /\ state.approved[k].expires = stamp'[state.approved[k].by] + TTL
    BY DEF Truthful
  <1>1. ASSUME NEW e, e = state.pending[k], e # NoEntry
        PROVE  /\ Blocked(e.by)' /\ k = ReqKey(e.by)'
               /\ e.command = req'[e.by].command /\ e.expires = stamp'[e.by] + TTL
    <2>1. e.by \in Hooks
      BY <1>1 DEF State, Book, Entry
    <2>2. /\ Blocked(e.by) /\ k = ReqKey(e.by)
          /\ e.command = req[e.by].command /\ e.expires = stamp[e.by] + TTL
      BY <1>1 DEF Truthful
    <2> QED
      BY <2>1, <2>2, Kept, StampKept DEF Blocked, ReqKey
  <1>2. ASSUME NEW f, f = state.approved[k], f # NoEntry
        PROVE  /\ Approved(f.by)'
               /\ k = KeyOf(req'[f.by].session, took'[f.by].command)
               /\ f.command = took'[f.by].command /\ f.expires = stamp'[f.by] + TTL
    <2>1. f.by \in Hooks
      BY <1>2 DEF State, Book, Entry
    <2>2. /\ Approved(f.by) /\ k = KeyOf(req[f.by].session, took[f.by].command)
          /\ f.command = took[f.by].command /\ f.expires = stamp[f.by] + TTL
      BY <1>2 DEF Truthful
    <2> QED
      BY <2>1, <2>2, Kept, StampKept DEF Approved
  <1> QED
    BY <1>1, <1>2

\* The file is one of the states of the disk.
LEMMA FileTruthful ==
  ASSUME DiskType, Truths
  PROVE  Written /\ Lives
  <1>1. Truthful(file)
    BY DEF DiskType, Truths
  <1> QED
    BY <1>1 DEF Truthful, Written, Lives

\* Of an empty state everything is true.
LEMMA EmptyTruthful == EmptyState \in State /\ Truthful(EmptyState)' /\ \A p : Absent(p, EmptyState)'
  BY EmptyStateType DEF EmptyState, EmptyBook, Truthful, Absent

\* A rename leaves a file of which everything is true.
LEMMA NewFileTruthful ==
  ASSUME TypeInv, Progress, SavesCurrent, Written, Lives, [Next]_vars
  PROVE  Truthful(file)'
  <1>1. Written' /\ Lives'
    BY WrittenNext, LivesNext
  <1> QED
    BY <1>1 DEF Written, Lives, Truthful

\* The entry that a saved hook took does not come back by a rename.
LEMMA AbsentKept ==
  ASSUME TypeInv, Progress, SavesCurrent, Written, Sources, [Next]_vars,
         NEW q \in Hooks, saved[q] \/ op[q] = "record", took'[q] # NoEntry
  PROVE  /\ took'[q] = took[q] /\ took[q] # NoEntry
         /\ Absent(q, file) => Absent(q, file)'
         /\ \A state : Absent(q, state) => Absent(q, state)'
  <1>1. took'[q] = took[q] /\ took[q] # NoEntry
    <2>1. ASSUME took[q] = NoEntry PROVE FALSE
      <3>1. pc[q] = "mutate" /\ (op[q] = "approve" \/ op[q] = "consume")
        BY <2>1, TookFrom
      <3> QED
        BY <3>1 DEF Progress
    <2> QED
      BY <2>1, Kept
  <1>2. \A state : Absent(q, state) => Absent(q, state)'
    BY <1>1 DEF Absent
  <1>3. ASSUME Absent(q, file), file' = file PROVE Absent(q, file)'
    BY <1>1, <1>3 DEF Absent
  <1>4. ASSUME Absent(q, file), NEW s \in Hooks, Save(s), file' = mem[s] PROVE Absent(q, file)'
    <2>1. pc[s] = "save" /\ ~saved[s]
      BY <1>4 DEF Save, Goto, Progress
    <2>2. took[q].by # s
      BY <1>1, <2>1, TakenFromSaved
    <2>3. ASSUME NEW k \in Keys, mem[s].pending[k] # NoEntry
          PROVE  mem[s].pending[k].by # took[q].by
      <3>1. InPending(s, k)
        BY <2>1, <2>3, MemEffect
      <3> QED
        BY <1>4, <2>2, <2>3, <3>1 DEF InPending, NewEntry, Absent
    <2>4. ASSUME NEW k \in Keys, mem[s].approved[k] # NoEntry
          PROVE  mem[s].approved[k].by # took[q].by
      <3>1. InApproved(s, k)
        BY <2>1, <2>4, MemEffect
      <3> QED
        BY <1>4, <2>2, <2>4, <3>1 DEF InApproved, NewEntry, Absent
    <2> QED
      BY <1>1, <1>4, <2>3, <2>4 DEF Absent
  <1> QED
    BY <1>1, <1>2, <1>3, <1>4, OnlySaves

\* A rename removes the entry that the hook took.
LEMMA SaverRemoves ==
  ASSUME TypeInv, Progress, SavesCurrent, Written, Sources,
         NEW p \in Hooks, Save(p), file' = mem[p], took[p] # NoEntry
  PROVE  Absent(p, file)'
  <1>1. pc[p] = "save" /\ ~saved[p] /\ took' = took
    BY DEF Save, Goto, Progress
  <1>2. /\ saved[took[p].by]
        /\ \/ op[p] = "approve" /\ Blocked(took[p].by)
           \/ op[p] = "consume" /\ Approved(took[p].by)
    BY TakenFromSaved
  <1>3. ASSUME NEW k \in Keys, mem[p].pending[k] # NoEntry
        PROVE  mem[p].pending[k].by # took[p].by
    <2>1. InPending(p, k)
      BY <1>1, <1>3, MemEffect
    <2>2. CASE mem[p].pending[k] = NewEntry(req[p].command, stamp[p], p)
      BY <1>1, <1>2, <2>2 DEF NewEntry
    <2>3. CASE mem[p].pending[k] = file.pending[k] /\ op[p] = "consume"
      BY <1>2, <1>3, <2>3 DEF Written, Blocked, Approved
    <2> QED
      BY <1>2, <2>1, <2>2, <2>3 DEF InPending
  <1>4. ASSUME NEW k \in Keys, mem[p].approved[k] # NoEntry
        PROVE  mem[p].approved[k].by # took[p].by
    <2>1. InApproved(p, k)
      BY <1>1, <1>4, MemEffect
    <2>2. CASE mem[p].approved[k] = NewEntry(took[p].command, stamp[p], p)
      BY <1>1, <1>2, <2>2 DEF NewEntry
    <2>3. CASE mem[p].approved[k] = file.approved[k] /\ op[p] = "approve"
      BY <1>2, <1>4, <2>3 DEF Written, Blocked, Approved
    <2> QED
      BY <1>2, <2>1, <2>2, <2>3 DEF InApproved
  <1> QED
    BY <1>1, <1>3, <1>4 DEF Absent

-----------------------------------------------------------------------------
(* A step of a hook.                                                       *)

\* A step of a hook, and a tick, are steps of GuardHooks.
LEMMA HookStepIsNext ==
  ASSUME HookStep \/ Tick \/ Finished \/ UNCHANGED vars
  PROVE  [Next]_vars
  BY DEF HookStep, Next

\* A hook that has saved once does not go back before its closure.
LEMMA CountedNext ==
  ASSUME TypeInv, Progress, [Next]_vars, NEW p \in Hooks, saved[p] \/ op[p] = "record"
  PROVE  saved'[p] \/ op'[p] = "record"
  <1> USE DEF Goto, Local, TypeInv
  <1>1. ASSUME NEW q \in Hooks, Begin(q) PROVE saved'[p] \/ op'[p] = "record"
    <2>1. pc[q] = "new" /\ op[q] = "none" /\ ~saved[q] /\ saved' = saved
      BY <1>1 DEF Begin, Ignore, Malformed, StartPre, StartPrompt, Inputs, Progress
    <2>2. q # p
      BY <2>1
    <2> QED
      BY <1>1, <2>1, <2>2 DEF Begin, Ignore, Malformed, StartPre, StartPrompt, TypeOK
  <1>2. ASSUME NEW q \in Hooks, Evaluate(q) PROVE saved'[p] \/ op'[p] = "record"
    BY <1>2 DEF Evaluate, TypeOK
  <1>3. ASSUME NEW q \in Hooks, Save(q) PROVE saved'[p] \/ op'[p] = "record"
    BY <1>3 DEF Save, TypeOK
  <1> QED
    BY <1>1, <1>2, <1>3 DEF Next, Run, Store, Caller, Finished, Open, Acquire, FlockFails, Stamp,
       Mutate, Unlock, ReturnConsume, ReturnRecord, Emit, Audit, ReturnApprove, Kill, Tick, vars

\* A step of a hook keeps what the disk may hold in line with the hooks.
LEMMA HookStepInv ==
  ASSUME "flock" \notin Faults, PowerInv, HookStep
  PROVE  PowerInv'
  <1> USE DEF PowerInv
  <1>1. [Next]_vars
    BY HookStepIsNext
  <1>2. Written /\ Lives
    BY FileTruthful
  <1>3. TypeInv' /\ Locking' /\ Progress' /\ SavesCurrent'
    BY <1>1, TypeNext, LockingNext, ProgressNext, SavesCurrentNext
  <1>4. Sources' /\ Provenance' /\ Silences'
    BY <1>1, <1>2, SourcesNext, ProvenanceNext, SilencesNext
  <1>5. /\ disk' \subseteq disk \cup {file', EmptyState}
        /\ disk \subseteq disk' /\ file' \in disk'
        /\ recent' = recent \cup {p \in Hooks : ~saved[p] /\ saved'[p]}
        /\ UNCHANGED <<failures, durable>>
    BY DEF HookStep, MaySurvive, DiskType
  <1>6. DiskType'
    <2>1. file' \in State
      BY <1>3 DEF TypeInv, TypeOK
    <2> QED
      BY <1>5, <2>1, EmptyStateType DEF DiskType
  <1>7. Truths'
    <2> SUFFICES ASSUME NEW state \in disk' PROVE Truthful(state)'
      BY DEF Truths
    <2>1. CASE state \in disk
      BY <1>1, <2>1, TruthfulKept DEF Truths, DiskType
    <2>2. CASE state = EmptyState
      BY <2>2, EmptyTruthful
    <2>3. CASE state = file'
      <3>1. Truthful(file)'
        BY <1>1, <1>2, NewFileTruthful
      <3> QED
        BY <2>3, <3>1 DEF Truthful
    <2> QED
      BY <1>5, <2>1, <2>2, <2>3
  <1>8. Counted'
    BY <1>1, <1>5, CountedNext DEF Counted, DiskType
  <1>9. Removals'
    <2>1. ASSUME NEW p \in recent', took'[p] # NoEntry PROVE Absent(p, file)'
      <3>1. CASE p \in recent
        <4>1. saved[p] \/ op[p] = "record"
          BY <3>1 DEF Counted
        <4> QED
          BY <1>1, <1>2, <2>1, <3>1, <4>1, AbsentKept DEF Removals, DiskType
      <3>2. CASE p \in Hooks /\ ~saved[p] /\ saved'[p]
        <4>1. Save(p) /\ file' = mem[p]
          <5>1. ASSUME NEW s \in Hooks, s # p, saved' = [saved EXCEPT ![s] = TRUE]
                PROVE  FALSE
            BY <3>2, <5>1 DEF TypeInv, TypeOK
          <5> QED
            BY <1>1, <3>2, <5>1, OnlySaves
        <4>2. took[p] # NoEntry
          BY <2>1, <4>1 DEF Save
        <4> QED
          BY <1>2, <3>2, <4>1, <4>2, SaverRemoves
      <3> QED
        BY <1>5, <2>1, <3>1, <3>2
    <2>2. ASSUME NEW p \in durable', took'[p] # NoEntry, NEW state \in disk'
          PROVE  Absent(p, state)'
      <3>1. p \in Hooks /\ p \in durable /\ (saved[p] \/ op[p] = "record")
        BY <1>5, <2>2 DEF Counted, DiskType
      <3>2. took[p] # NoEntry
        BY <1>1, <1>2, <2>2, <3>1, AbsentKept
      <3>3. CASE state \in disk
        BY <1>1, <1>2, <2>2, <3>1, <3>2, <3>3, AbsentKept DEF Removals
      <3>4. CASE state = EmptyState
        BY <3>4, EmptyTruthful
      <3>5. CASE state = file'
        <4>1. Absent(p, file)
          BY <3>1, <3>2 DEF Removals, DiskType
        <4>2. Absent(p, file)'
          BY <1>1, <1>2, <2>2, <3>1, <4>1, AbsentKept
        <4> QED
          BY <3>5, <4>2 DEF Absent
      <3> QED
        BY <1>5, <3>3, <3>4, <3>5
    <2> QED
      BY <2>1, <2>2 DEF Removals
  <1> QED
    BY <1>3, <1>4, <1>6, <1>7, <1>8, <1>9

\* A step that moves only the clock, or nothing.
LEMMA QuietInv ==
  ASSUME "flock" \notin Faults, PowerInv, Tick \/ UNCHANGED vars,
         UNCHANGED <<disk, failures, recent, durable>>
  PROVE  PowerInv'
  <1> USE DEF PowerInv
  <1>1. [Next]_vars /\ file' = file /\ op' = op /\ saved' = saved /\ took' = took
    BY DEF Next, Tick, vars
  <1>2. Written /\ Lives
    BY FileTruthful
  <1>3. TypeInv' /\ Locking' /\ Progress' /\ SavesCurrent'
    BY <1>1, TypeNext, LockingNext, ProgressNext, SavesCurrentNext
  <1>4. Sources' /\ Provenance' /\ Silences'
    BY <1>1, <1>2, SourcesNext, ProvenanceNext, SilencesNext
  <1>5. DiskType' /\ Counted'
    BY <1>1 DEF DiskType, Counted
  <1>6. Truths'
    BY <1>1, TruthfulKept DEF Truths, DiskType
  <1>7. Removals'
    BY <1>1 DEF Removals, Absent
  <1> QED
    BY <1>3, <1>4, <1>5, <1>6, <1>7

-----------------------------------------------------------------------------
(* The disk and its failures.                                              *)

\* What has been written back is the file.
LEMMA WriteBackInv ==
  ASSUME PowerInv, WriteBack
  PROVE  PowerInv'
  <1> USE DEF PowerInv
  <1>1. /\ UNCHANGED <<clock, file, lock, pc, req, op, stamp, mem, took, saved, reply>>
        /\ UNCHANGED <<failures, recent>>
        /\ disk' = {file} /\ durable' = durable \cup recent
    BY DEF WriteBack, vars
  <1>2. TypeInv' /\ Locking' /\ Progress'
    BY <1>1 DEF TypeInv, TypeOK, Inputs, Locking, Progress
  <1>3. SavesCurrent' /\ Sources'
    BY <1>1 DEF SavesCurrent, Based, Loaded, ReqKey, Sources, Blocked, Approved
  <1>4. Provenance' /\ Silences'
    BY <1>1 DEF Provenance, ApprovedBy, Silences, AlwaysRisky, IsPre
  <1>5. DiskType' /\ Counted'
    BY <1>1 DEF DiskType, Counted
  <1>6. Truths'
    <2>1. Truthful(file)
      BY DEF Truths, DiskType
    <2>2. Truthful(file)'
      BY <1>1, <2>1 DEF Truthful, Blocked, Approved, ReqKey
    <2> QED
      BY <1>1, <2>2 DEF Truths
  <1>7. Removals'
    <2>1. \A p \in recent \cup durable : took[p] # NoEntry => Absent(p, file)
      BY DEF Removals, DiskType
    <2>2. \A p : Absent(p, file) => Absent(p, file)'
      BY <1>1 DEF Absent
    <2> QED
      BY <1>1, <2>1, <2>2 DEF Removals
  <1> QED
    BY <1>2, <1>3, <1>4, <1>5, <1>6, <1>7

\* A failure ends every hook, and what it leaves in the file was on the disk.
LEMMA PowerFailsInv ==
  ASSUME PowerInv, PowerFails
  PROVE  PowerInv'
  <1> USE DEF PowerInv
  <1>1. /\ UNCHANGED <<clock, req, op, stamp, took, saved, reply, durable>>
        /\ file' \in disk /\ disk' = {file'} /\ recent' = {} /\ failures' = failures + 1
        /\ failures < MaxFailures
        /\ lock' = NoHook /\ mem' = [p \in Hooks |-> EmptyState]
        /\ pc' = [p \in Hooks |-> IF pc[p] \in Ended \cup {"new"} THEN pc[p] ELSE "killed"]
    BY DEF PowerFails
  <1>2. \A p \in Hooks : pc'[p] \in Ended \cup {"new"} /\ (pc'[p] = "new" => pc[p] = "new")
                         /\ (pc[p] \in Ended \cup {"new"} => pc'[p] = pc[p])
    BY <1>1 DEF Ended
  <1>3. TypeInv'
    <2>1. file' \in State
      BY <1>1 DEF DiskType
    <2>2. TypeOK'
      BY <1>1, <2>1, EmptyStateType DEF TypeInv, TypeOK, Steps, Ended
    <2>3. Inputs'
      BY <1>1, <1>2 DEF TypeInv, Inputs, Ended
    <2> QED
      BY <2>2, <2>3 DEF TypeInv
  <1>4. Locking' /\ Progress' /\ SavesCurrent'
    BY <1>1, <1>2, HooksAssumption DEF Locking, Progress, SavesCurrent, Inside, Ended
  <1>5. Sources' /\ Provenance'
    BY <1>1 DEF Sources, Blocked, Approved, Provenance, ApprovedBy
  <1>6. Silences'
    <2>1. \A p \in Hooks : AlwaysRisky(p)' <=> AlwaysRisky(p)
      BY <1>1 DEF AlwaysRisky, IsPre
    <2> QED
      BY <1>1, <1>2, <2>1 DEF Silences, Ended
  <1>7. DiskType'
    <2>1. MaxFailures \in Nat
      BY FailuresAssumption
    <2> QED
      BY <1>1, <2>1 DEF DiskType
  <1>8. Truths'
    <2> SUFFICES ASSUME NEW state \in disk' PROVE Truthful(state)'
      BY DEF Truths
    <2>1. Truthful(state)
      BY <1>1 DEF Truths
    <2> QED
      BY <1>1, <2>1 DEF Truthful, Blocked, Approved, ReqKey
  <1>9. Counted'
    BY <1>1 DEF Counted
  <1>10. Removals'
    <2> SUFFICES ASSUME NEW p \in durable, took[p] # NoEntry, NEW state \in disk'
                 PROVE  Absent(p, state)'
      BY <1>1 DEF Removals
    <2>1. Absent(p, state)
      BY <1>1 DEF Removals
    <2> QED
      BY <1>1, <2>1 DEF Absent
  <1> QED
    BY <1>3, <1>4, <1>5, <1>6, <1>7, <1>8, <1>9, <1>10

-----------------------------------------------------------------------------
(* Theorems about the power.                                               *)

\* The invariant survives any number of power failures.
THEOREM PowerInvariant ==
  ASSUME "flock" \notin Faults
  PROVE  PowerSpec => []PowerInv
  <1>1. PowerInit => PowerInv
    <2> SUFFICES ASSUME PowerInit PROVE PowerInv
      OBVIOUS
    <2>1. Init /\ disk = {EmptyState} /\ failures = 0 /\ recent = {} /\ durable = {}
      BY DEF PowerInit
    <2>2. TypeInv
      BY <2>1, TypeInit
    <2>3. Locking /\ Progress /\ SavesCurrent /\ Sources
      BY <2>1, HooksAssumption DEF Init, Locking, Progress, SavesCurrent, Sources, Inside
    <2>4. Provenance /\ Silences
      BY <2>1 DEF Init, Provenance, Silences, AlwaysRisky, IsPre, Ended
    <2>5. DiskType /\ Counted /\ Removals
      BY <2>1, EmptyStateType, FailuresAssumption DEF Init, DiskType, Counted, Removals
    <2>6. Truths
      BY <2>1 DEF Truths, Truthful, EmptyState, EmptyBook
    <2> QED
      BY <2>2, <2>3, <2>4, <2>5, <2>6 DEF PowerInv
  <1>2. PowerInv /\ [PowerNext]_powerVars => PowerInv'
    BY HookStepInv, QuietInv, WriteBackInv, PowerFailsInv DEF PowerNext, powerVars, Finished
  <1> QED
    BY <1>1, <1>2, PTL DEF PowerSpec

\* Every reachable state of hooks and disk is well typed.
THEOREM PowerTypeCorrect ==
  ASSUME "flock" \notin Faults
  PROVE  PowerSpec => []PowerTypeOK
  <1>1. PowerInv => PowerTypeOK
    BY DEF PowerInv, TypeInv, DiskType, PowerTypeOK
  <1> QED
    BY <1>1, PowerInvariant, PTL

\* What is taken and written back is taken for good, however often the power
\* fails and whatever the hooks that run then do.
THEOREM WrittenBackIsGone ==
  ASSUME "flock" \notin Faults
  PROVE  PowerSpec => []TakenForGood
  <1>1. PowerInv => TakenForGood
    BY DEF PowerInv, Removals, Absent, TakenForGood
  <1> QED
    BY <1>1, PowerInvariant, PTL

\* No failure makes an approval: one that can be read after it was given by
\* the user for a command that was blocked in that session.
THEOREM FailuresMakeNoApproval ==
  ASSUME "flock" \notin Faults
  PROVE  PowerSpec => []ApprovalsAreReal
  <1>1. ASSUME PowerInv PROVE ApprovalsAreReal
    <2> SUFFICES ASSUME NEW state \in disk, NEW k \in Keys, NEW f, f = state.approved[k],
                        f # NoEntry
                 PROVE  /\ op[f.by] = "approve" /\ took[f.by] # NoEntry
                        /\ took[f.by].command = f.command
                        /\ op[took[f.by].by] = "record"
                        /\ ReqKey(took[f.by].by) = k
                        /\ f.expires <= stamp[f.by] + TTL
      BY DEF ApprovalsAreReal
    <2>1. f.by \in Hooks /\ stamp[f.by] + TTL \in Nat
      <3>1. f \in Entry
        BY <1>1 DEF PowerInv, DiskType, State, Book
      <3> QED
        BY <1>1, <3>1, StateAssumption DEF PowerInv, TypeInv, TypeOK, Entry
    <2>2. /\ Approved(f.by) /\ k = KeyOf(req[f.by].session, took[f.by].command)
          /\ f.command = took[f.by].command /\ f.expires = stamp[f.by] + TTL
      BY <1>1 DEF PowerInv, Truths, Truthful
    <2>3. /\ op[took[f.by].by] = "record"
          /\ req[took[f.by].by].session = req[f.by].session
          /\ req[took[f.by].by].command = took[f.by].command
      BY <1>1, <2>1, <2>2 DEF PowerInv, Provenance, Approved
    <2>4. ReqKey(took[f.by].by) = k
      BY <2>2, <2>3 DEF ReqKey
    <2>5. f.expires <= stamp[f.by] + TTL
      <3>1. f.expires = stamp[f.by] + TTL
        BY <2>2, Zenon
      <3> QED
        BY <2>1, <3>1
    <2>6. op[f.by] = "approve" /\ took[f.by] # NoEntry
      BY <2>2, Zenon DEF Approved
    <2> QED
      BY <2>2, <2>3, <2>4, <2>5, <2>6, Zenon
  <1> QED
    BY <1>1, PowerInvariant, PTL

\* A failure does not let a risky command run either: what a retry finds
\* after it, the user has approved.
THEOREM RiskyOnlyApprovedAfterFailures ==
  ASSUME "flock" \notin Faults
  PROVE  PowerSpec => []RiskyRunsOnlyApproved
  <1>1. PowerInv => RiskyRunsOnlyApproved
    BY DEF PowerInv, Provenance, Silences, RiskyRunsOnlyApproved, AlwaysRisky
  <1> QED
    BY <1>1, PowerInvariant, PTL

==============================================================================
