----------------------------- MODULE GuardHooks -----------------------------
(***************************************************************************)
(* Concurrent bash-guard hook processes and the approval store they share. *)
(*                                                                         *)
(* Codex starts one process per event.  A PreToolUse hook (main.go) tries  *)
(* to consume an approval, else evaluates the command and records a        *)
(* pending entry when it is risky; a UserPromptSubmit hook                 *)
(* (user_prompt.go) turns a pending entry into an approval.  Each of the   *)
(* three is one run of mutateApprovalState (approval_state.go):            *)
(*                                                                         *)
(*   open -> flock -> stamp -> mutate -> save -> unlock -> return          *)
(*                                                                         *)
(* The file, the lock and the clock are shared; everything else is local   *)
(* to a process.  A hook may be killed between any two steps: Codex does   *)
(* so when the timeout of hooks.json runs out.                             *)
(***************************************************************************)
EXTENDS ApprovalState

CONSTANTS
  Modes,      \* results of resolveCodexMode
  Levels,     \* the levels the rules may give a command: "allow", "ask"
  Faults,     \* system calls that may fail: "open", "flock", "save"
  MaxClock,   \* bound of the clock
  NoHook,     \* nobody holds the lock
  NoReq       \* a hook that has not read its input

ASSUME HooksAssumption ==
  /\ Levels \in [Commands -> SUBSET {"allow", "ask"}]
  /\ MaxClock \in Nat
  /\ NoHook \notin Hooks

VARIABLES
  clock,   \* wall clock, in units of which TTL make the life of an entry
  file,    \* what loadApprovalState would read from state.json
  lock,    \* the holder of the flock on state.lock
  pc,      \* where each hook is
  req,     \* the input of each hook
  op,      \* the mutation a hook is running, or ran last
  stamp,   \* ts of mutateApprovalState
  mem,     \* the state a hook has loaded and changed in memory
  took,    \* the entry its mutation removed: the variable "consumed", or
           \* the Entry of an approvalResult that is OK
  saved,   \* mutateApprovalState returns nil: the rename has happened
  reply    \* what Codex has been told

vars == <<clock, file, lock, pc, req, op, stamp, mem, took, saved, reply>>

PreRequest == [session : Sessions, command : Commands, mode : Modes]
PromptRequest == [session : Sessions, prefix : Prefixes]

ASSUME NoReqAssumption == NoReq \notin PreRequest

Inside == {"stamp", "mutate", "save", "unlock"}
Ended == {"exited", "killed"}
Steps == {"new", "open", "flock", "return", "evaluate", "emit", "audit"}
           \cup Inside \cup Ended

TypeOK ==
  /\ clock \in Nat
  /\ file \in State
  /\ lock \in Hooks \cup {NoHook}
  /\ pc \in [Hooks -> Steps]
  /\ req \in [Hooks -> PreRequest \cup PromptRequest \cup {NoReq}]
  /\ op \in [Hooks -> {"none", "consume", "record", "approve"}]
  /\ stamp \in [Hooks -> Nat]
  /\ mem \in [Hooks -> State]
  /\ took \in [Hooks -> Entry \cup {NoEntry}]
  /\ saved \in [Hooks -> BOOLEAN]
  /\ reply \in [Hooks -> {"none", "silent", "deny", "advise", "refused", "approved"}]

Init ==
  /\ clock = 0
  /\ file = EmptyState
  /\ lock = NoHook
  /\ pc = [p \in Hooks |-> "new"]
  /\ req = [p \in Hooks |-> NoReq]
  /\ op = [p \in Hooks |-> "none"]
  /\ stamp = [p \in Hooks |-> 0]
  /\ mem = [p \in Hooks |-> EmptyState]
  /\ took = [p \in Hooks |-> NoEntry]
  /\ saved = [p \in Hooks |-> FALSE]
  /\ reply = [p \in Hooks |-> "none"]

Goto(p, from, to) == pc[p] = from /\ pc' = [pc EXCEPT ![p] = to]

Local == <<clock, file, lock, stamp, mem, took>>

-----------------------------------------------------------------------------
(* main.go: the dispatch and the two handlers up to the store.             *)

\* Events of no concern to the store: other tools, an empty command, a
\* prompt without approve-risk.  The hook prints nothing (or, for a
\* lifecycle event, context that carries no decision).
Ignore(p) ==
  /\ Goto(p, "new", "exited")
  /\ reply' = [reply EXCEPT ![p] = "silent"]
  /\ UNCHANGED <<Local, req, op, saved>>

\* A prompt that contains approve-risk and does not match the pattern.
Malformed(p) ==
  /\ Goto(p, "new", "exited")
  /\ reply' = [reply EXCEPT ![p] = "refused"]
  /\ UNCHANGED <<Local, req, op, saved>>

StartPre(p, s, c, m) ==
  /\ req' = [req EXCEPT ![p] = [session |-> s, command |-> c, mode |-> m]]
  /\ UNCHANGED <<Local, saved>>
  /\ \/ /\ m \in {"off", "disabled"}
        /\ Goto(p, "new", "exited")
        /\ reply' = [reply EXCEPT ![p] = "silent"]
        /\ UNCHANGED op
     \/ /\ m = "live"
        /\ Goto(p, "new", "open")
        /\ op' = [op EXCEPT ![p] = "consume"]
        /\ UNCHANGED reply
     \/ /\ m \notin {"off", "disabled", "live"}
        /\ Goto(p, "new", "evaluate")
        /\ UNCHANGED <<op, reply>>

StartPrompt(p, s, x) ==
  /\ Goto(p, "new", "open")
  /\ req' = [req EXCEPT ![p] = [session |-> s, prefix |-> x]]
  /\ op' = [op EXCEPT ![p] = "approve"]
  /\ UNCHANGED <<Local, saved, reply>>

-----------------------------------------------------------------------------
(* approval_state.go: mutateApprovalState.                                 *)

\* MkdirAll and OpenFile of the lock file.
Open(p) ==
  /\ \/ Goto(p, "open", "flock")
     \/ "open" \in Faults /\ Goto(p, "open", "return")
  /\ UNCHANGED <<Local, req, op, saved, reply>>

\* Variant: a shared lock, which several hooks hold at a time.
AcquireShared(p) ==
  /\ Goto(p, "flock", "stamp")
  /\ lock' = p
  /\ UNCHANGED <<clock, file, req, op, stamp, mem, took, saved, reply>>

\* Flock blocks until the lock is free.  Its error is dropped, and the hook
\* goes on without the lock.
Acquire(p) ==
  /\ Goto(p, "flock", "stamp")
  /\ lock = NoHook
  /\ lock' = p
  /\ UNCHANGED <<clock, file, req, op, stamp, mem, took, saved, reply>>

FlockFails(p) ==
  /\ "flock" \in Faults
  /\ Goto(p, "flock", "stamp")
  /\ UNCHANGED <<Local, req, op, saved, reply>>

Stamp(p) ==
  /\ Goto(p, "stamp", "mutate")
  /\ stamp' = [stamp EXCEPT ![p] = clock]
  /\ UNCHANGED <<clock, file, lock, req, op, mem, took, saved, reply>>

\* The state in memory after loadApprovalState and cleanupApprovalState.
Loaded(p) == Cleanup(file, stamp[p])

ReqKey(p) == KeyOf(req[p].session, req[p].command)

\* The closure of recordPending.
RecordFn(p) ==
  /\ op[p] = "record"
  /\ mem' = [mem EXCEPT ![p] =
       WithPending(Loaded(p), ReqKey(p), NewEntry(req[p].command, stamp[p], p))]
  /\ UNCHANGED took

\* The closure of approvePrefix: no match and several are refused alike.
ApproveFn(p) ==
  LET keys == Matches(Loaded(p), req[p].session, req[p].prefix) IN
  /\ op[p] = "approve"
  /\ \/ \E k \in keys :
          /\ keys = {k}
          /\ mem' = [mem EXCEPT ![p] = WithApproved(Loaded(p), k, stamp[p], p)]
          /\ took' = [took EXCEPT ![p] = Loaded(p).pending[k]]
     \/ /\ ~Unique(keys)
        /\ mem' = [mem EXCEPT ![p] = Loaded(p)]
        /\ UNCHANGED took

\* The closure of consumeApproval.
ConsumeFn(p) ==
  LET entry == Loaded(p).approved[ReqKey(p)] IN
  /\ op[p] = "consume"
  /\ \/ /\ Honours(entry, req[p].command)
        /\ mem' = [mem EXCEPT ![p] = WithoutApproved(Loaded(p), ReqKey(p))]
        /\ took' = [took EXCEPT ![p] = entry]
     \/ /\ ~Honours(entry, req[p].command)
        /\ mem' = [mem EXCEPT ![p] = Loaded(p)]
        /\ UNCHANGED took

Mutate(p) ==
  /\ Goto(p, "mutate", "save")
  /\ RecordFn(p) \/ ApproveFn(p) \/ ConsumeFn(p)
  /\ UNCHANGED <<clock, file, lock, req, op, stamp, saved, reply>>

\* The memory of a hook is of no use once it has saved or died.
Dropped(p) == [mem EXCEPT ![p] = EmptyState]

\* saveApprovalState: a temporary file is written and renamed over
\* state.json.  Nothing is visible before the rename; any failure leaves
\* the old file.
Save(p) ==
  /\ Goto(p, "save", "unlock")
  /\ \/ /\ file' = mem[p]
        /\ saved' = [saved EXCEPT ![p] = TRUE]
     \/ /\ "save" \in Faults
        /\ UNCHANGED <<file, saved>>
  /\ mem' = Dropped(p)
  /\ UNCHANGED <<clock, lock, req, op, stamp, took, reply>>

\* Variant: the lock outlives its holder.
NotFreed(p) == lock

\* Variant: any hook that ends frees the lock, as if it were a lock file.
FreedByAnyone(p) == NoHook

\* LOCK_UN and Close; a hook that runs without the lock releases nothing.
Freed(p) == IF lock = p THEN NoHook ELSE lock

Unlock(p) ==
  /\ Goto(p, "unlock", "return")
  /\ lock' = Freed(p)
  /\ UNCHANGED <<clock, file, req, op, stamp, mem, took, saved, reply>>

-----------------------------------------------------------------------------
(* The callers of mutateApprovalState after it returns.                    *)

\* consumeApproval drops the error: only the closure's verdict counts.
ReturnConsume(p) ==
  /\ op[p] = "consume"
  /\ \/ took[p] # NoEntry /\ Goto(p, "return", "audit")
     \/ took[p] = NoEntry /\ Goto(p, "return", "evaluate")
  /\ UNCHANGED <<Local, req, op, saved, reply>>

\* evaluate and Aggregate: the level depends on the working directory,
\* on the configuration and on symbolic links, so it may vary.
Evaluate(p) ==
  /\ pc[p] = "evaluate"
  /\ \E level \in Levels[req[p].command] :
       \/ /\ level = "allow"
          /\ Goto(p, "evaluate", "audit")
          /\ UNCHANGED <<op, saved>>
       \/ /\ level = "ask"
          /\ Goto(p, "evaluate", "open")
          /\ op' = [op EXCEPT ![p] = "record"]
          /\ saved' = [saved EXCEPT ![p] = FALSE]
  /\ UNCHANGED <<Local, req, reply>>

\* Variant: a command whose entry cannot be recorded is let through.
LetThroughUnrecorded(p) ==
  /\ op[p] = "record"
  /\ IF saved[p] THEN Goto(p, "return", "emit") ELSE Goto(p, "return", "audit")
  /\ UNCHANGED <<Local, req, op, saved, reply>>

\* An error of recordPending only lengthens the message.
ReturnRecord(p) ==
  /\ op[p] = "record"
  /\ Goto(p, "return", "emit")
  /\ UNCHANGED <<Local, req, op, saved, reply>>

Observing == {"shadow", "dry-run"}

Emit(p) ==
  /\ Goto(p, "emit", "audit")
  /\ reply' = [reply EXCEPT ![p] = IF req[p].mode \in Observing THEN "advise" ELSE "deny"]
  /\ UNCHANGED <<Local, req, op, saved>>

\* writeAudit, whose failures are ignored, and the exit of the process.  A
\* hook that has printed nothing by now lets the command run.
Audit(p) ==
  /\ Goto(p, "audit", "exited")
  /\ reply' = [reply EXCEPT ![p] = IF @ = "none" THEN "silent" ELSE @]
  /\ UNCHANGED <<Local, req, op, saved>>

\* The answer to the user: an error of the store is reported as a refusal.
ReturnApprove(p) ==
  /\ op[p] = "approve"
  /\ Goto(p, "return", "exited")
  /\ reply' = [reply EXCEPT
       ![p] = IF saved[p] /\ took[p] # NoEntry THEN "approved" ELSE "refused"]
  /\ UNCHANGED <<Local, req, op, saved>>

-----------------------------------------------------------------------------

\* The kernel drops the flock of a dead process with its descriptor.
Kill(p) ==
  /\ pc[p] \notin Ended \cup {"new"}
  /\ pc' = [pc EXCEPT ![p] = "killed"]
  /\ lock' = Freed(p)
  /\ mem' = Dropped(p)
  /\ UNCHANGED <<clock, file, req, op, stamp, took, saved, reply>>

Tick ==
  /\ clock < MaxClock
  /\ clock' = clock + 1
  /\ UNCHANGED <<file, lock, pc, req, op, stamp, mem, took, saved, reply>>

\* All hooks are done; no other process exists.
Finished ==
  /\ \A p \in Hooks : pc[p] \in Ended
  /\ UNCHANGED vars

Begin(p) ==
  \/ Ignore(p)
  \/ Malformed(p)
  \/ \E s \in Sessions, c \in Commands, m \in Modes : StartPre(p, s, c, m)
  \/ \E s \in Sessions, x \in Prefixes : StartPrompt(p, s, x)

Store(p) ==
  \/ Open(p)
  \/ Acquire(p)
  \/ Stamp(p)
  \/ Mutate(p)
  \/ Save(p)
  \/ Unlock(p)

Caller(p) ==
  \/ ReturnConsume(p)
  \/ Evaluate(p)
  \/ ReturnRecord(p)
  \/ Emit(p)
  \/ Audit(p)
  \/ ReturnApprove(p)

Run(p) == Store(p) \/ Caller(p)

Next ==
  \/ \E p \in Hooks : Begin(p) \/ Run(p) \/ FlockFails(p) \/ Kill(p)
  \/ Tick
  \/ Finished

Spec == Init /\ [][Next]_vars

\* A process that has started is scheduled until it ends.  Nothing is
\* assumed of kills, of the clock or of new events, and a hook that waits
\* for the lock cannot count on an error of flock to get it out.
FairSpec == Spec /\ \A p \in Hooks : WF_vars(Run(p))

-----------------------------------------------------------------------------
(* Properties.                                                             *)

IsPre(p) == req[p] \in PreRequest

\* A live hook let its command run because it had taken an approval.
Passed(p) == op[p] = "consume" /\ took[p] # NoEntry /\ pc[p] = "exited"

\* hooks_readme.md: approvals "are consumed after one matching retry".  Two
\* hooks never pass on the same approval, however they interleave and
\* whichever of them is killed.
SpentOnce ==
  \A p, q \in Hooks :
     p # q /\ Passed(p) /\ Passed(q) => took[p].by # took[q].by

\* The hooks behind an approval: b blocked a command in a session, a
\* approved that entry for the user, and the entry of a is what p found.
ApprovedBy(p, a) ==
  LET b == took[a].by IN
  /\ op[a] = "approve"
  /\ took[a] # NoEntry
  /\ op[b] = "record"
  /\ req[b].session = req[p].session
  /\ req[a].session = req[p].session
  /\ req[b].command = req[p].command

\* hooks_readme.md: "Risk approvals are scoped to the current Codex
\* session_id and the exact command".  A command that the rules find risky
\* runs in an enforcing mode only on an approval the user gave, in this
\* session, for a block of this very command.  No failing system call
\* opens another way.
RiskyRunsOnlyApproved ==
  \A p \in Hooks :
     /\ IsPre(p)
     /\ req[p].mode \notin {"off", "disabled"} \cup Observing
     /\ Levels[req[p].command] = {"ask"}
     /\ reply[p] = "silent"
     => took[p] # NoEntry /\ ApprovedBy(p, took[p].by)

\* hooks_readme.md: approvals "expire after 30 minutes".  The retry looks
\* at the clock less than TTL after the approval did, and the approval less
\* than TTL after the block, however long each waits for the lock.
WithinTTL ==
  \A p \in Hooks :
     took[p] # NoEntry =>
       /\ stamp[p] >= stamp[took[p].by]
       /\ stamp[p] < stamp[took[p].by] + TTL

\* Where the entry that hook p wrote may have gone: it is still there, it
\* has expired, a later hook took it, or a later hook of the same kind
\* overwrote it.
Accounted(book, k, p) ==
  \/ book[k] # NoEntry /\ book[k].by = p
  \/ stamp[p] + TTL <= clock
  \/ \E q \in Hooks : took[q] # NoEntry /\ took[q].by = p
  \/ \E q \in Hooks \ {p} :
        /\ op[q] = op[p] /\ saved[q]
        /\ stamp[q] >= stamp[p]
        /\ \/ book[k] # NoEntry /\ book[k].by = q
           \/ stamp[q] + TTL <= clock
           \/ \E r \in Hooks : took[r] # NoEntry /\ took[r].by = q

\* user_prompt.go refuses an ambiguous prefix ("Use more hex characters").
\* When two blocked commands of a session both match the prompt and both
\* have been on file since before it, neither is approved by it.
AmbiguousRefused ==
  \A a, b \in Hooks :
     /\ op[a] = "approve" /\ took[a] # NoEntry
     /\ op[b] = "record" /\ saved[b]
     /\ req[b].session = req[a].session
     /\ HashOf[req[b].command] \in PrefixOf[req[a].prefix]
     /\ HashOf[req[b].command] # HashOf[took[a].command]
     /\ stamp[b] < stamp[a] /\ stamp[a] < stamp[b] + TTL
     => \E q, r \in Hooks :
           /\ op[r] = "record" /\ ReqKey(r) = ReqKey(b)
           /\ took[q] # NoEntry /\ took[q].by = r

\* What a hook has announced is not lost.  When the user has been told that
\* an approval is recorded (user_prompt.go:46), or the model has been told
\* which hash to approve (main.go:223) and the entry was saved, no other
\* hook's write makes the entry disappear.
AnnouncedNotLost ==
  \A p \in Hooks :
     /\ reply[p] = "approved" =>
          Accounted(file.approved, KeyOf(req[p].session, took[p].command), p)
     /\ reply[p] \in {"deny", "advise"} /\ saved[p] =>
          Accounted(file.pending, ReqKey(p), p)

\* Every hook that begins comes to an end: none waits for ever for a lock,
\* not even for that of a hook that was killed.
HooksEnd == \A p \in Hooks : pc[p] # "new" ~> pc[p] \in Ended

=============================================================================
