--------------------------- MODULE GuardHooksInv ---------------------------
(***************************************************************************)
(* The inductive invariant of GuardHooks under a lock that works.          *)
(*                                                                         *)
(* The hook that wrote an entry determines its key, and an entry leaves    *)
(* the file in the same rename that makes its taker count as one who took  *)
(* it; so no two hooks that have saved took the same entry.                *)
(***************************************************************************)
EXTENDS GuardHooks

\* A hook that works on a command has read one, a hook that works on a
\* prefix has read one, and the two never change places.
Inputs ==
  \A p \in Hooks :
     /\ op[p] \in {"consume", "record"} \/ pc[p] \in {"evaluate", "emit"}
          => req[p] \in PreRequest
     /\ pc[p] = "new" => op[p] = "none"
     /\ op[p] = "approve" => req[p] \in PromptRequest /\ pc[p] # "evaluate"

TypeInv == TypeOK /\ Inputs

\* The hooks between flock and unlock are the holder of the lock.
Locking == \A p \in Hooks : pc[p] \in Inside <=> lock = p

\* How far a hook is tells whether it has taken an entry and saved.
Progress ==
  \A p \in Hooks :
     /\ pc[p] \in {"new", "open", "flock", "stamp", "mutate"}
          => took[p] = NoEntry /\ ~saved[p]
     /\ pc[p] = "save" => ~saved[p]
     /\ pc[p] = "evaluate" => took[p] = NoEntry /\ op[p] # "record"
     /\ pc[p] = "emit" => op[p] = "record"
     /\ op[p] \in {"none", "record"} => took[p] = NoEntry
     /\ op[p] = "none" => ~saved[p]
     /\ pc[p] \in Inside \cup {"open", "flock"} => op[p] # "none"

\* A hook about to save holds the outcome of its closure on the file as it
\* is now, and what it took is in the file.
Based(p) ==
  \/ /\ op[p] \in {"consume", "approve"}
     /\ took[p] = NoEntry
     /\ mem[p] = Loaded(p)
  \/ /\ op[p] = "record"
     /\ mem[p] = WithPending(Loaded(p), ReqKey(p), NewEntry(req[p].command, stamp[p], p))
  \/ /\ op[p] = "consume"
     /\ took[p] # NoEntry
     /\ took[p] = Loaded(p).approved[ReqKey(p)]
     /\ mem[p] = WithoutApproved(Loaded(p), ReqKey(p))
  \/ /\ op[p] = "approve"
     /\ took[p] # NoEntry
     /\ \E h \in Hashes : LET k == <<req[p].session, h>> IN
          /\ took[p] = Loaded(p).pending[k]
          /\ mem[p] = WithApproved(Loaded(p), k, stamp[p], p)

SavesCurrent == \A p \in Hooks : pc[p] = "save" => Based(p)

\* The hook that wrote a pending entry blocked the command it names.
Blocked(p) == op[p] = "record" /\ saved[p]

\* The hook that wrote an approved entry approved the command it names.
Approved(p) == op[p] = "approve" /\ saved[p] /\ took[p] # NoEntry

Written ==
  \A k \in Keys :
     LET e == file.pending[k]
         f == file.approved[k]
     IN /\ e # NoEntry => Blocked(e.by) /\ k = ReqKey(e.by) /\ e.command = req[e.by].command
        /\ f # NoEntry => /\ Approved(f.by)
                          /\ k = KeyOf(req[f.by].session, took[f.by].command)
                          /\ f.command = took[f.by].command

\* What a hook took was written by a hook of the other kind.
Sources ==
  \A p \in Hooks :
     took[p] # NoEntry =>
       /\ op[p] = "approve" => Blocked(took[p].by)
       /\ op[p] = "consume" => Approved(took[p].by)

\* An entry taken by a hook that has saved is not in the file.
Gone ==
  \A p \in Hooks, k \in Keys :
     saved[p] /\ took[p] # NoEntry =>
       /\ file.pending[k] # NoEntry => file.pending[k].by # took[p].by
       /\ file.approved[k] # NoEntry => file.approved[k].by # took[p].by

\* No two hooks have saved the removal of the same entry.  This holds for
\* approvals and for pending entries alike, and also when saving may fail:
\* what a hook has not saved it has not taken.
TakenOnce ==
  \A p, q \in Hooks :
     /\ p # q
     /\ saved[p] /\ took[p] # NoEntry
     /\ saved[q] /\ took[q] # NoEntry
     => took[p].by # took[q].by

CreditInv ==
  TypeInv /\ Locking /\ Progress /\ SavesCurrent /\ Written /\ Sources /\ Gone /\ TakenOnce

\* A hook that lets a command pass has saved the removal of its approval.
PassSaves ==
  \A p \in Hooks :
     /\ op[p] = "consume" /\ took[p] # NoEntry
     /\ pc[p] \in {"unlock", "return", "audit", "exited"}
     => saved[p]

-----------------------------------------------------------------------------
(* The life of an entry.                                                   *)

\* An entry lives from the second that its writer looked at the clock.
Lives ==
  \A k \in Keys :
     LET e == file.pending[k]
         f == file.approved[k]
     IN /\ e # NoEntry => e.expires = stamp[e.by] + TTL
        /\ f # NoEntry => f.expires = stamp[f.by] + TTL

\* The clock is read under the lock: whatever a hook finds in the file was
\* stamped no later than itself.
Stamps ==
  /\ \A p \in Hooks : stamp[p] <= clock
  /\ \A p \in Hooks, k \in Keys :
        pc[p] = "mutate" =>
          /\ file.pending[k] # NoEntry => stamp[file.pending[k].by] <= stamp[p]
          /\ file.approved[k] # NoEntry => stamp[file.approved[k].by] <= stamp[p]

LifeInv == CreditInv /\ Lives /\ Stamps /\ WithinTTL

-----------------------------------------------------------------------------
(* Where an approval comes from.                                           *)

\* What an approving hook took, a hook of the same session had blocked, and
\* what a retry took was approved for its own session and command.
Provenance ==
  \A p \in Hooks :
     took[p] # NoEntry =>
       /\ op[p] = "approve" => /\ op[took[p].by] = "record"
                              /\ req[took[p].by].session = req[p].session
                              /\ req[took[p].by].command = took[p].command
       /\ op[p] = "consume" => ApprovedBy(p, took[p].by)

\* Of a command that the rules always find risky.
AlwaysRisky(p) ==
  /\ IsPre(p)
  /\ req[p].mode \notin {"off", "disabled"} \cup Observing
  /\ Levels[req[p].command] = {"ask"}

\* A hook is silent, or about to be, only after it took an approval.
Silences ==
  \A p \in Hooks :
     /\ pc[p] = "new" => req[p] = NoReq
     /\ pc[p] \notin {"audit"} \cup Ended => reply[p] = "none"
     /\ AlwaysRisky(p) /\ (reply[p] = "silent" \/ (pc[p] = "audit" /\ reply[p] = "none"))
          => op[p] = "consume" /\ took[p] # NoEntry

OriginInv == CreditInv /\ Provenance /\ Silences

-----------------------------------------------------------------------------
(* What becomes of an entry.                                               *)

\* Between its look at the clock and its rename, a hook is the last to have
\* looked.
Latest ==
  \A p \in Hooks : pc[p] \in {"mutate", "save"} => \A q \in Hooks : stamp[q] <= stamp[p]

\* The key under which a hook writes its entry.
KeyBy(q) ==
  IF op[q] = "approve" THEN KeyOf(req[q].session, took[q].command) ELSE ReqKey(q)

\* Hook q wrote the same kind of entry under the same key as p, and not
\* before p did: it is p itself, or it has overwritten what p wrote.
Heir(q, p) ==
  /\ saved[q] /\ op[q] = op[p]
  /\ op[q] = "approve" => took[q] # NoEntry
  /\ KeyBy(q) = KeyBy(p)
  /\ stamp[q] >= stamp[p]

TakenBy(r, q) == took[r] # NoEntry /\ took[r].by = q

\* The entry of p, or one that has replaced it, is in the book or was taken;
\* otherwise some hook has come when it had expired.
Traced(book, p) ==
  \/ \E c \in Hooks : stamp[c] >= stamp[p] + TTL
  \/ \E q \in Hooks :
        /\ Heir(q, p)
        /\ \/ book[KeyBy(p)] # NoEntry /\ book[KeyBy(p)].by = q
           \/ \E r \in Hooks : TakenBy(r, q)

Traces ==
  \A p \in Hooks :
     /\ Blocked(p) => Traced(file.pending, p)
     /\ Approved(p) => Traced(file.approved, p)

\* What a hook has announced it has done.
Replies ==
  \A p \in Hooks :
     /\ reply[p] = "approved" => Approved(p)
     /\ reply[p] \in {"deny", "advise"} => op[p] = "record"

TraceInv == LifeInv /\ Latest /\ Traces /\ Replies

=============================================================================
