--------------------------- MODULE ApprovalLedger ---------------------------
(***************************************************************************)
(* What the approval store promises, with no files, locks or processes:    *)
(* hooks_readme.md says that risk approvals are scoped to the session and  *)
(* the exact command, expire, and are consumed by one matching retry.      *)
(*                                                                         *)
(* Every entry carries the id of the hook that wrote it.  An id is issued  *)
(* once and taken at most once: a pending entry is taken by the approval   *)
(* it becomes, an approved one by the retry it lets through.  The time t   *)
(* of a step is the second at which its hook looked at the clock; it may   *)
(* lie in the past when the step takes effect.                             *)
(***************************************************************************)
EXTENDS ApprovalState

VARIABLES now, pending, approved, issued, taken

ledger == <<now, pending, approved, issued, taken>>

LedgerTypeOK ==
  /\ now \in Nat
  /\ pending \in Book
  /\ approved \in Book
  /\ issued \subseteq Hooks
  /\ taken \subseteq Hooks

LedgerInit ==
  /\ now = 0
  /\ pending = EmptyBook
  /\ approved = EmptyBook
  /\ issued = {}
  /\ taken = {}

\* Outside the keys a step is about, a book only loses expired entries.
OnlyExpires(book, next, except, t) ==
  \A k \in Keys \ except :
     \/ next[k] = book[k]
     \/ Expired(book[k], t) /\ next[k] = NoEntry

Alive(entry, t) == entry # NoEntry /\ ~Expired(entry, t)

\* Time passes.
Pass == now' > now /\ now' \in Nat /\ UNCHANGED <<pending, approved, issued, taken>>

\* A risky command was seen: it waits for the user under a fresh id.
Offer(s, c, id, t) ==
  LET k == KeyOf(s, c) IN
  /\ id \notin issued
  /\ pending' \in Book
  /\ pending'[k] = NewEntry(c, t, id)
  /\ OnlyExpires(pending, pending', {k}, t)
  /\ approved' \in Book
  /\ OnlyExpires(approved, approved', {}, t)
  /\ issued' = issued \cup {id}
  /\ UNCHANGED <<now, taken>>

\* The user approves a command that waits: the pending entry is taken.
Grant(k, id, t) ==
  /\ id \notin issued
  /\ Alive(pending[k], t)
  /\ pending' \in Book
  /\ pending'[k] = NoEntry
  /\ OnlyExpires(pending, pending', {k}, t)
  /\ approved' \in Book
  /\ approved'[k] = NewEntry(pending[k].command, t, id)
  /\ OnlyExpires(approved, approved', {k}, t)
  /\ issued' = issued \cup {id}
  /\ taken' = taken \cup {pending[k].by}
  /\ UNCHANGED now

\* A retry of the command uses the approval up.
Spend(s, c, t) ==
  LET k == KeyOf(s, c) IN
  /\ Alive(approved[k], t)
  /\ approved[k].command = c
  /\ approved' \in Book
  /\ approved'[k] = NoEntry
  /\ OnlyExpires(approved, approved', {k}, t)
  /\ pending' \in Book
  /\ OnlyExpires(pending, pending', {}, t)
  /\ taken' = taken \cup {approved[k].by}
  /\ UNCHANGED <<now, issued>>

\* A step that changes no entry may still drop the expired ones.
Forget(t) ==
  /\ pending' \in Book
  /\ OnlyExpires(pending, pending', {}, t)
  /\ approved' \in Book
  /\ OnlyExpires(approved, approved', {}, t)
  /\ UNCHANGED <<now, issued, taken>>

LedgerNext ==
  \/ Pass
  \/ \E t \in 0..now :
       \/ Forget(t)
       \/ \E s \in Sessions, c \in Commands : Spend(s, c, t)
       \/ \E s \in Sessions, c \in Commands, id \in Hooks : Offer(s, c, id, t)
       \/ \E k \in Keys, id \in Hooks : Grant(k, id, t)

LedgerSpec == LedgerInit /\ [][LedgerNext]_ledger

\* Every entry that can still be taken was issued and has not been taken.
Unspent ==
  \A k \in Keys :
     /\ pending[k] # NoEntry => pending[k].by \in issued \ taken
     /\ approved[k] # NoEntry => approved[k].by \in issued \ taken

\* No two entries of the ledger are the same credit.
DistinctCredits ==
  \A j, k \in Keys :
     /\ pending[j] # NoEntry /\ approved[k] # NoEntry
          => pending[j].by # approved[k].by
     /\ j # k /\ pending[j] # NoEntry /\ pending[k] # NoEntry
          => pending[j].by # pending[k].by
     /\ j # k /\ approved[j] # NoEntry /\ approved[k] # NoEntry
          => approved[j].by # approved[k].by

=============================================================================
