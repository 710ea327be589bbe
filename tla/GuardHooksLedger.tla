-------------------------- MODULE GuardHooksLedger --------------------------
(***************************************************************************)
(* The hooks implement the ledger.  The books are those of the file; an id *)
(* is a hook.  A hook's id is issued when its entry reaches the file, and  *)
(* an entry is taken when its removal does.                                *)
(***************************************************************************)
EXTENDS GuardHooksInv

Issued ==
  {p \in Hooks :
     /\ saved[p]
     /\ op[p] = "record" \/ (op[p] = "approve" /\ took[p] # NoEntry)}

Taken == {took[p].by : p \in {q \in Hooks : saved[q] /\ took[q] # NoEntry}}

Ledger == INSTANCE ApprovalLedger WITH
  now <- clock, pending <- file.pending, approved <- file.approved,
  issued <- Issued, taken <- Taken

\* Every change of state.json is one step of the ledger, at the second the
\* hook stamped: concurrent hooks are serialised, none undoes what another
\* has done, and entries disappear only by being taken or by expiring.
ImplementsLedger == Ledger!LedgerSpec

\* No credit that was taken is left in, or comes back to, the file.
NoCreditReturns == Ledger!Unspent /\ Ledger!DistinctCredits

=============================================================================
