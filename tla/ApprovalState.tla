--------------------------- MODULE ApprovalState ---------------------------
(***************************************************************************)
(* The contents of state.json and the pure functions over it, from         *)
(* approval_state.go.                                                      *)
(*                                                                         *)
(* The code keeps two maps, session -> command hash -> RiskEntry.  Here    *)
(* each is a "book": a total function on keys <<session, hash>> in which   *)
(* NoEntry stands for a missing key, so that the removal of an empty       *)
(* session bucket needs no step of its own.  Of a RiskEntry the model      *)
(* keeps the command and the expiry.  The short hash, reason and intent    *)
(* are only displayed, and CreatedAt and ApprovedAt are never read back.   *)
(* The field "by" is a history field: the hook process that wrote the      *)
(* entry.  No guard reads it.                                              *)
(***************************************************************************)
EXTENDS Integers

CONSTANTS
  Sessions,   \* values of session_id, after "" became "unknown-session"
  Commands,   \* Bash command texts
  Hashes,     \* full SHA-256 hashes of command texts
  HashOf,     \* the hash of each command
  Prefixes,   \* hash prefixes a user may type after approve-risk
  PrefixOf,   \* the hashes that start with a prefix
  Hooks,      \* hook processes
  TTL,        \* approvalTTLSeconds
  NoEntry     \* a key that is absent from a map

ASSUME StateAssumption ==
  /\ HashOf \in [Commands -> Hashes]
  /\ PrefixOf \in [Prefixes -> SUBSET Hashes]
  /\ TTL \in Nat \ {0}

Keys == Sessions \X Hashes

Entry == [command : Commands, expires : Nat, by : Hooks]

ASSUME NoEntryAssumption == NoEntry \notin Entry

Book == [Keys -> Entry \cup {NoEntry}]

State == [pending : Book, approved : Book]

EmptyBook == [k \in Keys |-> NoEntry]

\* What loadApprovalState returns for a missing or unreadable file.
EmptyState == [pending |-> EmptyBook, approved |-> EmptyBook]

\* Variant: approvals are shared by all sessions.
SharedKeyOf(session, command) ==
  <<CHOOSE s \in Sessions : TRUE, HashOf[command]>>

KeyOf(session, command) == <<session, HashOf[command]>>

\* Variant: off by one, an entry lives through its expiry second.
ExpiredLate(entry, time) == entry # NoEntry /\ entry.expires < time

\* The test of cleanupApprovalState: an entry dies at its expiry second.
Expired(entry, time) == entry # NoEntry /\ entry.expires <= time

CleanBook(book, time) ==
  [k \in Keys |-> IF Expired(book[k], time) THEN NoEntry ELSE book[k]]

Cleanup(state, time) ==
  [pending  |-> CleanBook(state.pending, time),
   approved |-> CleanBook(state.approved, time)]

\* Variant: the expiry lies before the creation.
NewEntryReversed(command, time, hook) ==
  [command |-> command, expires |-> time - TTL, by |-> hook]

NewEntry(command, time, hook) ==
  [command |-> command, expires |-> time + TTL, by |-> hook]

\* Variant: the maps are swapped.
WithPendingApproved(state, key, entry) ==
  [state EXCEPT !.approved[key] = entry]

\* The closure of recordPending: the entry overwrites an earlier one.
WithPending(state, key, entry) ==
  [state EXCEPT !.pending[key] = entry]

\* Variant: the first match that the iteration meets is taken.
FirstMatch(state, session, prefix) ==
  LET all == {k \in {session} \X PrefixOf[prefix] : state.pending[k] # NoEntry}
  IN {k \in all : k = CHOOSE first \in all : TRUE}

\* The keys that a prefix matches among the pending hashes of a session.
Matches(state, session, prefix) ==
  {k \in {session} \X PrefixOf[prefix] : state.pending[k] # NoEntry}

\* The switch of approvePrefix: only a single match is approved.
Unique(keys) == \E k \in keys : keys = {k}

\* Variant: the entry stays pending after it is approved.
ApprovedAndPending(state, key, time, hook) ==
  [state EXCEPT
     !.approved[key] = NewEntry(state.pending[key].command, time, hook)]

\* The closure of approvePrefix, in the case of one match.
WithApproved(state, key, time, hook) ==
  [pending  |-> [state.pending EXCEPT ![key] = NoEntry],
   approved |-> [state.approved EXCEPT
                  ![key] = NewEntry(state.pending[key].command, time, hook)]]

\* consumeApproval honours an entry only for the very command it names.
Honours(entry, command) == entry # NoEntry /\ entry.command = command

\* Variant: the approval is not used up.
ApprovedKept(state, key) == state

WithoutApproved(state, key) ==
  [state EXCEPT !.approved[key] = NoEntry]

=============================================================================
