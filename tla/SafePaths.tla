----------------------------- MODULE SafePaths -----------------------------
(***************************************************************************)
(* The allowlist of one hook and the classification of an operand of rm    *)
(* (safe_paths.go).                                                        *)
(*                                                                         *)
(* A word of the command is [abs, names, slash]: whether it begins with a  *)
(* slash, its names, and whether it ends with a slash.  The directory of a *)
(* preceding cd has the same form.                                         *)
(***************************************************************************)
EXTENDS Paths

CONSTANTS
  Home,        \* homeDir(), as $HOME writes it
  HighRoots,   \* /Users and /home
  Scratch,     \* the candidates: /tmp, /var/tmp, $TMPDIR, $XDG_*, ~/.cache
  Protected,   \* catastrophicPrefix: /etc, /usr, /var, ...
  HomeOnly,    \* homeProtected: .ssh, Documents, ...
  NoCd         \* LexicalCwd is empty

\* isCwdRoot
IsCwdRoot(fs, cwd) ==
  cwd \in HighRoots \cup {Root, Home, Realpath(fs, Home)}

\* NewSafePaths
NewSafePaths(fs, cwd, extra) ==
  LET real == Realpath(fs, cwd)
      own == IF IsCwdRoot(fs, real) THEN {} ELSE {real}
  IN [cwd  |-> real,
      own  |-> own,
      dirs |-> own \cup {Realpath(fs, dir) : dir \in Scratch \cup extra}]

Exact == HighRoots \cup {Root, Home}

ProtectedDirs == Protected \cup {Append(Home, name) : name \in HomeOnly}

Has(word, name) == \E i \in DOMAIN word.names : word.names[i] = name

\* The directory a relative operand starts from; a relative cd is taken from
\* the directory of the hook process, which is the cwd of the event.
StartOf(sp, cd) ==
  IF cd = NoCd THEN sp.cwd
  ELSE IF cd.abs THEN cd.names
  ELSE sp.cwd \o cd.names

\* Variant: the parent is taken as it is written.
LexicalOnly(fs, path, slash) == path

\* Links in the parent are resolved, then in the whole path if it exists;
\* so a trailing slash makes no difference.
Resolved(fs, path, slash) ==
  IF path = Root THEN Root
  ELSE LET below == Append(Realpath(fs, Parent(path)), Last(path))
           other == IF slash THEN Realpath(fs, below) ELSE below
       IN Realpath(fs, other)

\* Variant: only globs that are written out below a shared root count.
GlobAsWritten(fs, sp, word, path) ==
  Has(word, "*") /\ Parent(path) \in sp.dirs \ sp.own

\* isSharedRootTopLevelGlob
SharedRootGlob(fs, sp, word, path) ==
  Has(word, "*") /\ Realpath(fs, Parent(path)) \in sp.dirs \ sp.own

\* Variant: the safe paths carve out every catastrophic path.
CarveOutAll(fs, sp, word, cd) ==
  LET path == Clean(IF word.abs THEN word.names ELSE StartOf(sp, cd) \o word.names)
      real == Resolved(fs, path, word.slash)
      safe == \E dir \in sp.dirs : Inside(real, dir)
  IN IF Has(word, "$") THEN "unresolvable"
     ELSE IF ~safe /\ (real \in Exact \/ \E dir \in ProtectedDirs : Inside(real, dir))
     THEN "catastrophic"
     ELSE IF real \in sp.dirs THEN "root_self"
     ELSE IF SharedRootGlob(fs, sp, word, path) THEN "shared_glob"
     ELSE IF safe THEN "safe" ELSE "outside"

\* Classify: the first test that succeeds decides.
Classify(fs, sp, word, cd) ==
  LET path == Clean(IF word.abs THEN word.names ELSE StartOf(sp, cd) \o word.names)
      real == Resolved(fs, path, word.slash)
      safe == \E dir \in sp.dirs : Inside(real, dir)
  IN IF Has(word, "$") THEN "unresolvable"
     ELSE IF real \in Exact THEN "catastrophic"
     ELSE IF ~safe /\ \E dir \in ProtectedDirs : Inside(real, dir) THEN "catastrophic"
     ELSE IF real \in sp.dirs THEN "root_self"
     ELSE IF SharedRootGlob(fs, sp, word, path) THEN "shared_glob"
     ELSE IF safe THEN "safe" ELSE "outside"

=============================================================================
