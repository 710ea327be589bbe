---------------------------- MODULE ProjectConfig ----------------------------
(***************************************************************************)
(* How a hook finds the configuration of the project it runs in, whether   *)
(* it trusts it, and which of its safe paths join the allowlist            *)
(* (config.go, main.go).                                                   *)
(*                                                                         *)
(* Of .codex/bash-guard.toml the model keeps the list of safe paths, each  *)
(* a word as in SafePaths, or Malformed.  A world is a file system with    *)
(* the configurations in it, by the real path of their project.            *)
(***************************************************************************)
EXTENDS SafePaths, FiniteSets

CONSTANTS
  Worlds,      \* file systems, with a field configs
  Cwds,        \* directories of the event, as the envelope writes them
  Trusts,      \* contents of trusted-projects.toml
  Globals,     \* sets of extra safe paths of config.toml
  Malformed,   \* a configuration that does not parse
  NoRoot       \* no configuration was found

\* A configuration lies in a directory; the paths of the trust list are taken
\* as they are written.  Some directory is always safe: /tmp.
ASSUME ConfigAssumption ==
  /\ \A fs \in Worlds : WellFormed(fs) /\ DOMAIN fs.configs \subseteq fs.dirs
  /\ \A fs \in Worlds : \A dir \in DOMAIN fs.configs :
       fs.configs[dir] \in Seq([abs : BOOLEAN, names : Path, slash : BOOLEAN]) \cup {Malformed}
  /\ Cwds \subseteq Path
  /\ \A trust \in Trusts : trust \in Seq([root : Path, honour : BOOLEAN])
  /\ NoRoot \notin Path
  /\ Scratch # {}

VARIABLES
  env,      \* file system, cwd, trust and global paths of the hook
  at,       \* where findProjectConfig looks
  phase,    \* "find", "trust", "read", "admit", "build", "done"
  root,     \* rootReal
  honoured, \* HonorSafePaths of the entry that matched
  left,     \* the safe paths of the configuration still to be checked
  extras,   \* those admitted
  notice,   \* whether the untrusted notice was given
  sp        \* the allowlist

vars == <<env, at, phase, root, honoured, left, extras, notice, sp>>

NoPaths == [cwd |-> Root, own |-> {}, dirs |-> {}]

TypeOK ==
  /\ env.fs \in Worlds /\ env.cwd \in Cwds /\ env.trust \in Trusts
  /\ IsPrefix(at, env.cwd)
  /\ phase \in {"find", "trust", "read", "admit", "build", "done"}
  /\ root = NoRoot \/ root \in env.fs.dirs
  /\ honoured \in BOOLEAN /\ notice \in BOOLEAN
  /\ notice => root # NoRoot /\ phase \in {"build", "done"}
  /\ left # <<>> => phase = "admit"
  /\ sp # NoPaths <=> phase = "done"

Init ==
  /\ \E fs \in Worlds, cwd \in Cwds, trust \in Trusts, global \in Globals :
       /\ Follow(fs, Root, cwd) \in fs.dirs
       /\ env = [fs |-> fs, cwd |-> cwd, trust |-> trust, global |-> global]
  /\ at = env.cwd
  /\ phase = "find"
  /\ root = NoRoot
  /\ honoured = FALSE
  /\ left = <<>>
  /\ extras = {}
  /\ notice = FALSE
  /\ sp = NoPaths

HasConfig(dir) == Follow(env.fs, Root, dir) \in DOMAIN env.fs.configs

\* One turn of findProjectConfig: it goes up the path as it is written.
Find ==
  /\ phase = "find"
  /\ \/ /\ HasConfig(at)
        /\ phase' = "trust"
        /\ root' = Realpath(env.fs, at)
        /\ UNCHANGED at
     \/ /\ ~HasConfig(at)
        /\ phase' = IF at = Root THEN "build" ELSE "find"
        /\ at' = Parent(at)
        /\ UNCHANGED root
  /\ UNCHANGED <<env, honoured, left, extras, notice, sp>>

\* Variant: the roots are compared as they are written.
SameAsWritten(entry) == entry.root = root

SameRoot(entry) == Realpath(env.fs, entry.root) = root

\* Variant: the return after the notice is missing.
TrustGoesOn ==
  LET entry == SelectInSeq(env.trust, SameRoot) IN
  /\ phase = "trust"
  /\ notice' = (entry = 0)
  /\ honoured' = (entry = 0 \/ env.trust[entry].honour)
  /\ phase' = "read"
  /\ UNCHANGED <<env, at, root, left, extras, sp>>

\* The first entry of the trust list with the same real root decides.
Trust ==
  LET entry == SelectInSeq(env.trust, SameRoot) IN
  /\ phase = "trust"
  /\ \/ /\ entry = 0
        /\ notice' = TRUE
        /\ phase' = "build"
        /\ UNCHANGED honoured
     \/ /\ entry # 0
        /\ honoured' = env.trust[entry].honour
        /\ phase' = "read"
        /\ UNCHANGED notice
  /\ UNCHANGED <<env, at, root, left, extras, sp>>

\* The configuration is read, and left alone if it is not honoured.
Read ==
  LET config == env.fs.configs[root] IN
  /\ phase = "read"
  /\ IF config = Malformed \/ ~honoured
     THEN phase' = "build" /\ UNCHANGED left
     ELSE phase' = "admit" /\ left' = config
  /\ UNCHANGED <<env, at, root, honoured, extras, notice, sp>>

\* isCatastrophicByPrefix
CatastrophicByPrefix(path) == \E dir \in Protected \cup {Root} : Inside(path, dir)

Target(word) ==
  Realpath(env.fs, Clean(IF word.abs THEN word.names ELSE root \o word.names))

Admitted(path) == Inside(path, root) /\ ~CatastrophicByPrefix(path)

\* One turn of the loop over SafePaths.Extra.
Admit ==
  /\ phase = "admit"
  /\ \/ /\ left = <<>>
        /\ phase' = "build"
        /\ UNCHANGED <<left, extras>>
     \/ /\ left # <<>>
        /\ extras' = extras \cup {path \in {Target(Head(left))} : Admitted(path)}
        /\ left' = Tail(left)
        /\ UNCHANGED phase
  /\ UNCHANGED <<env, at, root, honoured, notice, sp>>

\* buildPreToolUseOutput: the paths of config.toml, then those of the project.
Build ==
  /\ phase = "build"
  /\ phase' = "done"
  /\ sp' = NewSafePaths(env.fs, env.cwd, env.global \cup extras)
  /\ UNCHANGED <<env, at, root, honoured, left, extras, notice>>

Finished == phase = "done" /\ UNCHANGED vars

Next == Find \/ Trust \/ Read \/ Admit \/ Build \/ Finished

Spec == Init /\ [][Next]_vars

-----------------------------------------------------------------------------
(* Properties.                                                             *)

\* The allowlist of the same hook in a tree without project configurations.
Without == NewSafePaths(env.fs, env.cwd, env.global)

\* The entry of the trust list that is really the directory at.
Entry ==
  SelectInSeq(env.trust,
    LAMBDA entry : Follow(env.fs, Root, entry.root) = Follow(env.fs, Root, at))

\* config.go:88: the user is told of a configuration that is ignored for
\* want of trust, and of no other: the nearest one at or above the cwd
\* decides, and a trust list that reaches the project over a link counts.
UntrustedIsTold ==
  phase = "done" =>
    (notice <=> root # NoRoot /\ Entry = 0)

\* config.go:82: a trusted and honoured project gets its safe paths, if they
\* lie in it and in no protected directory.
HonouredPathsCount ==
  phase = "done" /\ root # NoRoot /\ Entry # 0 =>
    LET config == env.fs.configs[root] IN
    env.trust[Entry].honour /\ config # Malformed =>
      \A word \in ToSet(config) :
        LET path == Target(word) IN
        Inside(path, root) /\ ~(\E dir \in ProtectedDirs : Inside(path, dir)) =>
          path \in sp.dirs

=============================================================================
