------------------------------- MODULE Paths -------------------------------
(***************************************************************************)
(* Absolute paths, a file system with symbolic links, the functions of Go  *)
(* that bash-guard applies to paths, and what the kernel does with a path. *)
(*                                                                         *)
(* A path is the sequence of its names; "/" is the empty one.  ".." is a   *)
(* name, and so are the shell's "*", "~" and "$" (for any variable or      *)
(* substitution).  A file system says which paths are directories, which   *)
(* are files, and where the links point; a link points to a path that      *)
(* holds no link itself.                                                   *)
(***************************************************************************)
EXTENDS Naturals, Sequences, SequencesExt

CONSTANT Missing   \* the result of following a path that does not exist

Name == STRING
Path == Seq(Name)

ASSUME PathsAssumption == Missing \notin Path

Root == <<>>

\* filepath.Dir
Parent(path) == IF path = Root THEN Root ELSE Front(path)

\* filepath.Clean: ".." is removed with the name before it, whatever that is.
Enter(path, name) == IF name = ".." THEN Parent(path) ELSE Append(path, name)

Clean(names) ==
  LET path[i \in 0..Len(names)] == IF i = 0 THEN Root ELSE Enter(path[i - 1], names[i])
  IN path[Len(names)]

\* pathInside: equal or below.
Inside(path, dir) == IsPrefix(dir, path)

Nodes(fs) == fs.dirs \cup fs.files \cup DOMAIN fs.links

\* Whether a path goes up somewhere.
GoesUp(names) == \E i \in DOMAIN names : names[i] = ".."

\* A file system is a tree: what holds something is a directory, a path is one
\* thing only, and no entry has a name that means something else.
WellFormed(fs) ==
  /\ Root \in fs.dirs
  /\ Nodes(fs) \subseteq Path
  /\ \A node \in Nodes(fs) \ {Root} : Parent(node) \in fs.dirs /\ Last(node) \notin {"..", "*"}
  /\ DOMAIN fs.links \cap (fs.dirs \cup fs.files) = {}
  /\ fs.dirs \cap fs.files = {}

\* One name of a path walk: links are followed and ".." goes up from where
\* the walk is.
Step(fs, at, name) ==
  IF at = Missing \/ at \notin fs.dirs THEN Missing
  ELSE IF name = ".." THEN Parent(at)
  ELSE LET next == Append(at, name) IN
       IF next \in DOMAIN fs.links
       THEN IF fs.links[next] \in fs.dirs \cup fs.files THEN fs.links[next] ELSE Missing
       ELSE IF next \in fs.dirs \cup fs.files THEN next ELSE Missing

Follow(fs, from, names) ==
  LET at[i \in 0..Len(names)] == IF i = 0 THEN from ELSE Step(fs, at[i - 1], names[i])
  IN at[Len(names)]

\* Whether names, walked on from where base leads, have a ".." that leaves a
\* directory the path as it is written does not end in: one reached by a link.
UpFromLink(fs, base, names) ==
  \E i \in DOMAIN names :
    LET before == base \o SubSeq(names, 1, i - 1) IN
    names[i] = ".." /\ Follow(fs, Root, before) # Clean(before)

\* realpath: EvalSymlinks, or the path as it is written if that fails.
Realpath(fs, path) ==
  LET real == Follow(fs, Root, path) IN
  IF real = Missing THEN path ELSE real

Children(fs, dir) ==
  {path \in Nodes(fs) : path # Root /\ Parent(path) = dir}

\* The entries that rm is asked to remove, started in the directory from,
\* by a word that the shell has expanded.  The last name is not followed,
\* unless a slash comes after it.
Removed(fs, from, names, slash) ==
  IF from = Missing THEN {}
  ELSE IF names = <<>> THEN {from}
  ELSE LET dir == Follow(fs, from, Front(names))
           path == Append(dir, Last(names))
       IN IF dir = Missing THEN {}
          ELSE IF Last(names) = "*" THEN Children(fs, dir)
          ELSE IF Last(names) = ".." \/ (slash /\ path \in DOMAIN fs.links)
          THEN {Step(fs, dir, Last(names))} \ {Missing}
          ELSE {path} \cap Nodes(fs)

=============================================================================
