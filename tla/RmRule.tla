------------------------------- MODULE RmRule -------------------------------
(***************************************************************************)
(* The rm rule (rule_rm.go) over the commands that the parser has found in *)
(* one Bash call, and the aggregation of its decisions (rule.go,           *)
(* decision.go).                                                           *)
(*                                                                         *)
(* The words of a command are taken one at a time: parseRmArgs and the     *)
(* loop over the operands do not depend on each other, so that a word can  *)
(* be sorted and classified at once.  Next to what the code keeps, a       *)
(* history variable holds what harm the call would do if it ran.           *)
(***************************************************************************)
EXTENDS SafePaths, FiniteSets

CONSTANTS
  Worlds,      \* file systems
  Cwds,        \* directories of the event
  Extras,      \* sets of extra safe paths
  Operands,    \* words that do not begin with a dash
  Flags,       \* words that do, "--" aside
  Cds,         \* directories of a preceding cd
  Origins,     \* marks of a command that was unwrapped, besides "plain"
  MaxWords,    \* bound of the operands in one call
  MaxCommands  \* bound of the commands in one call

\* The words are paths, and Codex gives the directory of the event without "..".
ASSUME RmAssumption ==
  /\ \A fs \in Worlds : WellFormed(fs)
  /\ \A cwd \in Cwds : cwd \in Path /\ ~GoesUp(cwd)
  /\ \A word \in Operands \cup Flags \cup Cds : word.names \in Path
  /\ Home \in Path /\ \A extra \in Extras : Scratch \cup extra \subseteq Path
  /\ NoCd \notin Cds /\ "plain" \notin Origins
  /\ MaxWords \in Nat /\ MaxCommands \in Nat

VARIABLES
  env,      \* fs and cwd of the hook
  sp,       \* its SafePaths
  phase,    \* "idle" between commands, "words" within one, "done"
  cd,       \* LexicalCwd of the command
  literal,  \* endOfOpts
  worst,    \* the worst concern so far, or "safe"
  asks,     \* the reason codes of the decisions
  level,    \* the aggregated level
  harm,     \* history: what the call would do that a safe one may not
  words,    \* the number of words so far
  commands  \* the number of commands so far

vars == <<env, sp, phase, cd, literal, worst, asks, level, harm, words, commands>>

Concerns ==
  {"catastrophic", "unresolvable", "outside", "root_self", "shared_glob"}

Harms == {"outside", "home", "root", "sweep"}

\* How a harmful word is written; the properties claim the first of them.
Forms == {"plain", "tilde", "up", "link"}

TypeOK ==
  /\ env.fs \in Worlds /\ env.cwd \in Cwds
  /\ sp.own \subseteq sp.dirs
  /\ phase \in {"idle", "words", "done"}
  /\ cd \in Cds \cup {NoCd}
  /\ literal \in BOOLEAN
  /\ worst \in Concerns \cup {"safe"}
  /\ asks \subseteq Concerns \cup Origins
  /\ level \in {"none", "allow", "ask"}
  /\ harm \subseteq [kind : Harms, form : Forms]
  /\ words \in 0..MaxWords
  /\ commands \in 0..MaxCommands

Init ==
  /\ \E fs \in Worlds, cwd \in Cwds, extra \in Extras :
       /\ Realpath(fs, cwd) \in fs.dirs
       /\ env = [fs |-> fs, cwd |-> cwd]
       /\ sp = NewSafePaths(fs, cwd, extra)
  /\ phase = "idle"
  /\ cd = NoCd
  /\ literal = FALSE
  /\ worst = "safe"
  /\ asks = {}
  /\ level = "none"
  /\ harm = {}
  /\ words = 0
  /\ commands = 0

\* severityRank
Rank(class) ==
  CASE class = "catastrophic" -> 100
    [] class = "unresolvable" -> 70
    [] class = "outside"      -> 60
    [] class = "root_self"    -> 50
    [] class = "shared_glob"  -> 40
    [] class = "safe"         -> 0

WorseOf(old, class) == IF Rank(class) > Rank(old) THEN class ELSE old

-----------------------------------------------------------------------------
(* What the shell and the kernel make of a word.                           *)

Tilde(word) == ~word.abs /\ word.names # <<>> /\ Head(word.names) = "~"

\* The names bash leaves of a word: it puts the home directory in place of "~".
ShellNames(word) == IF Tilde(word) THEN Tail(word.names) ELSE word.names

\* Where bash starts the word, after a cd that has succeeded.
ShellStart(word) ==
  IF word.abs THEN Root
  ELSE IF Tilde(word) THEN Follow(env.fs, Root, Home)
  ELSE Follow(env.fs, Root,
         Clean(IF cd = NoCd THEN env.cwd ELSE IF cd.abs THEN cd.names ELSE env.cwd \o cd.names))

RemovedBy(word) ==
  IF Has(word, "$") THEN {}
  ELSE Removed(env.fs, ShellStart(word), ShellNames(word), word.slash)

Covered(path) == \E dir \in sp.dirs : Inside(path, dir)

\* The directory of which a word names all entries.
Globbed(word) ==
  LET names == ShellNames(word) IN
  IF names = <<>> \/ Last(names) # "*" \/ ShellStart(word) = Missing THEN {}
  ELSE {Follow(env.fs, ShellStart(word), Front(names))} \ {Missing}

\* The path the code starts a word from.
WordBase(word) == IF word.abs THEN Root ELSE Clean(StartOf(sp, cd))

\* Three forms lead the code elsewhere than rm:
\*   - "~" is taken for a name, since nothing expands it before Classify;
\*   - ".." is taken away by Clean with the name of the link before it (line
\*     156), where the kernel goes up from the directory the link points to;
\*   - a link that is named itself is judged by what it points to (line 175),
\*     where rm removes the link.
Form(word, path) ==
  IF Tilde(word) THEN "tilde"
  ELSE IF UpFromLink(env.fs, WordBase(word), word.names) THEN "up"
  ELSE IF Globbed(word) = {} /\ Realpath(env.fs, path) # path THEN "link"
  ELSE "plain"

\* What a harm of each kind hits: something outside every safe directory, the
\* home directory or one that holds it, a safe directory that is named (a glob
\* is compared with the safe directories as it is written), or a shared one of
\* which all entries are named.
Hit(kind, word) ==
  LET removed == RemovedBy(word) IN
  CASE kind = "outside" -> {path \in removed : ~Covered(path)}
    [] kind = "home"    -> {path \in removed : Inside(Realpath(env.fs, Home), path)}
    [] kind = "root"    -> IF Globbed(word) = {} THEN removed \cap sp.dirs ELSE {}
    [] kind = "sweep"   -> Globbed(word) \cap (sp.dirs \ sp.own)

\* The harm a word does, of every kind and form.
HarmOf(word) ==
  UNION {{[kind |-> kind, form |-> Form(word, path)] : path \in Hit(kind, word)} : kind \in Harms}

-----------------------------------------------------------------------------

\* Check begins.  A command that came out of ssh, chroot or xargs, or that
\* stands for code that could not be read, is asked about at once.
Begin(origin, dir) ==
  /\ phase = "idle"
  /\ commands < MaxCommands
  /\ commands' = commands + 1
  /\ cd' = dir
  /\ literal' = FALSE
  /\ worst' = "safe"
  /\ \/ origin \in Origins /\ asks' = asks \cup {origin} /\ UNCHANGED phase
     \/ origin = "plain" /\ phase' = "words" /\ UNCHANGED asks
  /\ UNCHANGED <<env, sp, level, harm, words>>

\* parseRmArgs: "--" ends the options, once.
DashDash ==
  /\ phase = "words"
  /\ ~literal
  /\ literal' = TRUE
  /\ UNCHANGED <<env, sp, phase, cd, worst, asks, level, harm, words, commands>>

\* A word that names something to remove: the loop of Check.
Operand(word) ==
  LET class == Classify(env.fs, sp, word, cd) IN
  /\ phase = "words"
  /\ words < MaxWords
  /\ word \in Operands \/ literal
  /\ worst' = WorseOf(worst, class)
  /\ harm' = harm \cup HarmOf(word)
  /\ words' = words + 1
  /\ UNCHANGED <<env, sp, phase, cd, literal, asks, level, commands>>

\* Variant: a rule without a concern gives a decision all the same.
EndAlways ==
  /\ phase = "words"
  /\ phase' = "idle"
  /\ asks' = asks \cup {worst}
  /\ UNCHANGED <<env, sp, cd, literal, worst, level, harm, words, commands>>

\* The end of Check; without a concern the rule gives no decision.
End ==
  /\ phase = "words"
  /\ phase' = "idle"
  /\ asks' = IF worst = "safe" THEN asks ELSE asks \cup {worst}
  /\ UNCHANGED <<env, sp, cd, literal, worst, level, harm, words, commands>>

\* Aggregate: any ask wins.
Aggregate ==
  /\ phase = "idle"
  /\ commands > 0
  /\ phase' = "done"
  /\ level' = IF asks = {} THEN "allow" ELSE "ask"
  /\ UNCHANGED <<env, sp, cd, literal, worst, asks, harm, words, commands>>

Finished == phase = "done" /\ UNCHANGED vars

Next ==
  \/ \E origin \in Origins \cup {"plain"}, dir \in Cds \cup {NoCd} : Begin(origin, dir)
  \/ DashDash
  \/ \E word \in Operands \cup Flags : Operand(word)
  \/ End
  \/ Aggregate
  \/ Finished

Spec == Init /\ [][Next]_vars

-----------------------------------------------------------------------------
(* Properties.                                                             *)

\* They are about harm of the form "plain".  The other forms are in the model,
\* and Classify allows them: with a link /tmp/l to another directory,
\* "rm /tmp/l/../x" is judged as /tmp/x, and "rm /etc/l" with a link into /tmp
\* as what it points to, against the comment of safe_paths.go:148-151.
Plainly(kind) == [kind |-> kind, form |-> "plain"] \in harm

\* Classify (safe_paths.go:137): what an allowed call removes by a word of the
\* plain form lies in a safe directory, over links in the middle of the word,
\* dangling links, links swept by a glob and a preceding cd, and in whatever
\* order and number of commands the operands come.
AllowedStaysInside == level = "allow" => ~Plainly("outside")

\* safe_paths.go:190: the home directory and those above it are never carved
\* out; an allowed call does not remove them by a word of the plain form,
\* although the cwd or an extra safe path covers them.
HomeStays == level = "allow" => ~Plainly("home")

\* safe_paths.go:223: by a word of the plain form, an allowed call never
\* removes a safe directory itself, and never all entries of a shared one by a
\* glob, also when a link or a cd leads there.
SharedRootsKept == level = "allow" => ~Plainly("root") /\ ~Plainly("sweep")

-----------------------------------------------------------------------------
(* Premises of the theorems.                                               *)

\* No cd goes up from a directory that was reached over a link: the code goes
\* up from the real directory, the shell from the path as it is written.
CdsAreDirect ==
  \A dir \in Cds :
    ~dir.abs /\ Has(dir, "..") => \A fs \in Worlds, cwd \in Cwds : Realpath(fs, cwd) = cwd

\* The home directory is no link and lies directly below one of the roots the
\* code knows; of the safe paths above it there is only that root.
HomeIsUsual ==
  /\ \A fs \in Worlds : Realpath(fs, Home) = Home
  /\ \A i \in 0..Len(Home) : SubSeq(Home, 1, i) \in Exact
  /\ \A fs \in Worlds, extra \in Extras : \A dir \in Scratch \cup extra :
       Inside(Home, Realpath(fs, dir)) => Realpath(fs, dir) \in {Home, Parent(Home)}

=============================================================================
