----------------------------- MODULE ShellWalk -----------------------------
(***************************************************************************)
(* The walk of the syntax tree of one Bash call (parser.go), next to the   *)
(* shell that would run it.                                                *)
(*                                                                         *)
(* A behaviour is a script, node after node in the order of the walk.      *)
(* Open enters a construct, Turn goes to its next part and Close leaves    *)
(* it; the others are simple commands.  The walker keeps a lexical working *)
(* directory and the commands it has seen; the shell keeps its directory,  *)
(* skips what a condition rules out, and runs the rest.  The walk visits   *)
(* both sides of every condition, and never comes to what Unvisited and    *)
(* BareShell stand for.                                                    *)
(***************************************************************************)
EXTENDS Naturals, Sequences, SequencesExt, FiniteSets

CONSTANTS
  Kinds,     \* the constructs that a script may use
  Dirs,      \* absolute literal targets of cd
  Words,     \* its other literal targets: relative paths, "~", "--", "-"
  HookCwd,   \* the directory of the event, where the shell starts
  Empty,     \* lexicalCwd is ""
  MaxNodes,  \* bound of the nodes of a script
  MaxDepth,  \* bound of their nesting
  MaxStages  \* bound of the stages of a pipeline

ASSUME WalkAssumption ==
  /\ Empty \notin Dirs \cup Words
  /\ Dirs \cap Words = {}
  /\ MaxNodes \in Nat
  /\ MaxDepth \in Nat
  /\ MaxStages \in Nat /\ MaxStages >= 2

\* Variant: a subshell is walked as a block is.
CopiesOfBodies == {"dash_c", "eval", "ssh"}

\* Constructs in which a copy of the walker goes on: Subshell, and the bodies
\* of bash -c, eval and ssh, which are parsed again.
Copies == {"subshell", "dash_c", "eval", "ssh"}

\* Constructs that the shell runs in a process of their own; "background" is a
\* statement with & behind it.
Forks == {"subshell", "dash_c", "ssh", "subst", "pipe", "background"}

\* Where a cd stays inside, for the shell and for the walk, and where it does
\* for one of the two only.
Sealed == {"subshell", "dash_c", "ssh"}
Leaky == {"eval", "subst", "pipe", "background"}

\* The number of parts: left and right; condition, then and else; stages, at
\* most.
Parts(kind) ==
  CASE kind \in {"and", "or"} -> 2
    [] kind = "if"   -> 3
    [] kind = "pipe" -> MaxStages
    [] OTHER -> 1

\* The flags a wrapper sets: none (sudo, env, timeout, ...), chroot, xargs.
WrapperFlags == {{}, {"chrooted"}, {"stdinArgs"}}

\* The flags a construct adds to the walkContext: ssh is remote, and wrappers
\* may stand before a shell with -c.
FlagsOf(kind) ==
  CASE kind = "ssh"    -> {{"remote"}}
    [] kind = "dash_c" -> WrapperFlags
    [] OTHER           -> {{}}

Flags == {"remote", "chrooted", "stdinArgs"}

\* A command that the rules judge, and the two that stand for code which the
\* walker cannot read.
Names == {"command", "__shell_pipe_sink__", "__inline_parse_error__"}

\* What has become of the last cd that the walk has come to:
\*   followed  the shell has made it too (or there was none yet)
\*   failed    the shell has tried it and stayed where it was
\*   skipped   the shell has not come to it
\*   joined    its relative target was joined to a directory that is not the
\*             hook's; the walker has put the target in its place
\*   unread    the shell has moved by a cd that the walker cannot follow
\*   crossed   it stands in a construct that the shell forks and the walk does
\*             not, or the other way round
Courses == {"followed", "failed", "skipped", "joined", "unread", "crossed"}

VARIABLES
  walkers,  \* stack of [cwd, executed], one for each copy that is at work
  frames,   \* stack of the constructs that are open
  dir,      \* the directory of the shell: an absolute one, then relative ones
  status,   \* whether its last command succeeded
  course,   \* history: what has become of the last cd
  ran,      \* history: the commands that the shell has run
  nodes,    \* the number of nodes so far
  ended

vars == <<walkers, frames, dir, status, course, ran, nodes, ended>>

Walker == Last(walkers)
Frame == Last(frames)
Inner == frames # <<>>

\* The walkContext here, and whether the shell gets here.
Ctx == IF Inner THEN Frame.ctx ELSE {}
Live == Inner => Frame.live

TypeOK ==
  /\ walkers # <<>>
  /\ \A i \in DOMAIN walkers :
       /\ walkers[i].cwd \in Dirs \cup Words \cup {Empty}
       /\ walkers[i].executed \subseteq
            [node : 1..MaxNodes, name : Names, flags : SUBSET Flags,
             cwd : Dirs \cup Words \cup {Empty}]
  /\ Len(walkers) = 1 + Cardinality({i \in DOMAIN frames : frames[i].kind \in Copies})
  /\ \A i \in DOMAIN frames :
       /\ frames[i].kind \in Kinds
       /\ frames[i].part \in 1..Parts(frames[i].kind)
  /\ dir \in Seq(Dirs \cup Words \cup {HookCwd}) /\ dir # <<>>
  /\ course \in Courses
  /\ status \in BOOLEAN /\ ended \in BOOLEAN
  /\ nodes \in 0..MaxNodes

Init ==
  /\ walkers = <<[cwd |-> Empty, executed |-> {}]>>
  /\ frames = <<>>
  /\ dir = <<HookCwd>>
  /\ status = TRUE
  /\ course = "followed"
  /\ ran = {}
  /\ nodes = 0
  /\ ended = FALSE

NewNode == ~ended /\ nodes < MaxNodes /\ nodes' = nodes + 1

\* The walker goes on with an executed command more.
Recorded(name, flags) ==
  [walkers EXCEPT ![Len(walkers)].executed =
     @ \cup {[node |-> nodes + 1, name |-> name, flags |-> flags, cwd |-> Walker.cwd]}]

\* A cd counts as one of every construct around it, out to the first one that
\* seals it off.
Marked ==
  [i \in DOMAIN frames |->
     IF \E n \in DOMAIN frames : n > i /\ frames[n].kind \in Sealed
     THEN frames[i] ELSE [frames[i] EXCEPT !.cd = TRUE]]

\* Where the shell is after a cd that works.
Target(target) == IF target \in Dirs THEN <<target>> ELSE Append(dir, target)

\* handleCall of cd: the literal target replaces the lexical directory, a
\* relative one too.  The shell gets to the target unless the cd fails.
Cd(target) ==
  /\ NewNode
  /\ walkers' = [walkers EXCEPT ![Len(walkers)].cwd = target]
  /\ frames' = Marked
  /\ \/ /\ Live
        /\ dir' = Target(target)
        /\ status' = TRUE
        /\ course' = IF target \in Dirs \/ dir = <<HookCwd>> THEN "followed" ELSE "joined"
     \/ Live /\ status' = FALSE /\ course' = "failed" /\ UNCHANGED dir
     \/ ~Live /\ course' = "skipped" /\ UNCHANGED <<dir, status>>
  /\ UNCHANGED <<ran, ended>>

\* The other ways to move: the walker stays at a bare cd (its target is the
\* home directory), at one with a variable or a glob, at pushd, and at a cd
\* that it does not come to ("time cd /etc"); it takes the first word of
\* "cd -P /etc", "cd ~" or "cd -" for the directory.
CdElsewhere(word, place) ==
  /\ NewNode
  /\ Live
  /\ walkers' = [walkers EXCEPT ![Len(walkers)].cwd = word]
  /\ frames' = Marked
  /\ dir' = <<place>>
  /\ status' = TRUE
  /\ course' = "unread"
  /\ UNCHANGED <<ran, ended>>

\* The flags of all constructs around this place, as the shell sees them.
Around == UNION {frames[i].flags : i \in DOMAIN frames}

\* The shell runs a command at a place, unless it does not get here.  The walk
\* reads it or has no way to.
HappensAt(place, since, flags, read) ==
  IF Live
  THEN /\ ran' = ran \cup {[node |-> nodes + 1, flags |-> Around \cup flags,
                             dir |-> place, course |-> since, read |-> read]}
       /\ status' \in BOOLEAN
  ELSE UNCHANGED <<ran, status>>

Happens(flags, read) == HappensAt(dir, course, flags, read)

\* applyUnwrap of a command that the rules know, with no wrapper or one that
\* sets a flag (chroot, xargs).
Run(flags) ==
  /\ NewNode
  /\ walkers' = Recorded("command", Ctx \cup flags)
  /\ Happens(flags, TRUE)
  /\ UNCHANGED <<frames, dir, course, ended>>

\* The shell runs what the walk has no way to read.
RunsUnseen ==
  /\ NewNode
  /\ Happens({}, FALSE)
  /\ UNCHANGED <<walkers, frames, dir, course, ended>>

\* applyUnwrap of a shell without -c that is not the last stage of a pipeline
\* or stands there behind a wrapper or in braces ("x | bash | y", "x | sudo
\* bash", "bash script", "bash <<END"): it runs what it reads, and the walker
\* returns without a record.
BareShell == RunsUnseen

\* walkStmt has no case for time, coproc, [[ ]] and the other statements of
\* the grammar, and only the words of a simple command are searched for
\* substitutions: one in an assignment, a redirect, the words of a for or the
\* arguments of export runs unseen.
Unvisited == RunsUnseen

\* Variant: the body of a shell is walked in a context of its own.
FreshContext(flags) == flags

\* The context in which the body of a construct is walked.
BodyContext(flags) == Ctx \cup flags

\* walkStmt and reparseAndWalk enter a construct.
Open(kind, flags) ==
  /\ NewNode
  /\ Len(frames) < MaxDepth
  /\ frames' = Append(frames,
       [kind |-> kind, part |-> 1, flags |-> flags, ctx |-> BodyContext(flags),
        live |-> Live, taken |-> FALSE, dir |-> dir, course |-> course, cd |-> FALSE])
  /\ walkers' = IF kind \in Copies
                THEN Append(walkers, [cwd |-> Walker.cwd, executed |-> {}])
                ELSE walkers
  /\ UNCHANGED <<dir, status, course, ran, ended>>

\* scanForNestedExecutions: $(...) and <(...) in the words of a command are
\* walked before the command itself, by the walker at work.
Substitute == "subst" \in Kinds /\ Open("subst", {})

\* Whether the shell gets to the next part of the construct.
NextLive ==
  LET outer == Len(frames) > 1 => frames[Len(frames) - 1].live IN
  /\ outer
  /\ CASE Frame.kind = "and" -> status
       [] Frame.kind = "or"  -> ~status
       [] Frame.kind = "if"  -> IF Frame.part = 1 THEN status ELSE ~Frame.taken
       [] OTHER              -> TRUE

\* What has become of the last cd for the commands after a part that ends.
Across(outside) == IF Frame.kind \in Leaky /\ Frame.cd THEN "crossed" ELSE outside

\* A stage of a pipeline starts where the pipeline did; the walker goes on
\* where it is.
Turn ==
  /\ ~ended
  /\ Inner
  /\ Frame.part < Parts(Frame.kind)
  /\ frames' = [frames EXCEPT ![Len(frames)].part = @ + 1,
                              ![Len(frames)].live = NextLive,
                              ![Len(frames)].taken = NextLive]
  /\ IF Frame.kind = "pipe" THEN dir' = Frame.dir /\ course' = Across(Frame.course)
                            ELSE UNCHANGED <<dir, course>>
  /\ UNCHANGED <<walkers, status, ran, nodes, ended>>

\* Variant: the copy stays at work after its end.
StaysAtWork(list) == list

\* The copy ends and hands its commands to the walker it comes from.
HandedOver(list) ==
  [Front(list) EXCEPT ![Len(list) - 1].executed = @ \cup Last(list).executed]

\* The shell is back where it was, or stays where it is; the walker is back if
\* a copy of it went on.
Left ==
  /\ frames' = Front(frames)
  /\ IF Frame.kind \in Forks THEN dir' = Frame.dir /\ course' = Across(Frame.course)
                            ELSE dir' = dir /\ course' = Across(course)

\* A pipeline has two stages or more.
AtLastPart ==
  IF Frame.kind = "pipe" THEN Frame.part >= 2 ELSE Frame.part = Parts(Frame.kind)

\* The status with which a construct ends; an if without an else may have that
\* of no command.
StatusAfter ==
  CASE Frame.kind = "if"         -> BOOLEAN
    [] Frame.kind = "not"        -> {~status}
    [] Frame.kind = "background" -> {TRUE}
    [] OTHER                     -> {status}

Close ==
  /\ ~ended
  /\ Inner
  /\ AtLastPart
  /\ Left
  /\ walkers' = IF Frame.kind \in Copies THEN HandedOver(walkers) ELSE walkers
  /\ status' \in StatusAfter
  /\ UNCHANGED <<ran, nodes, ended>>

\* walkPipeline: a bare shell as the rightmost stage runs whatever it reads; a
\* command of its own stands for it.  Nested pipelines are one, so a pipeline
\* in a stage stands in braces, and so do the commands of a stage.
CloseIntoShell ==
  /\ NewNode
  /\ Inner
  /\ Frame.kind = "pipe" /\ Frame.part < MaxStages
  /\ Left
  /\ walkers' = Recorded("__shell_pipe_sink__", {})
  /\ HappensAt(Frame.dir, Across(Frame.course), {}, TRUE)
  /\ UNCHANGED ended

\* A body that does not parse; of ssh it is marked as remote.
Unparsed(flags) ==
  /\ NewNode
  /\ walkers' = Recorded("__inline_parse_error__", flags)
  /\ Happens(flags, TRUE)
  /\ UNCHANGED <<frames, dir, course, ended>>

\* ParseCommand returns.
End ==
  /\ ~ended
  /\ ~Inner
  /\ ended' = TRUE
  /\ UNCHANGED <<walkers, frames, dir, status, course, ran, nodes>>

Finished == ended /\ UNCHANGED vars

Next ==
  \/ \E target \in Dirs \cup Words : Cd(target)
  \/ \E word \in Words \cup {Walker.cwd}, place \in Dirs \cup {HookCwd} : CdElsewhere(word, place)
  \/ \E flags \in WrapperFlags : Run(flags)
  \/ BareShell
  \/ Unvisited
  \/ \E kind \in Kinds \ {"subst"} : \E flags \in FlagsOf(kind) : Open(kind, flags)
  \/ Substitute
  \/ Turn
  \/ Close
  \/ CloseIntoShell
  \/ \E flags \in {{}, {"remote"}} : Unparsed(flags)
  \/ End
  \/ Finished

Spec == Init /\ [][Next]_vars

-----------------------------------------------------------------------------
(* Properties.                                                             *)

Seen == UNION {walkers[i].executed : i \in DOMAIN walkers}

\* Of what the shell runs in whatever nest of the constructs of the walk, the
\* walk records exactly this: every simple command, as one that is always asked
\* about or with exactly the flags of the constructs and wrappers around it.
\* What a shell without -c reads is among it at the end of a pipeline only, and
\* statements and substitutions that walkStmt has no case for are not.
ReadRunsRecorded ==
  \A run \in ran :
     run.read <=> \E command \in Seen :
                    /\ command.node = run.node
                    /\ command.name = "command" => command.flags = run.flags

\* Where a lexical directory is: a relative one counts from the hook's.
Place(cwd) ==
  CASE cwd = Empty -> <<HookCwd>>
    [] cwd \in Dirs -> <<cwd>>
    [] OTHER -> Append(<<HookCwd>>, cwd)

\* A command that runs on this host is recorded with the directory in which it
\* runs when the shell has followed the last cd: not after one that has failed
\* (a command behind its || comes after nothing else) or that a condition has
\* skipped, a relative one after another cd, a bare one or one with a variable,
\* nor when the cd stands in a stage of a pipeline, a substitution, the
\* background or an eval.  A cd in a subshell or in the body of another shell
\* does not reach the commands after it.
InItsDirectory ==
  \A run \in ran, command \in Seen :
     (/\ command.node = run.node
      /\ run.course = "followed"
      /\ run.flags \cap {"remote", "chrooted"} = {})
     => run.dir = Place(command.cwd)

=============================================================================
