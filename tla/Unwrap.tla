------------------------------- MODULE Unwrap -------------------------------
(***************************************************************************)
(* How the parser finds the command behind its wrappers: the loop of       *)
(* applyUnwrap (parser.go) with stripExecutorPrefix, extractSSHRemoteBody, *)
(* extractDashCBody, handleXargs and handleFind (unwrap.go).               *)
(*                                                                         *)
(* A behaviour writes a command word by word in the grammar of the tools   *)
(* that will read it, so that the variables of the reader say what really  *)
(* runs; then the loop takes it apart, a layer per step.  A word is a      *)
(* sequence of pieces as in Argv; a path ends with its base name.          *)
(***************************************************************************)
EXTENDS Argv, FiniteSets

CONSTANTS
  Wrappers,  \* tools that run what follows
  Shells,    \* isShellEvaluator
  Others,    \* commands that are no wrapper
  Takers,    \* wrappers with an operand of their own: timeout, chroot, ssh
  Blind,     \* wrappers of parserDescentKeywords without a handler
  Plain,     \* of each tool: options that stand alone
  Valued,    \*   options whose value is the next word, as the code has them
  Unlisted,  \*   such options that the code does not have
  Glued,     \*   options with their value in the same word
  Programs,  \* the words that name a tool
  Values,    \* values, durations, hosts, directories
  Args,      \* arguments of a command
  Roots,     \* directories that find searches
  Scripts,   \* from the words that are scripts to the commands in them
  Broken,    \* words that are scripts and do not parse
  MaxWords,  \* bound of the words
  None       \* nothing runs

VARIABLES
  argv,      \* the command written so far
  reader,    \* which tool reads the next word, and how
  real,      \* what runs in the end
  odd,       \* history: forms that the code does not know
  rest,      \* argv in the loop
  context,   \* walkContext
  executed,  \* what applyUnwrap records
  phase      \* "write", "strip", "done"

vars == <<argv, reader, real, odd, rest, context, executed, phase>>

Flags == {"stdin", "chrooted", "remote", "eval"}
Odds == {"unlisted", "assigned", "bundle", "front", "blind", "split", "refused"}
Tools == Wrappers \cup Shells \cup Others \cup {"find", "start"}

Base(word) == IF word = <<>> THEN "" ELSE Last(word)

OptionsOf(tool) ==
  IF tool \in Wrappers \cup Shells
  THEN Plain[tool] \cup Valued[tool] \cup Glued[tool] \cup Unlisted[tool] ELSE {}

\* The words that find has beside its directories.
Expression == {Short("H"), Short("L"), Short("print"), Short("delete"), Short("exec"), <<"/bin/", "rm">>}

Words ==
  (UNION {OptionsOf(tool) : tool \in Wrappers \cup Shells}) \cup Programs \cup Values \cup Args
    \cup Roots \cup (DOMAIN Scripts) \cup Broken \cup Expression
    \cup {<<"--">>, <<"A", "=", "b">>, <<"-", "rf">>, <<".">>}

Unparsed == "__inline_parse_error__"

Commands ==
  [name : {Base(word) : word \in Words} \cup {Unparsed}, args : Seq(Words), flags : SUBSET Flags]

Bodies == {Scripts[word] : word \in DOMAIN Scripts}

Readers ==
  [tool : Tools, flags : SUBSET Flags, open : BOOLEAN, value : BOOLEAN,
   operands : {0, 1}, script : BOOLEAN, roots : Seq(Roots)]

TypeOK ==
  /\ argv \in Seq(Words) /\ Len(argv) <= MaxWords
  /\ reader \in Readers
  /\ real \in Commands \cup {None}
  /\ odd \subseteq Odds
  /\ rest \in Seq(Words)
  /\ context \subseteq Flags
  /\ executed \in Seq(Commands) /\ Len(executed) <= 1
  /\ executed # <<>> => phase = "done"
  /\ phase \in {"write", "strip", "done"}

Reading(tool, flags) ==
  [tool |-> tool, flags |-> flags, open |-> TRUE, value |-> FALSE,
   operands |-> IF tool \in Takers THEN 1 ELSE 0, script |-> FALSE, roots |-> <<>>]

Init ==
  /\ argv = <<>>
  /\ reader = Reading("start", {})
  /\ real = None
  /\ odd = {}
  /\ rest = <<>>
  /\ context = {}
  /\ executed = <<>>
  /\ phase = "write"

-----------------------------------------------------------------------------
(* What the tools read.                                                    *)

FlagOf(tool) ==
  CASE tool = "xargs" -> {"stdin"}
    [] tool = "chroot" -> {"chrooted"}
    [] tool = "ssh" -> {"remote"}
    [] tool \in Shells \cup {"eval"} -> {"eval"}
    [] OTHER -> {}

Write(word) ==
  /\ phase = "write"
  /\ Len(argv) < MaxWords
  /\ argv' = Append(argv, word)
  /\ UNCHANGED <<rest, context, executed, phase>>

OptionsOpen == reader.tool \in Wrappers \cup Shells /\ reader.open /\ ~reader.value

\* -c=script, which no shell takes.
Equated(word) == IsPrefix(<<"-", "c", "=">>, word)

\* An option, and whether its value follows.
Option(word) ==
  /\ OptionsOpen
  /\ ~(reader.tool \in Shells /\ Equated(word))
  /\ Write(word)
  /\ reader' = [reader EXCEPT
                  !.value = word \in Valued[reader.tool] \cup Unlisted[reader.tool],
                  !.script = @ \/ (reader.tool \in Shells /\ Bundled(word, "c"))]
  /\ odd' = odd \cup {form \in {"unlisted", "bundle"} :
                    \/ form = "unlisted" /\ word \in Unlisted[reader.tool]
                    \/ form = "bundle" /\ reader.script
                    \/ form = "bundle" /\ reader.tool \in Shells /\ Bundled(word, "c") /\ word # Short("c")}
  /\ UNCHANGED real

\* env -S awaits a script.
Splitting == reader.tool = "env" /\ reader.value /\ Last(argv) = Short("S")

Value(word) ==
  /\ reader.value /\ ~Splitting
  /\ word \in Values
  /\ Write(word)
  /\ reader' = [reader EXCEPT !.value = FALSE]
  /\ UNCHANGED <<real, odd>>

\* "--"; the code takes one behind a shell or eval for the script.
Terminator ==
  /\ OptionsOpen
  /\ reader.tool \notin Shells \cup {"eval"}
  /\ Write(<<"--">>)
  /\ reader' = [reader EXCEPT !.open = FALSE]
  /\ UNCHANGED <<real, odd>>

\* NAME=value of env, also behind "--", and of sudo.
Assignment ==
  /\ reader.tool \in {"env", "sudo"} /\ ~reader.value
  /\ Write(<<"A", "=", "b">>)
  /\ reader' = [reader EXCEPT !.open = FALSE]
  /\ odd' = IF reader.tool = "sudo" \/ Last(argv) = <<"--">> THEN odd \cup {"assigned"} ELSE odd
  /\ UNCHANGED real

\* The duration of timeout, the host of ssh, the directory of chroot.
Own(word) ==
  /\ reader.operands > 0 /\ ~reader.value
  /\ word \in Values
  /\ Write(word)
  /\ reader' = [reader EXCEPT !.operands = 0, !.open = FALSE]
  /\ UNCHANGED <<real, odd>>

\* The name of the next program; a command that is no wrapper is what runs.
Program(word) ==
  LET tool == Base(word)
      flags == reader.flags \cup FlagOf(tool) IN
  /\ reader.tool \in Wrappers \cup {"start"}
  /\ reader.operands = 0 /\ ~reader.value
  /\ tool \in Tools
  /\ Write(word)
  /\ reader' = Reading(tool, flags)
  /\ real' = IF tool \in Others THEN [name |-> tool, args |-> <<>>, flags |-> flags] ELSE real
  /\ odd' = IF tool \in Blind THEN odd \cup {"blind"} ELSE odd

Argument(word) ==
  /\ reader.tool \in Others
  /\ word \in Args
  /\ Write(word)
  /\ real' = [real EXCEPT !.args = Append(@, word)]
  /\ UNCHANGED <<reader, odd>>

\* The script of a shell with -c, wherever in a bundle; it is the last word.
Script(word) ==
  /\ reader.tool \in Shells /\ reader.script /\ ~reader.value /\ real = None
  /\ word \in DOMAIN Scripts
  /\ Write(word)
  /\ real' = [name |-> Base(Head(Scripts[word])), args |-> Tail(Scripts[word]), flags |-> reader.flags]
  /\ UNCHANGED <<reader, odd>>

\* env -S runs the words of the script, and those that follow are more of them.
Split(word) ==
  LET body == Scripts[word]
      tool == Base(Head(body)) IN
  /\ Splitting
  /\ word \in DOMAIN Scripts
  /\ Write(word)
  /\ reader' = Reading(tool, reader.flags)
  /\ real' = [name |-> tool, args |-> Tail(body), flags |-> reader.flags]
  /\ odd' = odd \cup {"split"}

\* A shell runs nothing of a script that does not parse, nor behind -c=.
Refused(word) ==
  /\ reader.tool \in Shells /\ ~reader.value /\ real = None
  /\ (reader.open /\ Equated(word)) \/ (reader.script /\ word \in Broken)
  /\ Write(word)
  /\ reader' = [reader EXCEPT !.open = FALSE, !.script = FALSE]
  /\ odd' = odd \cup {"refused"}
  /\ UNCHANGED real

\* What find removes, as rm would be told to.
AsRm(roots) ==
  [name |-> "rm", args |-> <<<<"-", "rf">>, <<"--">>>> \o (IF roots = <<>> THEN <<<<".">>>> ELSE roots),
   flags |-> reader.flags]

\* find: -H, -L or -P, directories, then an expression.
Search(word) ==
  /\ reader.tool = "find"
  /\ Write(word)
  /\ \/ /\ word \in {Short("H"), Short("L")} /\ reader.roots = <<>> /\ reader.open
        /\ odd' = odd \cup {"front"}
        /\ UNCHANGED <<reader, real>>
     \/ /\ word \in Roots /\ reader.open
        /\ reader' = [reader EXCEPT !.roots = Append(@, word)]
        /\ UNCHANGED <<real, odd>>
     \/ /\ word = Short("print")
        /\ reader' = [reader EXCEPT !.open = FALSE]
        /\ UNCHANGED <<real, odd>>
     \/ /\ word = Short("delete")
        /\ reader' = [reader EXCEPT !.open = FALSE]
        /\ real' = AsRm(reader.roots)
        /\ UNCHANGED odd
     \/ /\ word = Short("exec") /\ Len(argv) + 1 < MaxWords
        /\ reader' = [reader EXCEPT !.open = FALSE]
        /\ UNCHANGED <<real, odd>>
     \/ /\ word = <<"/bin/", "rm">> /\ Last(argv) = Short("exec")
        /\ real' = AsRm(reader.roots)
        /\ UNCHANGED <<reader, odd>>

-----------------------------------------------------------------------------
(* The loop of applyUnwrap.                                                *)

Begin ==
  /\ phase = "write"
  /\ argv # <<>>
  /\ phase' = "strip"
  /\ rest' = argv
  /\ UNCHANGED <<argv, reader, real, odd, context, executed>>

\* The options of a wrapper that take the next word.
WithValue(base) ==
  IF base \in {"sudo", "env", "exec", "ssh", "xargs"} THEN Valued[base] ELSE {}

\* Whether the wrapper skips a word before the command: any dash word, or the
\* ones that it knows and assignments.
Skips(base, word) ==
  CASE base = "env" -> word \in Plain[base] \cup Glued[base] \/ (Len(word) > 1 /\ word[2] = "=")
    [] base \in {"command", "exec"} -> word \in Plain[base]
    [] base = "ssh" -> Dashed(word) /\ Len(word) > 1
    [] OTHER -> Dashed(word)

\* Variant: an option leaves its value where it is.
PastAlone(base, at, word) ==
  IF ~at.stop /\ (word = <<"--">> \/ word \in WithValue(base) \/ Skips(base, word))
  THEN [at EXCEPT !.count = @ + 1] ELSE [at EXCEPT !.stop = TRUE]

\* What the wrapper makes of one more word: skipped, awaiting a value, stopped.
Past(base, at, word) ==
  IF at.stop THEN at
  ELSE IF at.value THEN [at EXCEPT !.count = @ + 1, !.value = FALSE]
  ELSE IF word = <<"--">> THEN [at EXCEPT !.count = @ + 1, !.stop = base # "xargs"]
  ELSE IF word \in WithValue(base) THEN [at EXCEPT !.count = @ + 1, !.value = TRUE]
  ELSE IF Skips(base, word) THEN [at EXCEPT !.count = @ + 1]
  ELSE [at EXCEPT !.stop = TRUE]

\* The scan of the words behind a wrapper; count is where its operands begin.
Scan(base, words) ==
  LET at[i \in 0..Len(words)] ==
        IF i = 0 THEN [count |-> 0, value |-> FALSE, stop |-> FALSE]
        ELSE Past(base, at[i - 1], words[i])
  IN at[Len(words)]

\* Words up to the inner command: the wrapper, its options, its operand.
Layer(words) ==
  LET base == Base(Head(words)) IN
  1 + Scan(base, Tail(words)).count + (IF base \in Takers THEN 1 ELSE 0)

\* Variant: xargs hands its own words on.
LayerOrNone(words) == IF Base(Head(words)) = "xargs" THEN 0 ELSE Layer(words)

LayerOf(words) == IF Base(Head(words)) = "eval" THEN 1 ELSE Layer(words)

Handled == Wrappers \ Blind

\* stripEnv gives up when its scan stops at -S.
SplitsAt(words) ==
  LET n == Layer(words) IN
  /\ Base(Head(words)) = "env" /\ n < Len(words)
  /\ words[n] # <<"--">> /\ IsPrefix(Short("S"), words[n + 1])

\* Where extractDashCBody finds -c=script before -c.
EqualsAt(args) ==
  {i \in 1..Len(args) :
     Equated(args[i]) /\ \A j \in 1..(i - 1) : args[j] # Short("c") /\ ~Equated(args[j])}

-----------------------------------------------------------------------------
(* What the tables of a shell's world have in common with those of the code. *)

\* A name belongs to one kind of tool.
ASSUME ToolsAssumption ==
  /\ {"sudo", "env", "xargs", "chroot", "ssh", "eval"} \subseteq Wrappers
  /\ Wrappers \cap (Shells \cup Others \cup {"find", "start"}) = {}
  /\ Shells \cap (Others \cup {"find", "start"}) = {}
  /\ Others \cap {"find", "start"} = {}
  /\ Takers \subseteq Wrappers /\ Blind \subseteq Wrappers
  /\ {"env", "eval"} \cap Takers = {} /\ OptionsOf("eval") = {}
  /\ MaxWords \in Nat

\* The code knows the options that are not unlisted: those in Valued take the
\* next word, the others are skipped.
ASSUME OptionsAssumption ==
  /\ \A tool \in Handled \ {"eval"} : \A word \in OptionsOf(tool) \ Unlisted[tool] :
       /\ word # <<"--">>
       /\ word \in WithValue(tool) \/ (word \notin Valued[tool] /\ Skips(tool, word))
  /\ <<"A", "=", "b">> \notin Valued["env"]

\* The name of a program and the operand of a wrapper look like no option and
\* no assignment.
ASSUME OperandsAssumption ==
  /\ \A word \in Programs \cup Values :
       /\ ~Dashed(word)
       /\ \A tool \in Handled : word \notin WithValue(tool) /\ ~Skips(tool, word)
  /\ \A word \in Programs : Base(word) # "start"

\* -c of a shell stands alone; directories look like no option; a script is
\* the text of a command that is no wrapper, unless it does not parse.
ASSUME BodiesAssumption ==
  /\ \A shell \in Shells : Short("c") \notin Valued[shell] \cup Unlisted[shell]
  /\ \A word \in Roots : ~Dashed(word)
  /\ \A body \in Bodies : body \in Seq(Words) /\ body # <<>> /\ Base(Head(body)) \in Others
  /\ Broken \cap DOMAIN Scripts = {}
  /\ \A word \in Words : Equated(word) => SubSeq(word, 4, Len(word)) \in (DOMAIN Scripts) \cup Broken

ASSUME NoneAssumption == None \notin Commands

-----------------------------------------------------------------------------
(* The turns of the loop.                                                  *)

\* What the code notes of the wrapper that it takes off.
ContextOf(base) ==
  CASE base = "ssh" -> {"remote"}
    [] base = "eval" -> {"eval"}
    [] base = "chroot" -> {"chrooted"}
    [] base = "xargs" -> {"stdin"}
    [] OTHER -> {}

\* One layer goes: stripExecutorPrefix, xargs, or ssh or eval, whose words
\* are parsed again.
Strip ==
  LET base == Base(Head(rest)) IN
  /\ phase = "strip" /\ rest # <<>>
  /\ base \in Handled /\ LayerOf(rest) < Len(rest) /\ ~SplitsAt(rest)
  /\ rest' = SubSeq(rest, LayerOf(rest) + 1, Len(rest))
  /\ context' = context \cup ContextOf(base)
  /\ UNCHANGED <<argv, reader, real, odd, executed, phase>>

\* Variant: the loop goes on behind the command that it records.
RecordOn(command) ==
  /\ executed' = IF command = None THEN <<>> ELSE <<command>>
  /\ UNCHANGED <<argv, reader, real, odd, rest, context, phase>>

Record(command) ==
  /\ executed' = IF command = None THEN <<>> ELSE <<command>>
  /\ phase' = "done"
  /\ UNCHANGED <<argv, reader, real, odd, rest, context>>

\* A wrapper with nothing behind it: ssh, xargs and eval record nothing, the
\* others are taken for the command.
Bare ==
  LET base == Base(Head(rest)) IN
  /\ phase = "strip" /\ rest # <<>>
  /\ base \in Handled /\ LayerOf(rest) >= Len(rest)
  /\ Record(IF base \in {"ssh", "xargs", "eval"} THEN None
            ELSE [name |-> base, args |-> Tail(rest), flags |-> context])

\* env -S is taken for the command.
EnvSplit ==
  /\ phase = "strip" /\ rest # <<>>
  /\ SplitsAt(rest)
  /\ Record([name |-> "env", args |-> Tail(rest), flags |-> context])

\* The text of a script is parsed again; the record of one that does not
\* parse has nothing of what is around it.
Enter(text) ==
  IF text \in Broken
  THEN Record([name |-> Unparsed, args |-> <<text>>, flags |-> {"eval"}])
  ELSE /\ rest' = IF text \in DOMAIN Scripts THEN Scripts[text] ELSE <<text>>
       /\ context' = context \cup {"eval"}
       /\ UNCHANGED <<argv, reader, real, odd, executed, phase>>

\* A shell: the word after the first -c is the script, whatever it is.
Shell ==
  LET at == SelectInSeq(Front(rest), LAMBDA word : word = Short("c")) IN
  /\ phase = "strip" /\ rest # <<>>
  /\ Base(Head(rest)) \in Shells /\ EqualsAt(Tail(rest)) = {}
  /\ IF at = 0 THEN Record(None) ELSE Enter(rest[at + 1])

\* -c=script.
ShellEquals ==
  /\ phase = "strip" /\ rest # <<>>
  /\ Base(Head(rest)) \in Shells
  /\ \E i \in EqualsAt(Tail(rest)) : Enter(SubSeq(rest[i + 1], 4, Len(rest[i + 1])))

\* handleFind: the words before the first dash word are the directories.
Find ==
  LET words == Tail(rest)
      dash == SelectInSeq(words, Dashed)
      roots == SubSeq(words, 1, dash - 1)
      executes == \E i \in 1..(Len(words) - 1) :
                    words[i] = Short("exec") /\ Base(words[i + 1]) \in {"rm", "unlink", "rmdir", "shred"} IN
  /\ phase = "strip" /\ rest # <<>>
  /\ Base(Head(rest)) = "find"
  /\ Record(IF dash # 0 /\ (HasArg(words, {Short("delete")}) \/ executes)
            THEN [name |-> "rm", flags |-> context,
                  args |-> <<<<"-", "rf">>, <<"--">>>> \o (IF roots = <<>> THEN <<<<".">>>> ELSE roots)]
            ELSE None)

\* The actual command.
Actual ==
  /\ phase = "strip" /\ rest # <<>>
  /\ Base(Head(rest)) \notin Handled \cup Shells \cup {"find"}
  /\ Record([name |-> Base(Head(rest)), args |-> Tail(rest), flags |-> context])

Finished == phase = "done" /\ UNCHANGED vars

Next ==
  \/ \E word \in OptionsOf(reader.tool) : Option(word)
  \/ \E word \in Values : Value(word)
  \/ \E word \in Values : Own(word)
  \/ Terminator
  \/ Assignment
  \/ \E word \in Programs : Program(word)
  \/ \E word \in Args : Argument(word)
  \/ \E word \in DOMAIN Scripts : Script(word) \/ Split(word)
  \/ \E word \in OptionsOf(reader.tool) \cup Broken : Refused(word)
  \/ \E word \in Roots \cup Expression : Search(word)
  \/ Begin \/ Strip \/ Bare \/ EnvSplit \/ Shell \/ ShellEquals \/ Find \/ Actual
  \/ Finished

Spec == Init /\ [][Next]_vars

-----------------------------------------------------------------------------
(* Properties.                                                             *)

Recorded == executed = IF real = None THEN <<>> ELSE <<real>>

\* unwrap.go:5: behind any nesting of wrappers, with the options the code
\* knows, the command recorded is the one that runs, with its arguments and
\* with exactly the flags of what is around it.  Behind a form of Odds the
\* code may record something else, and env -S hides the command that it runs.
InnerIsRecorded == phase = "done" /\ odd = {} /\ real # None => Recorded

\* applyUnwrap: the loop comes to an end, because every turn makes the
\* command shorter or enters a script from outside.
LoopShrinks ==
  [][phase = "strip" =>
       \/ phase' = "done"
       \/ Len(rest') < Len(rest)
       \/ rest \notin Bodies /\ rest' \in Bodies]_vars

=============================================================================
