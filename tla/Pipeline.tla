------------------------------ MODULE Pipeline ------------------------------
(***************************************************************************)
(* The evaluation of a Bash call of which the parser has found the         *)
(* commands: the quick test for a trigger, the argument rules over every   *)
(* command, the aggregation, and the intent shown to the user (main.go,    *)
(* rule.go, decision.go, intent.go).  The words of a command come one at a *)
(* time.  Next to what the code keeps, loss says whether and how a tool of *)
(* the call would destroy something if the call ran.                       *)
(***************************************************************************)
EXTENDS Tools

CONSTANTS
  Words,       \* the words that a command of each name may have
  Spellings,   \* of each name: "plain", or "broken" by quotes or capitals
  MaxWords,    \* bound of the words of a call
  MaxCommands, \* bound of its commands
  NoName       \* between two commands

Names == DOMAIN Words

ASSUME PipelineAssumption == MaxWords \in Nat /\ MaxCommands \in Nat

\* Words are cut as in Argv: behind the name of a long option stands a "=".
ASSUME WordsAssumption ==
  \A tool \in Names : \A word \in Words[tool] :
    word \in Seq(STRING) /\ (Len(word) > 2 /\ Head(word) = "--" => word[3] = "=")

VARIABLES
  name,     \* ExecutedCommand.Name
  args,     \* ExecutedCommand.Args
  visible,  \* a trigger stands in the text of the call as a word
  codes,    \* the reason codes of the decisions so far
  answer,   \* the outcome: level, reason codes, intent
  loss,     \* history: the kinds of destruction the call would do
  words,    \* the number of words so far
  commands  \* the number of commands so far

vars == <<name, args, visible, codes, answer, loss, words, commands>>

Undecided == [level |-> "none", codes |-> <<>>, intent |-> "none"]

TypeOK ==
  /\ name \in Names \cup {NoName}
  /\ Len(args) <= words /\ (name # NoName => ToSet(args) \subseteq Words[name])
  /\ visible \in BOOLEAN /\ loss \subseteq Kinds
  /\ None \notin ToSet(codes) /\ Len(codes) <= commands
  /\ answer.level \in {"none", "allow", "ask"}
  /\ answer.level = "ask" <=> answer.codes # <<>>
  /\ answer.intent \in {"none", "known", "several", "risky"}
  /\ words \in 0..MaxWords /\ commands \in 0..MaxCommands

Init ==
  /\ name = NoName
  /\ args = <<>>
  /\ visible = FALSE
  /\ codes = <<>>
  /\ answer = Undecided
  /\ loss = {}
  /\ words = 0
  /\ commands = 0

\* The words quickReject looks for: the triggers of the rules, and the
\* executors that the parser descends into.
Keywords ==
  Names \cup {"rm", "unlink", "rmdir", "shred"}
    \cup {"sudo", "doas", "env", "command", "builtin", "exec", "time", "nice", "nohup", "ionice",
          "setsid", "timeout", "gtimeout", "chroot", "ssh", "bash", "sh", "zsh", "dash", "fish",
          "ksh", "ash", "busybox", "eval", "xargs", "find", "parallel", "watch", "flock"}

\* The next command of the call.  The text of a name that is broken by quotes
\* or written in capitals does not match the expression of quickReject, while
\* the parser reads the name (flattenWord, basenameLower).
Begin(next, spelling) ==
  /\ answer = Undecided
  /\ name = NoName
  /\ commands < MaxCommands
  /\ name' = next
  /\ args' = <<>>
  /\ visible' = (visible \/ spelling = "plain")
  /\ commands' = commands + 1
  /\ UNCHANGED <<codes, answer, loss, words>>

Word(word) ==
  /\ name # NoName
  /\ words < MaxWords
  /\ args' = Append(args, word)
  /\ words' = words + 1
  /\ visible' = (visible \/ ToSet(word) \cap Keywords # {})
  /\ UNCHANGED <<name, codes, answer, loss, commands>>

\* Variant: every rule gives a decision.
EndAlways ==
  /\ name # NoName
  /\ name' = NoName
  /\ args' = <<>>
  /\ codes' = Append(codes, CodeOf(name, args))
  /\ loss' = loss \cup Loss(name, args)
  /\ UNCHANGED <<visible, answer, words, commands>>

\* registry.evaluate for one command.
End ==
  LET code == CodeOf(name, args) IN
  /\ name # NoName
  /\ name' = NoName
  /\ args' = <<>>
  /\ codes' = IF code = None THEN codes ELSE Append(codes, code)
  /\ loss' = loss \cup Loss(name, args)
  /\ UNCHANGED <<visible, answer, words, commands>>

ParseError == <<"guard", "parse_error_after_trigger">>

\* The keys of exactIntents that the pipeline without the rm rule reaches.
ExactIntents ==
  {ParseError, <<"db_client", "sql_destructive">>, <<"db_client", "redis_destructive">>}
    \cup {<<"git", what>> : what \in
            {"force_push", "push_delete", "reset_hard", "clean_force", "checkout_pathspec",
             "restore_pathspec", "branch_force_delete", "stash_loss", "history_rewrite"}}

\* Variant: an entry is forgotten.
PrefixesButGcs == {<<"supabase">>, <<"paas">>} \cup {<<"infra", "gsutil">>}

PrefixIntents ==
  {<<"supabase">>, <<"paas">>}
    \cup {<<"infra", family>> : family \in
            {"kubectl", "gcloud", "gcs", "helm", "docker", "mongo", "terraform", "gsutil", "opensearch",
             "cloud_api", "graphql", "aws", "azure", "oci", "ibmcloud"}}

\* intentForReasonCode; an intent is known by the key of its table.
Intent(all) ==
  IF all = <<>> THEN "none"
  ELSE IF Len(all) > 1 THEN "several"
  ELSE IF all[1] \in ExactIntents \/ \E key \in PrefixIntents : IsPrefix(key, all[1]) THEN "known"
  ELSE "risky"

\* evaluate: without a trigger in the text nothing is parsed.
Found(parses) ==
  IF ~visible THEN <<>>
  ELSE IF parses THEN codes
  ELSE <<ParseError>>

\* Aggregate and the message: any ask wins.
Answer(parses) ==
  LET found == Found(parses) IN
  /\ answer = Undecided
  /\ name = NoName
  /\ commands > 0
  /\ answer' = [level |-> IF found = <<>> THEN "allow" ELSE "ask", codes |-> found, intent |-> Intent(found)]
  /\ UNCHANGED <<name, args, visible, codes, loss, words, commands>>

Finished == answer # Undecided /\ UNCHANGED vars

Next ==
  \/ \E next \in Names : \E spelling \in Spellings[next] : Begin(next, spelling)
  \/ \E word \in IF name = NoName THEN {} ELSE Words[name] : Word(word)
  \/ End
  \/ \E parses \in BOOLEAN : Answer(parses)
  \/ Finished

Spec == Init /\ [][Next]_vars

-----------------------------------------------------------------------------
(* Properties.                                                             *)

\* The comments of the rules (rule_git.go:5, rule_infra.go:9, rule_db.go:10,
\* rule_paas.go:5, rule_supabase.go:8) list what is asked about: no call is
\* allowed in which a tool that is told in the plain form destroys something
\* of the list, as the tool reads its own options, values and operands, in
\* whatever command of the call.  Of the other forms of Kinds nothing is
\* claimed, and the code allows some calls of each (rule_infra.go:255,
\* rule_infra.go:287, rule_db.go:79, rule_supabase.go:57); nor of a call
\* without a trigger as a word in its text (main.go:340).
LossIsAsked == "plain" \in loss /\ visible => answer.level # "allow"

\* Once the words of a command are asked about, more words do not withdraw
\* it, but for those that the rules name as harmless.
Harmless(word) ==
  \/ word \in {Long("help"), Short("h"), Long("version"), Long("analyze"), Long("source"),
              Short("s"), Long("staged"), Long("cached")}
  \/ IsPrefix(<<"--", "source", "=">>, word)

AskPersists ==
  [][name # NoName /\ name' = name /\ args' # args /\ ~Harmless(Last(args'))
       /\ CodeOf(name, args) # None
     => CodeOf(name', args') # None]_vars

\* intent.go: every question names its intent: a code of a rule never falls
\* through the tables to the words for an unknown one.
IntentKnown == answer.level = "ask" => answer.intent \in {"known", "several"}

=============================================================================
