-------------------------------- MODULE Argv --------------------------------
(***************************************************************************)
(* Words of a command and the helpers by which bash-guard reads them       *)
(* (rule_infra.go, rule_git.go, rule_supabase.go).                         *)
(*                                                                         *)
(* A word is cut into pieces where the code cuts or compares it:           *)
(*   push              <<"push">>             the empty word  <<>>         *)
(*   --force           <<"--", "force">>      --              <<"--">>     *)
(*   --command=rm      <<"--", "command", "=", "rm">>                      *)
(*   -fd               <<"-", "f", "d">>      -cDROP  <<"-", "c", "DROP">> *)
(*   +main, :main      <<"+", "main">>, <<":", "main">>                    *)
(*   apps:destroy      <<"apps", ":destroy">>                              *)
(* so that a test for a prefix or a suffix of a word is one of pieces.     *)
(***************************************************************************)
EXTENDS Naturals, Sequences, SequencesExt

Long(name) == <<"--", name>>
Short(letter) == <<"-", letter>>

\* strings.HasPrefix(a, "-")
Dashed(word) == IsPrefix(<<"-">>, word) \/ IsPrefix(<<"--">>, word)

FirstNonFlag(args) ==
  LET i == SelectInSeq(args, LAMBDA word : ~Dashed(word)) IN
  IF i = 0 THEN <<>> ELSE args[i]

HasArg(args, candidates) == ToSet(args) \cap candidates # {}

HasArgPrefix(args, prefix) == \E word \in ToSet(args) : IsPrefix(prefix, word)

\* seq, for two words: in this order, with others in between or not.
InOrder(args, first, second) ==
  \E i, j \in DOMAIN args : i < j /\ args[i] = first /\ args[j] = second

\* args[indexOf(args, target)+1:]
After(args, target) ==
  SubSeq(args, SelectInSeq(args, LAMBDA word : word = target) + 1, Len(args))

\* Variant: only the flag by itself.
Alone(word, letter) == word = Short(letter)

\* isShortFlagBundleContaining
Bundled(word, letter) ==
  Len(word) > 1 /\ Head(word) = "-" /\ letter \in ToSet(Tail(word))

\* The value that the word at i gives to an option: the next word, what is
\* glued to -o, or what follows --option=.  None if it gives none.
ValueAt(args, i, option) ==
  LET lead == IF Head(option) = "--" THEN Append(option, "=") ELSE option IN
  IF args[i] = option
  THEN IF i < Len(args) THEN {args[i + 1]} ELSE {}
  ELSE IF IsPrefix(lead, args[i])
  THEN {SubSeq(args[i], Len(lead) + 1, Len(args[i]))}
  ELSE {}

ValuesAt(args, i, options) == UNION {ValueAt(args, i, option) : option \in options}

\* Variant: the last value counts.
LastValue(args, options) ==
  LET given == {i \in DOMAIN args : ValuesAt(args, i, options) # {}} IN
  IF given = {} THEN <<>>
  ELSE CHOOSE value \in ValuesAt(args, CHOOSE i \in given : \A j \in given : j <= i, options) : TRUE

\* extractSQLBody, curlMethod and hasRemoteCommandMutation: the first word
\* that gives one of the options a value decides.
FirstValue(args, options) ==
  LET given == {i \in DOMAIN args : ValuesAt(args, i, options) # {}} IN
  IF given = {} THEN <<>>
  ELSE CHOOSE value \in ValuesAt(args, CHOOSE i \in given : \A j \in given : i <= j, options) : TRUE

=============================================================================
