------------------------------- MODULE Tools -------------------------------
(***************************************************************************)
(* What the tools of the argument rules do with their arguments: options   *)
(* first take their values, "--" ends the options, and what is left are    *)
(* the operands, of which the first is the verb.  This is not code of the  *)
(* repository; the rules are compared with it.  A tool destroys here what  *)
(* the comments of its rule list as destructive.                           *)
(***************************************************************************)
EXTENDS ArgRules, FiniteSets

CONSTANT TakesValue   \* the options of each tool whose value is the next word

Mutating == {"POST", "PUT", "PATCH", "DELETE"}

\* The verbs of the tables are no options, state has verbs of its own, and upper
\* case stays as it is.
ASSUME TablesAssumption ==
  /\ \A tool \in {"kubectl", "helm", "docker", "terraform"} : \A verb \in Verbs[tool] : ~Dashed(verb)
  /\ \A verb \in CopyVerbs : ~Dashed(verb)
  /\ <<"state">> \notin Verbs["terraform"]
  /\ Mutating \cap DOMAIN CaseFold = {}

Fresh ==
  [options |-> {}, values |-> <<>>, wants |-> {}, literal |-> FALSE, operands |-> <<>>, paths |-> {}]

\* A bundle ends at the first letter that takes a value: behind it stands the
\* value, or the next word is it.
LastLetter(word, takers) ==
  Min({i \in 2..Len(word) : i = Len(word) \/ Short(word[i]) \in takers})

\* The option that an option word leaves without its value.
Awaited(word, takers) ==
  IF Head(word) = "--" THEN {word} \cap takers
  ELSE IF LastLetter(word, takers) = Len(word) THEN {Short(word[Len(word)])} \cap takers
  ELSE {}

\* The value that it gives an option itself.
Glued(word, takers) ==
  IF Head(word) = "--" THEN [option |-> SubSeq(word, 1, 2), value |-> SubSeq(word, 4, Len(word))]
  ELSE LET last == LastLetter(word, takers) IN
       [option |-> Short(word[last]), value |-> SubSeq(word, last + 1, Len(word))]

OptionWord(word) == Dashed(word) /\ Len(word) > 1

\* One word read by getopt.  A value counts with the option it is given to.
\* No option of git behind its verb is taken to have one.
ReadWord(name, read, word) ==
  LET takers == IF name = "git" /\ read.operands # <<>> THEN {} ELSE TakesValue[name] IN
  IF read.wants # {}
  THEN [read EXCEPT !.wants = {}, !.values = Append(@, [option |-> CHOOSE o \in read.wants : TRUE, value |-> word])]
  ELSE IF ~read.literal /\ word = <<"--">> THEN [read EXCEPT !.literal = TRUE]
  ELSE IF ~read.literal /\ OptionWord(word)
  THEN [read EXCEPT
          !.options = @ \cup IF Head(word) = "--" THEN {word}
                            ELSE {Short(word[i]) : i \in 2..LastLetter(word, takers)},
          !.wants = Awaited(word, takers),
          !.values = Append(@, Glued(word, takers))]
  ELSE [read EXCEPT !.operands = Append(@, word),
                    !.paths = IF read.literal THEN @ \cup {word} ELSE @]

Read(name, args) ==
  LET read[i \in 0..Len(args)] == IF i = 0 THEN Fresh ELSE ReadWord(name, read[i - 1], args[i])
  IN read[Len(args)]

\* The places at which values are given to some options.
Given(read, options) ==
  {i \in DOMAIN read.values : read.values[i].option \in options /\ read.values[i].value # <<>>}

\* The options whose value says what the tool does.
Deciding(name) ==
  CASE name = "psql" -> {Short("c"), Long("command")}
    [] name = "mysql" -> {Short("e"), Long("execute")}
    [] name = "gcloud" -> {Long("command")}
    [] name = "curl" -> {Short("X"), Long("request")}
    [] OTHER -> {}

\* The options of curl that send something.
Sending == {Short("d"), Long("data"), Short("F"), Long("form"), Short("T"), Long("upload-file"), Long("json")}

Method(read) ==
  LET given == Given(read, Deciding("curl")) IN
  IF given # {} THEN read.values[Max(given)].value
  ELSE IF read.options \cap Sending # {} THEN <<"POST">>
  ELSE <<"GET">>

Operand(read, i) == IF i <= Len(read.operands) THEN read.operands[i] ELSE <<>>

GitDestroys(read) ==
  LET verb == Operand(read, 1)
      rest == {Operand(read, i) : i \in 2..Len(read.operands)} IN
  /\ verb \notin read.paths   \* git refuses "--" before the verb
  /\ \A path \in read.paths : ~Dashed(path)   \* the code takes such a path for an option
  /\ \/ /\ verb = <<"push">>
        /\ \/ read.options \cap {Long("force"), Short("f"), Long("force-with-lease"), Long("delete"), Short("d")} # {}
           \/ \E option \in read.options : IsPrefix(<<"--", "force-with-lease", "=">>, option)
           \/ \E word \in rest : Len(word) > 1 /\ Head(word) \in {"+", ":"}
     \/ verb = <<"reset">> /\ Long("hard") \in read.options
     \/ verb = <<"clean">> /\ read.options \cap {Long("force"), Short("f")} # {}
     \/ verb = <<"checkout">> /\ (<<".">> \in rest \/ read.paths # {})
     \/ verb = <<"restore">> /\ <<".">> \in rest
          /\ read.options \cap {Long("source"), Short("s"), Long("staged"), Long("cached")} = {}
          /\ ~\E option \in read.options : IsPrefix(<<"--", "source", "=">>, option)
     \/ verb = <<"branch">> /\ (Short("D") \in read.options \/ {Long("delete"), Long("force")} \subseteq read.options)
     \/ verb = <<"stash">> /\ Operand(read, 2) \in {<<"drop">>, <<"clear">>}
     \/ verb = <<"filter-branch">>
     \/ verb = <<"filter-repo">> /\ Long("analyze") \notin read.options

\* The tools with a list of verbs: the verb, or a word of the noun-verb ones.
VerbFirst == {"kubectl", "helm", "docker", "terraform"}
VerbAnywhere == DOMAIN MigrationCode \cup {"gcloud", "az", "oci", "ibmcloud"}

CurlDestroys(read) ==
  /\ Method(read) \in {<<method>> : method \in Mutating}
  /\ \/ Mentions(read.operands, CloudHosts \cup SearchHosts)
     \/ /\ Mentions(read.operands, {"graphql"})
        /\ \E i \in Given(read, Sending) : "{mutation" \in ToSet(read.values[i].value)

Destroys(name, args) ==
  LET read == Read(name, args)
      words == ToSet(read.operands)
      pair == <<Operand(read, 1), Operand(read, 2)>> IN
  \/ name = "git" /\ GitDestroys(read)
  \/ name \in VerbFirst /\ pair[1] \in Verbs[name]
  \/ name = "docker" /\ pair = <<<<"system">>, <<"prune">>>>
  \/ name = "terraform" /\ pair = <<<<"state">>, <<"rm">>>>
  \/ name = "gsutil" /\ pair[1] \in CopyVerbs
  \/ name \in VerbAnywhere /\ words \cap Verbs[name] # {}
  \/ name = "gcloud" /\ pair[1] = <<"storage">> /\ pair[2] \in CopyVerbs
  \/ name = "gcloud" /\ pair = <<<<"compute">>, <<"ssh">>>>
       /\ \E i \in Given(read, Deciding(name)) : ToSet(read.values[i].value) \cap Mutators # {}
  \/ name = "curl" /\ CurlDestroys(read)
  \/ name = "aws" /\ ((\E word \in words : word # <<>> /\ Head(word) \in AwsPrefixes) \/ pair = <<<<"s3">>, <<"rm">>>>)
  \/ name \in PaasClis /\ \E word \in words :
       ~Dashed(word) /\ word # <<>> /\ (word \in PaasVerbs \/ Last(word) \in PaasSuffixes)
  \/ name \in {"psql", "mysql"}
       /\ \E i \in Given(read, Deciding(name)) : ToSet(read.values[i].value) \cap SqlBodies # {}
  \/ name = "redis-cli" /\ \E word \in words : Len(word) = 1 /\ <<Upper(Head(word))>> \in Verbs[name]
  \/ name = "supabase" /\ pair = <<<<"db">>, <<"push">>>>
  \/ name = "supabase" /\ pair = <<<<"db">>, <<"reset">>>> /\ Long("linked") \in read.options
  \* An option between the two words takes the second for its value (cobra).
  \/ name = "supabase" /\ IsPrefix(<<<<"migration">>, <<"repair">>>>, args)
  \/ name = "supabase" /\ \E option \in read.options : IsPrefix(Long("db-url"), option)
  \/ name = "python" /\ pair[1] # <<>> /\ Last(pair[1]) = "manage.py" /\ pair[2] = <<"migrate">>
  \/ name = "prisma" /\ pair = <<<<"migrate">>, <<"deploy">>>>
  \/ name = "knex" /\ \E word \in words : word # <<>> /\ Head(word) = "migrate:"

\* The ways in which a tool comes to destroy something.  The rules do not
\* claim to read them all alike, and read only the last:
\*   behind_value   the verb stands behind an option that awaits a value
\*                  (kubectl -n ns delete)
\*   behind_option  the script behind an option (python -u manage.py migrate)
\*   in_bundle      the value that decides is given by a letter behind another
\*                  (psql -Atc SQL, curl -sX DELETE URL)
\*   repeated       it is given more than once (psql -c SQL -c SQL)
\*   misread        it is given once, but the rule finds a second one
\*                  (psql -e -c SQL)
\*   implied        no method is given, but data (curl -d DATA URL)
\*   plain          none of these
Kinds == {"behind_value", "behind_option", "in_bundle", "repeated", "misread", "implied", "plain"}

\* The options that the rules take for the ones that decide.
Looked(name) == IF name \in {"psql", "mysql"} THEN SqlOptions ELSE Deciding(name)

Kind(name, args) ==
  LET read == Read(name, args)
      verb == Operand(read, 1)
      \* Of "terraform state", the word behind state.
      sought == IF name = "terraform" /\ verb = <<"state">> THEN Operand(read, 2) ELSE verb
      takers == TakesValue[name]
      behind_value ==
        \E i \in DOMAIN args : /\ OptionWord(args[i]) /\ Awaited(args[i], takers) # {}
                              /\ sought \notin ToSet(SubSeq(args, 1, i))
      in_bundle ==
        \E word \in ToSet(args) : /\ OptionWord(word) /\ Head(word) = "-" /\ LastLetter(word, takers) > 2
                                  /\ Short(word[LastLetter(word, takers)]) \in Deciding(name)
      found == {i \in DOMAIN args : ValuesAt(args, i, Looked(name)) # {}}
  IN CASE name \in VerbFirst \cup {"git", "gsutil"} -> IF behind_value THEN "behind_value" ELSE "plain"
       [] name = "python" -> IF args[1] # verb THEN "behind_option" ELSE "plain"
       [] name \in {"psql", "mysql", "gcloud", "curl"} ->
            IF in_bundle THEN "in_bundle"
            ELSE IF Cardinality(Given(read, Deciding(name))) > 1 THEN "repeated"
            ELSE IF \E i, j \in found : i # j THEN "misread"
            ELSE IF name = "curl" /\ Given(read, Deciding(name)) = {} THEN "implied"
            ELSE "plain"
       [] OTHER -> "plain"

Loss(name, args) == IF Destroys(name, args) THEN {Kind(name, args)} ELSE {}

=============================================================================
