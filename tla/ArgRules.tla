------------------------------ MODULE ArgRules ------------------------------
(***************************************************************************)
(* The rules that look at the arguments of a command only: GitRule,        *)
(* InfraRule, PaasRule, DbClientRule and SupabaseRule.  A rule is the      *)
(* reason code it gives a command, or None; the lists of verbs, hosts and  *)
(* SQL are parameters.  A reason code is cut into pieces as a word is:     *)
(* infra.kubectl_destructive is <<"infra", "kubectl", "destructive">>.     *)
(***************************************************************************)
EXTENDS Argv, TLC

CONSTANTS
  Verbs,        \* the destructive words of each tool that has a list of them
  CopyVerbs,    \* gsutilDestructive
  PaasClis,     \* Triggers of PaasRule
  PaasVerbs,    \* paasGenericDestructive
  PaasSuffixes, \* paasColonDestructiveSuffixes
  AwsPrefixes,  \* "delete-", "terminate-", ...
  IbmSuffixes,  \* "-delete", "-rm", "-destroy"
  Mutators,     \* pieces that hasRemoteCommandMutation looks for
  MongoTokens,  \* mongoDestructiveTokens
  SearchHosts,  \* opensearch, elasticsearch, :9200, :9300
  CloudHosts,   \* cloudControlPlaneHosts
  SqlBodies,    \* what sqlDestructiveRe matches
  CaseFold      \* lower case to upper case

Migrators ==
  {"alembic", "manage.py", "django-admin", "drizzle-kit", "sequelize", "flyway", "liquibase", "rails",
   "rake", "typeorm", "goose"}

\* The tools that have a rule, those of PaasRule aside.
Ruled ==
  {"git", "bfg", "kubectl", "helm", "gsutil", "docker", "terraform", "tofu", "gcloud", "curl", "mongo",
   "mongosh", "mongodump", "mongorestore", "aws", "az", "oci", "ibmcloud", "psql", "mysql", "mariadb",
   "redis-cli", "supabase", "python", "python3", "prisma", "knex"} \cup Migrators

\* No tool has two rules, and the empty word is on no list of verbs.
ASSUME RulesAssumption ==
  /\ PaasClis \cap Ruled = {}
  /\ <<>> \notin CopyVerbs
  /\ \A tool \in {"kubectl", "helm", "docker", "terraform"} : <<>> \notin Verbs[tool]

None == <<>>

Upper(piece) == IF piece \in DOMAIN CaseFold THEN CaseFold[piece] ELSE piece

\* strings.Contains(argv, piece)
Mentions(args, pieces) == \E word \in ToSet(args) : ToSet(word) \cap pieces # {}

-----------------------------------------------------------------------------
(* GitRule                                                                 *)

Forces(word) ==
  \/ word \in {Long("force"), Long("force-with-lease")}
  \/ IsPrefix(<<"--", "force-with-lease", "=">>, word)
  \/ IsPrefix(<<"+">>, word) /\ Len(word) > 1
  \/ Bundled(word, "f")

DeletesRef(word) ==
  \/ word = Long("delete")
  \/ Bundled(word, "d")
  \/ IsPrefix(<<":">>, word) /\ Len(word) > 1

\* checkPush: the first word that forces or deletes decides; if it does
\* both, it forces.
PushCode(args) ==
  LET i == SelectInSeq(args, LAMBDA word : Forces(word) \/ DeletesRef(word)) IN
  IF i = 0 THEN None
  ELSE IF Forces(args[i]) THEN <<"git", "force_push">> ELSE <<"git", "push_delete">>

Restores(args) ==
  /\ HasArg(args, {<<".">>})
  /\ ~HasArg(args, {Long("source"), Short("s"), Long("staged"), Long("cached")})
  /\ ~HasArgPrefix(args, <<"--", "source", "=">>)

GitCode(args) ==
  LET verb == FirstNonFlag(args) IN
  CASE verb = <<"push">> -> PushCode(args)
    [] verb = <<"reset">> /\ HasArg(args, {Long("hard")}) -> <<"git", "reset_hard">>
    [] verb = <<"clean">> /\ \E word \in ToSet(args) : word = Long("force") \/ Bundled(word, "f")
         -> <<"git", "clean_force">>
    [] verb = <<"checkout">> /\ HasArg(args, {<<".">>, <<"--">>}) -> <<"git", "checkout_pathspec">>
    [] verb = <<"restore">> /\ Restores(args) -> <<"git", "restore_pathspec">>
    [] verb = <<"branch">> /\ (\/ \E word \in ToSet(args) : Bundled(word, "D")
                               \/ {Long("delete"), Long("force")} \subseteq ToSet(args))
         -> <<"git", "branch_force_delete">>
    [] verb = <<"stash">> /\ FirstNonFlag(After(args, <<"stash">>)) \in {<<"drop">>, <<"clear">>}
         -> <<"git", "stash_loss">>
    [] verb = <<"filter-branch">> -> <<"git", "history_rewrite">>
    [] verb = <<"filter-repo">> /\ ~HasArg(args, {Long("analyze")}) -> <<"git", "history_rewrite">>
    [] OTHER -> None

BfgCode(args) ==
  IF HasArg(args, {Long("help"), Short("h"), Long("version")}) THEN None
  ELSE <<"git", "history_rewrite">>

-----------------------------------------------------------------------------
(* InfraRule                                                               *)

\* kubectl, helm, gsutil: the first word that is no flag.
VerbCode(name, args, code) ==
  IF FirstNonFlag(args) \in Verbs[name] THEN code ELSE None

DockerCode(args) ==
  LET verb == FirstNonFlag(args) IN
  IF verb \in Verbs["docker"] THEN <<"infra", "docker", "destructive">>
  ELSE IF verb = <<"system">> /\ HasArg(args, {<<"prune">>}) THEN <<"infra", "docker", "system_prune">>
  ELSE None

TerraformCode(args) ==
  LET verb == FirstNonFlag(args) IN
  IF verb \in Verbs["terraform"] THEN <<"infra", "terraform", "mutation">>
  ELSE IF verb = <<"state">>
          /\ FirstNonFlag(After(args, <<"state">>)) \in {<<"rm">>, <<"mv">>, <<"push">>}
  THEN <<"infra", "terraform", "state_mutation">>
  ELSE None

RemoteMutation(args) == ToSet(FirstValue(args, {Long("command")})) \cap Mutators # {}

GcloudCode(args) ==
  LET copies == HasArg(args, CopyVerbs)
      i == SelectInSeq(args, LAMBDA word : word \in Verbs["gcloud"] \/ (word = <<"storage">> /\ copies))
  IN IF i # 0
     THEN IF args[i] \in Verbs["gcloud"] THEN <<"infra", "gcloud", "destructive">> ELSE <<"infra", "gcs", "storage_mutation">>
     ELSE IF InOrder(args, <<"compute">>, <<"ssh">>) /\ RemoteMutation(args)
     THEN <<"infra", "gcloud", "ssh_remote_mutation">>
     ELSE None

CurlCode(args) ==
  LET method == FirstValue(args, {Short("X"), Long("request")})
      mutating == Len(method) = 1 /\ Upper(Head(method)) \in {"POST", "PUT", "DELETE", "PATCH"}
  IN IF ~mutating THEN None
     ELSE IF Mentions(args, SearchHosts) THEN <<"infra", "opensearch", "mutation">>
     ELSE IF Mentions(args, CloudHosts) THEN <<"infra", "cloud_api", "mutation">>
     ELSE IF Mentions(args, {"graphql"}) /\ Mentions(args, {"{mutation"}) THEN <<"infra", "graphql", "mutation">>
     ELSE None

AwsCode(args) ==
  IF \E word \in ToSet(args) : word # <<>> /\ Head(word) \in AwsPrefixes
  THEN <<"infra", "aws", "destructive">>
  ELSE IF InOrder(args, <<"s3">>, <<"rm">>) THEN <<"infra", "aws", "s3_rm">>
  ELSE None

\* az, oci, ibmcloud: a verb anywhere.
NounVerbCode(name, args, code) ==
  IF \/ HasArg(args, Verbs[name])
     \/ name = "ibmcloud" /\ \E word \in ToSet(args) : word # <<>> /\ Last(word) \in IbmSuffixes
  THEN code ELSE None

-----------------------------------------------------------------------------
(* PaasRule, DbClientRule                                                  *)

PaasCode(name, args) ==
  IF \E word \in ToSet(args) :
       ~Dashed(word) /\ word # <<>> /\ (word \in PaasVerbs \/ Last(word) \in PaasSuffixes)
  THEN <<"paas", name, "destructive">> ELSE None

SqlOptions == {Short("c"), Short("e"), Long("command"), Long("execute")}

SqlCode(args) ==
  IF ToSet(FirstValue(args, SqlOptions)) \cap SqlBodies # {} THEN <<"db_client", "sql_destructive">> ELSE None

RedisCode(args) ==
  IF \E word \in ToSet(args) : Len(word) = 1 /\ <<Upper(Head(word))>> \in Verbs["redis-cli"]
  THEN <<"db_client", "redis_destructive">> ELSE None

-----------------------------------------------------------------------------
(* SupabaseRule                                                            *)

CheckSupabase(args) ==
  IF InOrder(args, <<"db">>, <<"push">>) THEN <<"supabase", "db_push">>
  ELSE IF InOrder(args, <<"db">>, <<"reset">>) /\ HasArg(args, {Long("linked")})
  THEN <<"supabase", "db_reset_linked">>
  ELSE IF \E i \in 1..(Len(args) - 1) :
            args[i] \in {<<"migration">>, <<"migrations">>} /\ args[i + 1] = <<"repair">>
  THEN <<"supabase", "migration_repair">>
  ELSE IF HasArgPrefix(args, Long("db-url")) THEN <<"supabase", "db_url">>
  ELSE None

\* The basename of args[0] is the script.
PythonCode(args) ==
  IF Len(args) >= 2 /\ args[1] # <<>> /\ Last(args[1]) \in {"manage.py", "django-admin"}
     /\ HasArg(Tail(args), {<<"migrate">>})
  THEN <<"supabase", "django_migrate">> ELSE None

PrismaCode(args) ==
  IF \/ InOrder(args, <<"migrate">>, <<"deploy">>) \/ InOrder(args, <<"migrate">>, <<"reset">>)
     \/ InOrder(args, <<"db">>, <<"push">>)
  THEN <<"supabase", "prisma_migration">> ELSE None

\* The tools of which a word anywhere applies or rolls back migrations.
MigrationCode ==
  [tool \in Migrators |->
     <<"supabase",
       CASE tool = "alembic" -> "alembic_migration"
         [] tool \in {"manage.py", "django-admin"} -> "django_migrate"
         [] tool = "drizzle-kit" -> "drizzle_migration"
         [] tool = "sequelize" -> "sequelize_migration"
         [] tool = "flyway" -> "flyway_migration"
         [] tool = "liquibase" -> "liquibase_migration"
         [] tool \in {"rails", "rake"} -> "rails_migration"
         [] tool = "typeorm" -> "typeorm_migration"
         [] tool = "goose" -> "goose_migration">>]

-----------------------------------------------------------------------------

\* registry.evaluate for one command: the rule whose triggers hold the name.
CodeOf(name, args) ==
  CASE name = "git" -> GitCode(args)
    [] name = "bfg" -> BfgCode(args)
    [] name = "kubectl" -> VerbCode("kubectl", args, <<"infra", "kubectl", "destructive">>)
    [] name = "helm" -> VerbCode("helm", args, <<"infra", "helm", "mutation">>)
    [] name = "gsutil" -> IF FirstNonFlag(args) \in CopyVerbs THEN <<"infra", "gsutil", "mutation">> ELSE None
    [] name = "docker" -> DockerCode(args)
    [] name \in {"terraform", "tofu"} -> TerraformCode(args)
    [] name = "gcloud" -> GcloudCode(args)
    [] name = "curl" -> CurlCode(args)
    [] name \in {"mongo", "mongosh", "mongodump", "mongorestore"} ->
         IF Mentions(args, MongoTokens) THEN <<"infra", "mongo", "destructive">> ELSE None
    [] name = "aws" -> AwsCode(args)
    [] name = "az" -> NounVerbCode(name, args, <<"infra", "azure", "destructive">>)
    [] name = "oci" -> NounVerbCode(name, args, <<"infra", "oci", "destructive">>)
    [] name = "ibmcloud" -> NounVerbCode(name, args, <<"infra", "ibmcloud", "destructive">>)
    [] name \in PaasClis -> PaasCode(name, args)
    [] name \in {"psql", "mysql", "mariadb"} -> SqlCode(args)
    [] name = "redis-cli" -> RedisCode(args)
    [] name = "supabase" -> CheckSupabase(args)
    [] name \in {"python", "python3"} -> PythonCode(args)
    [] name = "prisma" -> PrismaCode(args)
    [] name = "knex" ->
         IF HasArgPrefix(args, <<"migrate:">>) THEN <<"supabase", "knex_migration">> ELSE None
    [] name \in DOMAIN MigrationCode ->
         IF HasArg(args, Verbs[name]) THEN MigrationCode[name] ELSE None
    [] OTHER -> None

=============================================================================
