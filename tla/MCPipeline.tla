----------------------------- MODULE MCPipeline -----------------------------
(* Short tables and the words of each tool for Pipeline. *)
EXTENDS Pipeline

W(text) == <<text>>
Texts(texts) == {<<text>> : text \in texts}

MCPaasClis == {"fly", "heroku"}
MCPaasVerbs == Texts({"destroy", "delete"})
MCCopyVerbs == Texts({"rm", "cp"})

MCVerbs ==
  "kubectl" :> Texts({"delete", "apply"}) @@ "helm" :> Texts({"uninstall"})
    @@ "docker" :> Texts({"rm", "prune"}) @@ "terraform" :> Texts({"destroy", "apply"})
    @@ "gcloud" :> Texts({"delete", "create"}) @@ "az" :> Texts({"delete", "purge"})
    @@ "oci" :> Texts({"delete", "terminate"}) @@ "ibmcloud" :> Texts({"delete", "destroy"})
    @@ "redis-cli" :> Texts({"FLUSHALL", "MIGRATE"})
    @@ "alembic" :> Texts({"upgrade", "downgrade"}) @@ "manage.py" :> Texts({"migrate"})
    @@ "django-admin" :> Texts({"migrate"}) @@ "drizzle-kit" :> Texts({"push", "migrate"})
    @@ "sequelize" :> Texts({"db:migrate"}) @@ "flyway" :> Texts({"migrate", "clean"})
    @@ "liquibase" :> Texts({"update", "rollback"}) @@ "rails" :> Texts({"db:migrate"})
    @@ "rake" :> Texts({"db:migrate"}) @@ "typeorm" :> Texts({"migration:run"})
    @@ "goose" :> Texts({"up", "down"})

MCCaseFold == "flushall" :> "FLUSHALL" @@ "delete" :> "DELETE"

Url(host) == <<"https://", host, "/x">>

\* Words for every tool.
MCWords ==
  "git" :> Texts({"push", "reset", "clean", "checkout", "restore", "branch", "stash", "drop",
                  "filter-repo", ".", "--", "main"})
             \cup {Long("force"), Short("f"), <<"-", "f", "d">>, <<"-", "u", "f">>, Short("d"), Long("delete"), Short("C"),
                   <<"--", "force-with-lease", "=", "ref">>, <<"+", "main">>, <<":", "main">>,
                   Long("hard"), Short("D"), Long("staged"), Long("analyze")}
    @@ "bfg" :> {Long("help"), W("repo")}
    @@ "kubectl" :> Texts({"delete", "get", "pod", "--"}) \cup {Long("watch")}
    @@ "helm" :> Texts({"uninstall", "list", "app"}) \cup {Long("debug"), Short("n"), <<"-", "v", "n">>, <<"-", "n", "app">>}
    @@ "gsutil" :> Texts({"rm", "ls", "obj"}) \cup {Short("m"), Short("u")}
    @@ "docker" :> Texts({"rm", "system", "prune", "ps", "df"}) \cup {Short("D"), Short("f")}
    @@ "terraform" :> Texts({"apply", "plan", "state", "rm", "list"}) \cup {<<"-", "chdir", "=", "dir">>, Short("state")}
    @@ "gcloud" :> Texts({"compute", "ssh", "storage", "rm", "ls", "delete", "ls -l"})
                     \cup {Long("command"), W("rm "), <<"--", "command", "=", "rm ", "f">>, Long("quiet")}
    @@ "curl" :> {Short("X"), Long("request"), W("DELETE"), W("delete"), W("GET"), <<"-", "X", "DELETE">>,
                  <<"--", "request", "=", "DELETE">>, Url("api.fly.io"), Url("opensearch"), Url("graphql"),
                  <<"{mutation", "x">>, Short("d"), Long("data"), <<"-", "s", "X">>, <<"-", "s", "d">>, W("POST")}
    @@ "mongosh" :> {W("db"), <<"db.c.", "drop", "()">>}
    @@ "aws" :> {W("s3"), W("rm"), W("ls"), W("s3://b"), <<"delete-", "bucket">>, Long("recursive")}
    @@ "az" :> Texts({"vm", "delete", "list"}) \cup {Long("yes")}
    @@ "oci" :> Texts({"compute", "terminate", "list"})
    @@ "ibmcloud" :> {W("is"), W("list"), W("delete"), <<"volume", "-delete">>}
    @@ "heroku" :> {W("apps"), <<"apps", ":destroy">>, W("destroy"), Long("destroy")}
    @@ "psql" :> {Short("c"), Short("e"), W("select"), W("drop"), <<"-", "c", "drop">>, <<"--", "command", "=", "drop">>,
                  <<"-", "A", "t", "c">>, <<"-", "A", "c", "drop">>, W("db")}
    @@ "mysql" :> {Short("e"), W("select"), W("drop"), <<"-", "e", "drop">>, W("db")}
    @@ "redis-cli" :> Texts({"flushall", "get", "key"})
    @@ "supabase" :> Texts({"db", "push", "reset", "pull", "migration", "repair"})
                       \cup {Long("linked"), <<"--", "db-url", "=", "u">>}
    @@ "python" :> {Short("u"), W("manage.py"), <<"app/", "manage.py">>, W("migrate"), W("other")}
    @@ "prisma" :> Texts({"migrate", "deploy", "dev", "db"})
    @@ "knex" :> {<<"migrate:", "latest">>, W("init")}
    @@ [tool \in DOMAIN MigrationCode |-> MCVerbs[tool] \cup {W("show")}]

MCSpellings ==
  [tool \in {"kubectl", "az", "bfg"} |-> {"plain", "broken"}] @@ [tool \in DOMAIN MCWords |-> {"plain"}]

MCTakesValue ==
  "git" :> {Short("C")} @@ "kubectl" :> {Short("n")} @@ "helm" :> {Short("n")} @@ "gsutil" :> {Short("u")}
    @@ "terraform" :> {Short("state")} @@ "gcloud" :> {Long("command")}
    @@ "curl" :> {Short("X"), Long("request"), Short("d"), Long("data")} @@ "psql" :> {Short("c"), Long("command")}
    @@ "mysql" :> {Short("e"), Long("execute")}
    @@ [tool \in DOMAIN MCWords |-> {}]

=============================================================================
