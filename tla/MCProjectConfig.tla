-------------------------- MODULE MCProjectConfig --------------------------
(* Small worlds for ProjectConfig. *)
EXTENDS ProjectConfig, TLC

u == <<"home", "u">>
proj == <<"home", "u", "proj">>
tmp == <<"tmp">>
etc == <<"etc">>
docs == <<"home", "u", "docs">>

Word(abs, names) == [abs |-> abs, names |-> names, slash |-> FALSE]

\* Safe paths that a configuration may list: a directory of the project, a
\* link, one that does not exist, one outside, the protected ones.
Configs ==
  {Malformed, <<Word(FALSE, <<"d">>), Word(TRUE, etc)>>, <<Word(FALSE, <<"l">>)>>,
   <<Word(FALSE, <<"new">>), Word(FALSE, <<"..", "other">>)>>,
   <<Word(FALSE, <<"docs">>), Word(TRUE, proj)>>}

Tree(links, configs) ==
  [dirs    |-> {Root, <<"home">>, u, proj, Append(proj, "d"), Append(u, "other"), docs, tmp, etc}
                 \ DOMAIN links,
   files   |-> {Append(dir, "f") : dir \in {proj, etc, docs, Append(proj, "d"), Append(u, "other")}},
   links   |-> links,
   configs |-> configs]

Links ==
  {[path \in {} |-> Root], (tmp \o <<"l">>) :> proj}
    \cup {(proj \o <<"l">>) :> to : to \in {etc, docs, proj \o <<"d">>}}

MCWorlds ==
  {Tree(links, configs) :
     links \in Links,
     configs \in {[path \in {} |-> Malformed]}
                   \cup {dir :> config : dir \in {proj, u}, config \in Configs}
                   \cup {(u :> config @@ proj :> <<Word(FALSE, <<"d">>)>>) : config \in Configs}}

MCCwds == {proj, proj \o <<"d">>, proj \o <<"l">>, tmp \o <<"l">>, u, docs}

Trusted(dir, honour) == [root |-> dir, honour |-> honour]

MCTrusts ==
  {<<>>}
    \cup {<<Trusted(dir, honour)>> : dir \in {proj, u, tmp \o <<"l">>, etc}, honour \in BOOLEAN}
    \cup {<<Trusted(u, TRUE), Trusted(proj, FALSE), Trusted(proj, TRUE)>>}

MCGlobals == {{}, {docs}}

MCHigh == {<<"home">>}
MCScratch == {tmp}
MCProtected == {etc}

=============================================================================
