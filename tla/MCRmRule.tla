------------------------------ MODULE MCRmRule ------------------------------
(* Small file systems and operands for RmRule. *)
EXTENDS RmRule, TLC

u == <<"home", "u">>
proj == <<"home", "u", "proj">>
tmp == <<"tmp">>
etc == <<"etc">>
docs == <<"home", "u", "docs">>

\* The directories and files of every world; f is a file.
Tree(links) ==
  [dirs  |-> {Root, <<"home">>, u, proj, Append(proj, "d"), docs, tmp, Append(tmp, "d"), etc}
               \ DOMAIN links,
   files |-> {Append(dir, "f") : dir \in {proj, tmp, etc, docs}} \cup {<<"home", "u", "proj", "d", "f">>},
   links |-> links]

NoLinks == [path \in {} |-> Root]
Link(from, to) == from :> to

MCWorlds ==
  {Tree(NoLinks)}
    \cup {Tree(Link(Append(proj, "l"), to)) : to \in {etc, u, tmp, Append(tmp, "f")}}
    \cup {Tree(Link(Append(tmp, "l"), to)) : to \in {proj, etc, <<"none">>}}
    \cup {Tree(Link(Append(etc, "l"), to)) : to \in {tmp, Append(tmp, "d")}}

MCCwds == {proj, u, tmp, Root, Append(proj, "l")}
MCExtras == {{}, {<<"home">>, Append(proj, "d")}}

MCHigh == {<<"home">>}
MCScratch == {tmp}
MCProtected == {etc}

Word(abs, names, slash) == [abs |-> abs, names |-> names, slash |-> slash]

Relative ==
  {<<>>} \cup {<<n>> : n \in {"d", "f", "l", "docs", "proj", "..", "*", "~", "$"}}
    \cup {<<m, n>> : m \in {"l", "d", "..", "~"}, n \in {"f", "l", "..", "*", "docs"}}
    \cup {<<m, "..", n>> : m \in {"l", "d", ".."}, n \in {"f", "l", "*"}}

Absolute ==
  {dir \o tail : dir \in {Root, tmp, etc, u, proj},
                tail \in {<<>>, <<"f">>, <<"l">>, <<"*">>, <<"l", "f">>, <<"l", "*">>}}

\* A trailing slash matters only after a link.
MCOperands ==
  {Word(FALSE, names, FALSE) : names \in Relative}
    \cup {Word(TRUE, names, FALSE) : names \in Absolute}
    \cup {Word(FALSE, <<"l">>, TRUE), Word(TRUE, <<"tmp", "l">>, TRUE)}

\* A dash word; it names a file only after "--".
MCFlags == {Word(FALSE, <<"-f">>, FALSE)}

MCCds == {Word(TRUE, tmp, FALSE), Word(FALSE, <<"l">>, FALSE)}

\* The premises of the theorems hold here.
ASSUME Premises == CdsAreDirect /\ HomeIsUsual

=============================================================================
