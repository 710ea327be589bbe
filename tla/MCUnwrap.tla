------------------------------ MODULE MCUnwrap ------------------------------
(* The tables of the wrappers, shortened, for Unwrap. *)
EXTENDS Unwrap, TLC

W(text) == <<text>>

MCWrappers ==
  {"sudo", "env", "command", "exec", "nice", "timeout", "chroot", "ssh", "xargs", "eval", "watch"}
MCShells == {"bash"}
MCOthers == {"rm", "echo"}
MCTakers == {"timeout", "chroot", "ssh"}
MCBlind == {"watch"}

Nothing == [tool \in MCWrappers \cup MCShells |-> {}]

MCPlain ==
  "sudo" :> {Short("n")} @@ "env" :> {Short("i")} @@ "command" :> {Short("p")} @@ "exec" :> {Short("l")}
    @@ "timeout" :> {Long("foreground")} @@ "ssh" :> {Short("v")} @@ "xargs" :> {Short("0")}
    @@ "bash" :> {Short("c"), <<"-", "l", "c">>, Short("x")} @@ Nothing

MCValued ==
  "sudo" :> {Short("u")} @@ "env" :> {Short("u")} @@ "exec" :> {Short("a")} @@ "ssh" :> {Short("p")}
    @@ "xargs" :> {Short("I")} @@ "bash" :> {Short("o")} @@ Nothing

MCUnlisted ==
  "sudo" :> {Short("r")} @@ "env" :> {Short("C"), Short("S")} @@ "nice" :> {Short("n")} @@ "timeout" :> {Short("s")}
    @@ "xargs" :> {Long("process-slot-var")} @@ Nothing

MCGlued ==
  "sudo" :> {<<"--", "user", "=", "u">>} @@ "env" :> {<<"--", "unset", "=", "A">>}
    @@ "chroot" :> {<<"--", "userspec", "=", "u">>} @@ "nice" :> {<<"--", "adjustment", "=", "5">>}
    @@ "bash" :> {<<"-", "c", "=", "rm a">>} @@ Nothing

MCPrograms ==
  {W(tool) : tool \in MCWrappers \cup MCShells \cup MCOthers \cup {"find"}} \cup {<<"/usr/bin/", "sudo">>}

MCValues == {W("v")}
MCArgs == {W("a"), Short("f")}
MCRoots == {W("a"), W("b")}

MCScripts == W("rm a") :> <<W("rm"), W("a")>>
MCBroken == {W("(")}

=============================================================================
