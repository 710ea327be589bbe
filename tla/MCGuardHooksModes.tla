-------------------------- MODULE MCGuardHooksModes --------------------------
(* A small instance of GuardHooksModes for TLC. *)
EXTENDS GuardHooksModes, TLC

CONSTANTS c1, c2, h1, h2, x1, x12

TwoHashes == c1 :> h1 @@ c2 :> h2

\* x12 is so short that it matches both hashes.
TwoPrefixes == x1 :> {h1} @@ x12 :> {h1, h2}

\* Whether c2 is risky depends on the directory it runs in.
RiskyAndVarying == c1 :> {"ask"} @@ c2 :> {"allow", "ask"}

HookSymmetry == Permutations(Hooks)

MCLowered ==
  "" :> "" @@ "live" :> "live" @@ "Live" :> "live" @@ " LIVE " :> "live" @@ " " :> ""
    @@ "off" :> "off" @@ "shadow" :> "shadow"

File(mode) == [dflt |-> mode, env |-> "", shadow |-> FALSE, dryRun |-> FALSE]

MCSettings ==
  {File("off"), [File("live") EXCEPT !.shadow = TRUE], [File("off") EXCEPT !.env = " LIVE "]}

MCModes == {ResolveCodexMode(s) : s \in MCSettings}

=============================================================================
