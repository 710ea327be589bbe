---------------------------- MODULE MCGuardHooks ----------------------------
(* Small instances of GuardHooks for TLC. *)
EXTENDS GuardHooks, TLC

CONSTANTS c1, h1, x1

OneHash == c1 :> h1
OnePrefix == x1 :> {h1}
OneRisky == c1 :> {"ask"}

HookSymmetry == Permutations(Hooks)

=============================================================================
