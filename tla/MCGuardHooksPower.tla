------------------------- MODULE MCGuardHooksPower -------------------------
(* A small instance of GuardHooksPower for TLC. *)
EXTENDS GuardHooksPower, TLC

CONSTANTS c1, h1, x1

OneHash == c1 :> h1
OnePrefix == x1 :> {h1}
OneRisky == c1 :> {"ask"}

HookAndSessionSymmetry == Permutations(Hooks) \cup Permutations(Sessions)

=============================================================================
