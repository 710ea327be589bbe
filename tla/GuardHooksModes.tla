-------------------------- MODULE GuardHooksModes --------------------------
(***************************************************************************)
(* The hooks of GuardHooks under the settings that choose their mode:      *)
(* resolveCodexMode (main.go) over config.toml and three environment       *)
(* variables.  A hook reads them once, when it begins, and the user may    *)
(* change them between any two hooks.                                      *)
(***************************************************************************)
EXTENDS GuardHooksLedger

CONSTANTS
  Settings,  \* the settings the user may choose
  Lowered    \* from the spellings of a mode to what ToLower(TrimSpace) makes of them

VARIABLE
  known   \* history: the approvals announced before a hook began that the
          \* user wants live; none for one that cannot open the store

modeVars == <<vars, known>>

\* dflt: mode.default of config.toml, which LoadGlobalConfig presets to
\* "live"; env: BASH_GUARD_CODEX_MODE, "" when unset; shadow, dryRun:
\* BASH_GUARD_SHADOW and BASH_GUARD_DRY_RUN set and not "0".
Setting == [dflt : DOMAIN Lowered, env : DOMAIN Lowered, shadow : BOOLEAN, dryRun : BOOLEAN]

ASSUME SettingsAssumption ==
  /\ "" \in DOMAIN Lowered
  /\ Settings \subseteq Setting

\* Variant: the value of the environment is used as it is written.
ResolveAsWritten(s) ==
  CASE s.dryRun -> "dry-run"
    [] s.shadow /\ ~s.dryRun -> "shadow"
    [] OTHER -> IF s.env # "" THEN s.env ELSE IF s.dflt = "" THEN "live" ELSE s.dflt

\* Only the value of the environment is trimmed and lowered.
ResolveCodexMode(s) ==
  CASE s.dryRun -> "dry-run"
    [] s.shadow /\ ~s.dryRun -> "shadow"
    [] ~s.shadow /\ ~s.dryRun /\ s.env # "" -> Lowered[s.env]
    [] OTHER -> IF s.dflt = "" THEN "live" ELSE s.dflt

ASSUME ModesAssumption == {ResolveCodexMode(s) : s \in Settings} \subseteq Modes

ModesTypeOK ==
  /\ TypeOK
  /\ known \in [Hooks -> SUBSET Hooks]

ModesInit ==
  /\ Init
  /\ known = [p \in Hooks |-> {}]

\* The user's choice: what the variable or else the file says, in whatever
\* spelling.
MeansLive(s) ==
  /\ ~s.dryRun /\ ~s.shadow
  /\ Lowered[IF s.env # "" THEN s.env ELSE s.dflt] \in {"live", ""}

Announced == {a \in Hooks : reply[a] = "approved"}

StartSet(p) ==
  /\ \E s \in Sessions, c \in Commands, setting \in Settings :
        /\ StartPre(p, s, c, ResolveCodexMode(setting))
        /\ known' = [known EXCEPT ![p] = IF MeansLive(setting) THEN Announced ELSE {}]

\* The rest of a hook does not look at the settings.  A flock that fails is
\* left to GuardHooks.
Other(p) ==
  /\ \/ Ignore(p) \/ Malformed(p)
     \/ \E s \in Sessions, x \in Prefixes : StartPrompt(p, s, x)
     \/ Run(p) \/ Kill(p)
  /\ known' = IF pc[p] = "open" /\ pc'[p] = "return" THEN [known EXCEPT ![p] = {}] ELSE known

ModesNext ==
  \/ \E p \in Hooks : StartSet(p) \/ Other(p)
  \/ Tick /\ UNCHANGED known
  \/ Finished /\ UNCHANGED known

ModesSpec == ModesInit /\ [][ModesNext]_modeVars

-----------------------------------------------------------------------------
(* Properties.                                                             *)

\* The premise of LiveHonours: what the user means by live, resolveCodexMode
\* makes "live".  It does not for "Live" in config.toml, nor for a variable
\* that holds only spaces.
SpelledAsRead == \A s \in Settings : MeansLive(s) => ResolveCodexMode(s) = "live"

\* Different commands have different hashes (SHA-256).
DistinctHashes == \A c, d \in Commands : HashOf[c] = HashOf[d] => c = d

\* The approval of hook a was still to be had by p: nobody took it, no later
\* approval of the command replaced it, and its life was not over.
Due(a, p) ==
  /\ req[a].session = req[p].session /\ took[a].command = req[p].command
  /\ stamp[p] < stamp[a] + TTL
  /\ \A q \in Hooks : took[q] # NoEntry => took[q].by # a
  /\ \A b \in Hooks \ {a} :
        ~(op[b] = "approve" /\ took[b] # NoEntry /\ took[b].command = took[a].command
            /\ req[b].session = req[a].session /\ stamp[b] >= stamp[a])

\* user_prompt.go:41: "Retry the exact same command once".  Once an approval
\* has been announced, a retry that is meant to be live and begins afterwards,
\* can open the store and still finds it due is not blocked again, whatever
\* the mode was when the command was blocked and whatever else runs or fails.
LiveHonours ==
  \A p \in Hooks : reply[p] = "deny" => \A a \in known[p] : ~Due(a, p)

=============================================================================
