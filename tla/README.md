# bash-guard in TLA+

The repository installs hooks for the Codex agent. All of its executable code is one Go
program, `bash-guard` (`.codex/hooks/bash-guard/src`, about 3 600 lines without tests); the
rest is configuration, and skills and agent definitions in prose. This directory holds a TLA+
model of that program, the TLC runs that check it and the TLAPS proofs about it.

## Inventory

Codex starts a fresh process of the one binary for every event. A process reads one JSON
envelope from stdin, prints at most one answer and exits. Processes of different sessions,
and of parallel tool calls of one session, run at the same time and share files only.

| Part | State | Operations | Status |
|---|---|---|---|
| Approval store (`approval_state.go`) | `state.json` (two maps: session, command hash to entry), `state.lock` | record, approve by prefix, consume; each under `flock` with clean-up and an atomic rename | modelled |
| Hook process (`main.go`, `user_prompt.go`, `hooks.json`) | none of its own beyond its memory | dispatch, mode, consume, evaluate, record, print, audit; killed at its timeout | modelled |
| Audit log (`audit.go`) | `bash-guard.jsonl` and `.1` to `.3` | append, rotate by a cascade of renames | modelled |
| Safe paths (`safe_paths.go`) | none; reads the file system | allowlist, realpath, classification of an operand | modelled |
| rm rule (`rule_rm.go`) | none | options and operands, worst decision | modelled |
| Registry, aggregation (`rule.go`, `decision.go`, `main.go`) | none | test for a trigger in the text, all commands by all rules that apply; any ask wins | modelled |
| git, database, infra, PaaS, Supabase rules (`rule_*.go`) | none | tables of argument patterns, one reason code per command | modelled |
| Parser and unwrapping (`parser.go`, `unwrap.go`, `span.go`) | working directory and flags of a walk, the words of a command | walk of the syntax tree; wrappers, ssh, xargs, shells and find taken apart | partly |
| Configuration (`config.go`) | the user's two files, one file per project | search upwards, trust, filter of project paths | modelled |
| Intents, messages (`intent.go`, `main.go`) | none | words for a reason code | partly |
| Build, launcher | none | compilation | not modelled |
| Agents and skills | none | prose for a language model | not modelled |

How the parts interact: a PreToolUse hook in live mode first asks the approval store to
consume an approval of this very command; if there is none, parser, rules and safe paths give
a level; a risky command is recorded in the store as pending and blocked, with the hash in
the message. The user types `approve-risk <prefix>`; the UserPromptSubmit hook moves the
entry from pending to approved. The next PreToolUse hook for the command finds it. Every
PreToolUse hook ends with a line in the audit log.

What is hard here: many processes on one file with a lock that is dropped if they die; a
kill between any two steps; errors that are ignored on purpose (`flock`, the save of a
consumed approval, the audit); a clock that decides whether an entry lives and is read at
another moment than the file; prefixes that may match several entries, recorded by other hooks
in the meantime; a mutex that is local to a process while the log it guards is not; a rename
that is not on the disk yet when the power fails; settings that change between a block and its
retry; links below every path that is compared; and, in the part without concurrency, words in
any order, of which the same one may be an option, the value of one, a verb or an operand.
`PROJECT.json` lists these hazards with the line where each bites and the property that
would catch it.

## The modules

| Module | Content |
|---|---|
| `ApprovalState` | the contents of `state.json` and the pure functions over it |
| `GuardHooks` | concurrent hook processes on the store, and the properties |
| `GuardHooksModes` | the same under settings that the user changes |
| `GuardHooksPower` | the same on a machine that may lose power |
| `ApprovalLedger` | abstract: what a store of one-shot credits promises |
| `GuardHooksInv` | the inductive invariants |
| `GuardHooksLedger` | the refinement mapping from `GuardHooks` to `ApprovalLedger` |
| `GuardHooks_proofs` | theorems about `GuardHooks`, the ledger it implements, `GuardHooksModes` and `GuardHooksPower` |
| `AuditLog`, `AuditLog_proofs` | append and rotation of the audit log |
| `Paths`, `Paths_proofs` | paths, links, Go's functions on paths, and what the kernel removes |
| `SafePaths` | the allowlist of a hook and the classification of an operand |
| `RmRule`, `RmRule_proofs` | the rm rule over the commands of one call, and the properties |
| `ProjectConfig`, `ProjectConfig_proofs` | the configuration of a project, its trust, and the allowlist it leads to |
| `Argv` | words of a command and the helpers by which the code reads them |
| `ArgRules` | the rules that look at arguments only |
| `Tools` | external: what git, kubectl, psql ... make of the same words |
| `Pipeline`, `Pipeline_proofs` | quick test, rules, aggregation and intent of a call, and the properties |
| `Unwrap`, `Unwrap_proofs` | the loop that takes wrappers off a command, next to the tools themselves |
| `ShellWalk`, `ShellWalk_proofs` | the walk of a script by the parser, next to the shell |
| `MC...` | small instances for TLC |

`GuardHooks` leaves the outcome of the rules open (constant `Levels`); `Pipeline` and `RmRule`
say what it is for a list of commands, `ShellWalk` and `Unwrap` how that list comes about, and
`ProjectConfig` feeds the allowlist of `SafePaths` that `RmRule` classifies with.

### ApprovalState and GuardHooks

A map of the code is a total function on keys `<<session, hash>>` with `NoEntry` for a missing
key. Of an entry the model keeps the command and the expiry, which are the only fields the
code reads back. The field `by` is a history field: the process that wrote the entry.

`mutateApprovalState` is a sequence of steps of a process, because others run in between:

| Step | Code | Action |
|---|---|---|
| `open` | MkdirAll, OpenFile (113-120) | `Open`, may fail |
| `flock` | Flock (121) | `Acquire` blocks; `FlockFails` goes on without the lock |
| `stamp` | time.Now (124) | `Stamp` |
| `mutate` | load, clean up, closure (125-129) | `Mutate` = `RecordFn`, `ApproveFn` or `ConsumeFn` |
| `save` | temporary file and rename (130, 162-184) | `Save`, may fail |
| `unlock` | the deferred calls (120, 122) | `Unlock` |
| `return` | the callers | `ReturnConsume`, `ReturnRecord`, `ReturnApprove` |

Loading and the closure are one step: nothing a process does between them can be seen from
outside, and the rename makes a read of the file atomic. A save that fails at any point before
the rename leaves the file alone, so one step stands for all the ways it can fail. `Kill` ends
a process between any two steps; the kernel then frees its lock. `Tick` moves the clock at any
moment.

`StartPre` ends at once in the modes `off` and `disabled`, consumes only in `live`, and goes
straight to `Evaluate` in every other mode (also a misspelt one). `Evaluate` takes a level
from `Levels`, because rules, configuration, directory and links decide it; a command may have
several. The reply `silent` means that the hook has ended without a decision and the command
runs. What Codex does when a hook is killed is outside the code; a killed hook counts as
neither blocked nor passed.

One time unit of the clock is an arbitrary number of seconds; `TTL` units are the 1 800
seconds of `approvalTTLSeconds`. Hashes are model values: `HashOf` need not be injective, and
`PrefixOf` says which hashes start with a prefix.

### GuardHooksModes and GuardHooksPower

Both extend `GuardHooks` and add variables to its steps. In `GuardHooksModes` a PreToolUse hook
takes its mode from the settings of the moment in which it begins; since the user may change
them between any two hooks and a hook reads them once, any setting may come next and none is
kept as state. `ResolveCodexMode` has the precedence of the code (dry run, shadow, environment,
file) and lowers and trims the value of the environment only. `known` remembers which approvals
had been announced when a hook began that the user wants live.

In `GuardHooksPower` the rename of a file that was not synced adds to `disk`, the set of
contents that may be found after a failure: what was there, the new file, or an empty one,
which the code reads as an empty state. `WriteBack` leaves only the current file. `PowerFails`
picks one of them, ends all processes and frees the lock. The rename itself is atomic; torn
names are outside the model.

### AuditLog

Files are numbers, so that one can follow a file through its renames. `Stat`, every rename of
the cascade, `Open` and the write are steps of their own, and a writer keeps its open file when
another renames it. A rename may fail for a reason other than a missing file; the code ignores
either. `Full` is the limit in entries. `auditMu` is not in the model: a process writes one entry
and the mutex never has a second user. Two history variables mark the premises: `crowded` (two
hooks have been in the audit at once) and `failed` (a rename has failed).

### Paths, SafePaths and RmRule

A path is the sequence of its names. A file system is a set of directories, a set of files and
a map of links to real paths. `Clean` and `Realpath` are what Go does; `Follow`, `Step` and
`Removed` are what the kernel does with the same words, so that the properties compare the two.
`WellFormed` says that a file system is a tree. `Clean` and `Follow` are recursive functions over
the names, so that they can be proved about.
A word of a command keeps whether it starts and ends with a slash; the names `"*"`, `"~"`,
`".."` and `"$"` (any variable or substitution) have their meaning.

`NewSafePaths` and `Classify` follow the code test by test. `RmRule` takes the words of a
command one at a time; the code sorts all words first and then classifies the operands, but no
operand depends on another, so the two loops are one. `Begin` stands for a command with the
directory that the parser has found for it; a command of a remote shell, of xargs, of chroot
or with a body that does not parse is asked about without a look at its words. `Aggregate`
decides for the whole call. The history variable `harm` holds what the call would do if it ran:
remove something outside the safe directories, the home directory or one above it, a safe
directory itself, or all entries of a shared one.

`StartOf` takes a relative cd from the directory of the event: the code leaves the path
relative and `filepath.Abs` completes it with the directory of the process, which is the same
one. Every harm is kept with the form of the word that does it. The properties claim the form
`plain`. The other three are in the model and the code allows some of each: `tilde` (nothing
expands a leading `~`), `up` (`Clean` takes `..` away with the name of the link before it, the
kernel goes up from where the link leads) and `link` (a link that is named itself is judged by
what it points to, while rm removes the link). The last two contradict the comment of
`safe_paths.go:148-151`: with a link from `/tmp/l` to another directory `rm /tmp/l/../x` is judged
as `/tmp/x`, and with one from `/etc/l` into `/tmp` `rm /etc/l` is allowed.

### ProjectConfig

One hook, from the directory of its event to its allowlist. `Find` goes up the path as it is
written, `Trust` compares real paths and takes the first entry that matches, `Read` and `Admit`
filter the safe paths one by one, `Build` makes the allowlist of `SafePaths` from the paths of
`config.toml` and the admitted ones. A world is a file system with links and with the
configurations in it. The properties look for the place of a path with `Follow`, which is the
kernel's walk and not the code's. `Without` is the allowlist of the same tree without
configurations; since no path is ever admitted (see the findings), it is the only one there is,
and no property compares the two: the theorem `AllowlistIsTheUsers` says it once.

### Argv, ArgRules, Tools and Pipeline

A word is a sequence of pieces, cut where the code cuts or compares it, so that tests for a
prefix, a suffix, `--option=value` or a bundle of letters are tests on sequences. `CodeOf`
is a rule: the reason code it gives a command. The lists of verbs, hosts and tokens are
constants, shortened in `MCPipeline`, since the rules treat the members of a list alike. A
reason code is a sequence too, and the tables of intents look for its beginning.

A behaviour of `Pipeline` is a call: `Begin` starts a command, `Word` adds a word, `End`
evaluates the command, `Answer` decides for the call. `visible` is the outcome of the test for a
trigger in the text; a `broken` spelling is a name that the parser puts together and that the
text does not hold as a word. `Tools` reads the same words as the tools do, with getopt: an
option takes its value from the rest of its word or, also at the end of a bundle (`-sX DELETE`,
`-Atc SQL`), from the next one; `--` ends the options; the first operand is the verb. It says
whether the call would destroy something that the comments of the rule list, for curl by a method
that is given or that data implies. `loss` keeps in which form (`Kind`): `plain`, or one of six
that the rules do not cover (see the premises). `Read` is what a tool has read when its line ends:
the options, their values with the option each is given to, the operands and those of them behind
`--`. `sought` in `Kind` is the word that the rule compares: the first operand, or of `terraform
state` the second.

The tables meet three assumptions. `RulesAssumption`: no tool has two rules, and the empty word is
no verb. `TablesAssumption`: a verb does not look like an option, `state` is no verb of the
terraform list but has verbs of its own, and the methods of HTTP in upper case are left as they
are.
`WordsAssumption`: a word that begins with `--` and the name of an option goes on with `=`.

### Unwrap

A behaviour first writes a command word by word in the grammar of the tools that will read it
(`Option`, `Value`, `Own`, `Program` ...), so that `reader` and `real` know what really runs and
under which flags. Then the loop of `applyUnwrap` takes it apart, a layer per step: `Strip` is
one wrapper with its options and its operand, `Shell` enters the script behind `-c`, `Find`
makes a virtual rm, `Bare` and `Actual` record. `Past` is what the loop of a wrapper makes of one
more word (skip it, wait for its value, stop), and `Scan` repeats it over the words; `Layer` is
then the number of words that a turn takes off. `SplitsAt` and `EqualsAt` are the two words at
which the code does something else: `-S` of env, where it gives up and records env (`EnvSplit`),
and `-c=script` of a shell, which it enters although no shell does (`ShellEquals`). A script that
does not parse is recorded as such (`Enter`). `odd` remembers the forms that the tools take
and the code does not know. `--` behind a shell or eval is not written: the code takes it for the
script. `FlagOf` is what a tool does to the commands behind it,
`ContextOf` what the code notes.

Which options and programs there are is left open, but for the assumptions that the tables
have to meet: a name belongs to one tool; an option that is not in `Unlisted` is one that the
code skips or takes with its value; a program's name and an operand do not look like options or
assignments; `-c` of a shell takes no value from the line; a script is a command that is no
wrapper, or does not parse (nested scripts are the walk's). They say what makes `Unlisted` and the other oddities
the only differences between the tables of the tools and those of the code, and TLC evaluates
them on the instance. The eleven wrappers of the instance stand for all of the code: one
for each way in which `stripExecutorPrefix` skips options.

### ShellWalk

A behaviour is a script, node after node, in the order in which `walkStmt` visits it: `Open`
enters a construct, `Turn` goes to its next part, `Close` leaves it, `Cd` and `Run` are simple
commands. The code's side is a stack of walkers, each with its lexical directory and the
commands it has seen; `Subshell` and re-parsed bodies put a copy on the stack, and the end of
a copy hands its commands over. The `walkContext` is inherited through the frames. The
shell's side has its real directory and status; it forks for subshells, substitutions, stages,
the background and the bodies of `bash -c` and ssh, and it skips what a condition rules out,
while the walk visits everything. `ran` keeps what the shell has run, with its directory, the
flags of everything around it, and whether the walk has a way to read it.

`Cd` has absolute and relative literal targets, and the shell follows it, fails or does not get
to it; the walker takes the target in every case, and puts a relative one in the place of its
directory. `CdElsewhere` is every other way to move (a bare cd, one with a variable or an option,
`~`, `-`, pushd, a cd in a statement that the walk does not visit), at which the walker stays or
takes a wrong word. `course` says what has become of the last cd that the walk came to.

Three constructs record sentinels or nothing, as in the code: a body that does not parse
(`Unparsed`); a bare shell as the last stage of a pipeline (`CloseIntoShell`; the stages of
nested pipelines are one list, so a stage that is a pipeline again stands in braces); and a bare
shell anywhere else, `x | bash | y` or behind a wrapper, of which nothing is recorded
(`BareShell`). `Unvisited` stands for what `walkStmt` has no case for: time and coproc, `[[ ]]`,
and substitutions in assignments, redirects, the words of a for and the arguments of export.

## The runs

| Run | Instance | Checks |
|---|---|---|
| `store` | 4 hooks, 1 session, 1 command, TTL 2, clock to 2 | `TypeOK`, `SpentOnce`, `WithinTTL`, `AnnouncedNotLost` |
| `modes` | 3 hooks, 2 commands, a prefix of both, 3 settings, TTL 2, clock to 1, open and save may fail | `ModesTypeOK`, `LiveHonours`, `RiskyRunsOnlyApproved`, `AmbiguousRefused`, `NoCreditReturns`, `ImplementsLedger` |
| `power` | 3 hooks, 2 sessions, TTL 1, clock to 1, one failure of the power | `PowerTypeOK`, `TakenForGood`, `ApprovalsAreReal`, `RiskyRunsOnlyApproved` |
| `ends` | 3 hooks, fair, open, flock and save may fail | `HooksEnd` |
| `audit` | 6 writers, 2 at a time, 3 old files, renames may fail | `TypeOK`, `RotatedAreFullAlone`, `SizeBounded`, `DropsOldest` |
| `paths` | 10 file systems, 5 directories, 2 commands, 2 operands | `TypeOK`, `AllowedStaysInside`, `HomeStays`, `SharedRootsKept` |
| `config` | 5 link layouts by 16 sets of configurations, 6 directories, 10 trust lists | `TypeOK`, `UntrustedIsTold` |
| `calls` | every tool with up to 26 words, 4 words and 2 commands a call | `TypeOK`, `LossIsAsked`, `IntentKnown`, `AskPersists` |
| `unwrap` | 11 wrappers, a shell, find, a script that parses and one that does not, 5 words | `TypeOK`, `InnerIsRecorded`, `LoopShrinks` |
| `walk` | scripts of 4 nodes, depth 3, pipelines of 3 stages, 2 directories, a relative target | `TypeOK`, `ReadRunsRecorded`, `InItsDirectory` |
| `save_fails` | 4 hooks, save may fail | `SpentOnce` is violated |
| `config_extras` | the instance of `config` | `HonouredPathsCount` is violated |

* `SpentOnce`: two retries never pass on the same approval.
* `WithinTTL`: an approval is given within TTL of the block, and used within TTL of the
  approval, in the clock that each hook stamped.
* `AnnouncedNotLost`: what a hook has told the user or the model to be on file is still there,
  or expired, or was taken, or was overwritten by a later entry of the same kind.
* `RiskyRunsOnlyApproved`: a command that is always risky runs in an enforcing mode only on an
  approval that the user gave in the same session for a block of the same command. This holds
  whatever open and save do.
* `ImplementsLedger`: each rename of `state.json` is one step of `ApprovalLedger`, at a second
  in the past; nothing else changes the file. `Issued` and `Taken` of the ledger are computed
  from the processes.
* `AmbiguousRefused`: a prompt whose prefix matches two commands that were pending before the
  prompt approves neither.
* `NoCreditReturns`: an entry in the file has not been taken, and no two entries are the same
  credit.
* `HooksEnd`: under fairness every hook that begins ends.
* `LiveHonours`: an approval that has been announced is taken by a retry that is meant to be live,
  begins afterwards, can open the store and finds it due, whatever mode blocked the command and
  whatever else runs or fails.
* `TakenForGood`: an entry whose removal has been written back is in no state that a later
  failure can bring back. `ApprovalsAreReal`: a failure loses entries or brings old ones back,
  and makes no approval that the user has not given.
* `DropsOldest`, `RotatedAreFullAlone`: as long as hooks do not overlap in the audit, only a full
  file is moved, and, if no rename has failed either, only the oldest file is dropped, even after a
  kill in the middle of the cascade. `SizeBounded` holds with overlaps too, as long as no rename has
  failed. None of the three sees the rotation done twice by two hooks: it happens (see the
  premises).
* `AllowedStaysInside`: what an allowed call removes by a word of the plain form lies in a safe
  directory, over links in the middle of a word, dangling links and a preceding cd. `HomeStays`: by
  such a word it never removes the home directory or one above it, even if an extra safe path
  covers them. `SharedRootsKept`: nor a safe directory that it names, nor all entries of a shared
  one.
* `UntrustedIsTold`: the notice is given exactly for a configuration that is ignored for want of
  trust.
* `LossIsAsked`: a call in which a tool would destroy something, told in the plain form, is not
  allowed, in whatever command of the call, as long as some trigger stands in the text. The plain
  form leaves the other options, their order and their bundles open, but not the place of the
  verb nor the way in which the deciding value is given. `AskPersists`:
  more words do not withdraw a question, but for the words that the rules name as harmless.
  `IntentKnown`: every question finds its intent in the tables.
* `InnerIsRecorded`: behind wrappers with the options that the code knows and without the forms of
  `Odds`, the command that really runs is recorded, with its arguments and exactly its flags.
  `LoopShrinks`: every turn of the loop makes the command shorter, enters a script or ends it.
* `ReadRunsRecorded`: of what the shell runs, the walk records exactly what it reads, with exactly
  the flags (remote, chrooted, arguments from stdin) of what is around it, in whatever nest of
  constructs, copies and shared walkers. A bare shell elsewhere than at the end of a pipeline and
  the statements of `Unvisited` are what it does not read. `InItsDirectory`: a command that runs on
  this host is recorded with the directory it runs in whenever the shell has followed the last cd
  that the walk came to (course `followed`).

Bounds. One entry needs three hooks to live its life (block, approve, retry), and a second
retry makes four: `store` has the double use and the overwriting, `modes` and `power` are
about keys, commands, sessions and failures and need three. With TTL 2 and a clock to 2 an entry can be stamped, approved, and
expire at the boundary. In `audit` six writers with `Full = 1` fill every old name and drop one
file. Kills are unbounded. In
`paths` two operands show that one does not displace the other, two commands that one call has
one answer; each file system has at most one link, which points to a protected directory, the
home directory, another safe directory, a file, or nowhere. In `config` a configuration may stand in the
project, above it, or in both, with paths inside, outside, through links, missing or malformed;
the trust list may name a project by a link, or twice. In `calls` four words hold an
option with its value, a verb and an operand, or two commands of two words, which shows that one
command neither hides another nor its code. In `unwrap` five words nest up to five wrappers
around a command or hold one with two options and an operand. One failure of the power
falls at any point of the lives of a block, an approval and a retry. In `walk` four nodes are enough for
two nested constructs with a cd and a command, and for a cd and a command on both sides of the
end of a construct. Hooks are interchangeable, so the safety runs use symmetry; the
liveness run does not.

Fairness. `FairSpec` assumes `WF(Run(p))`: a process that has something to do is scheduled. It
assumes no error of `flock`, no kill, no tick and no new event. That suffices because a holder
of the lock is never blocked and a dead one is not a holder.

Deadlock is checked in every run; `Finished` is the state in which all processes are done.

### Findings

* `save_fails`: `consumeApproval` ignores the error of `mutateApprovalState`
  (`approval_state.go:99`) and answers true, so when the directory cannot be written a retry
  passes and the approval stays. `hooks_readme.md` promises one retry.
* `config_extras`: the list of forbidden roots begins with `/` and is compared by prefix
  (`config.go:171`), so no safe path of a project is ever admitted, while `config.go:82` says that
  a trusted and honoured project gets its own. So a project cannot widen the allowlist today, and
  what an admitted path would change is not a question the code poses.

### Premises of the properties

Some properties hold only under a premise that the code does not establish. Each premise is
written in the property or in a constant, and TLC finds a counterexample when it is dropped: each
form of `Form`, `Kind` and `Odds`, each course and each kind of call that is left out has states in
which the code does otherwise. Two rows are exceptions: in the form `refused` nothing runs, so there
is nothing to miss, and `--` behind a shell is not written. What the walk has no way to read is
in `ReadRunsRecorded` as such.

| Premise | Where | What the code does beyond it |
|---|---|---|
| flock works | `Faults` of `store`, `modes`, `power` | the error is dropped (`approval_state.go:121`) and hooks overwrite each other |
| a rename is on the disk | `durable` of `TakenForGood` | it is not synced (`approval_state.go:183`): after a power failure a spent approval may be back, so `SpentOnce` does not hold of `GuardHooksPower` |
| the settings spell their mode as the code reads it: the file in lower case, a variable not in spaces only | `SpelledAsRead`, `MCSettings` | `default = "Live"` blocks, tells how to approve, and no retry looks for the approval (`main.go:247`, `main.go:179`) |
| hooks do not overlap in the audit | `~crowded` of `RotatedAreFullAlone`, `DropsOldest` | the mutex is local to a process (`audit.go:45`): two hooks that both saw a full log rotate twice, a file far below the limit is moved and an old one is dropped early |
| no rename of the log has failed, but for a missing file | `~failed` of `DropsOldest`, `SizeBounded` | the error is dropped (`audit.go:78`): the next rename overwrites a file that stayed, and a current file that stays grows on |
| no two commands share a hash (SHA-256) | `DistinctHashes` | the store keeps one entry for both |
| no cd goes up from a directory reached over a link | `CdsAreDirect` | the code goes up from the real directory (`safe_paths.go:143`), a shell from the path as it is written |
| the home directory is no link and lies directly below `/`, `/home` or `/Users`; the only safe path above it is its parent | `HomeIsUsual` | with `/` among the safe paths of `config.toml`, `rm -rf /home/*` is allowed: the parent of the pattern is no safe path itself, and the exact list does not have the pattern (`safe_paths.go:193`) |
| no word begins with `~` | `Form`, `tilde` | nothing expands it, although `safe_paths.go:135` says that the parser does |
| no word goes up by `..` from a directory reached over a link | `Form`, `up` | `Clean` goes up in the text (`safe_paths.go:156`): `rm /tmp/l/../x` is judged as `/tmp/x`, and `rm -rf l/../u` may be allowed to remove the home directory |
| no word names a link that leads somewhere | `Form`, `link` | a final link is judged by what it points to (`safe_paths.go:175`), so a link in a protected directory may be removed when it points to a safe one |
| a trigger stands in the text | `visible` of `LossIsAsked` | a name with quotes or capitals inside is not found there (`main.go:351`) |
| no option before the verb has its value in the next word | `Kind`, `behind_value` | the value is taken for the verb (`rule_infra.go:252`), of git and gsutil and behind `terraform state` as well |
| the script of python is its first word | `Kind`, `behind_option` | only the first argument is looked at (`rule_supabase.go:57`) |
| the value that decides has its option in a word of its own or is glued to it | `Kind`, `in_bundle` | `curl -sX DELETE` and `psql -Atc SQL` are not read (`rule_infra.go:287`, `rule_db.go:80`) |
| one body of SQL, one method, one remote command | `Kind`, `repeated` | the first decides (`rule_db.go:80`) |
| no other option is one that the rule takes for a body | `Kind`, `misread` | `psql -e -c SQL`: the code reads `-e`, which echoes, as the body of mysql (`rule_db.go:82`) |
| curl is given its method | `Kind`, `implied` | `curl -d DATA URL` sends a POST, which the code does not ask about when no method is named (`rule_infra.go:161`) |
| wrappers have listed options | `odd`, `unlisted` | the value of another one is taken for the command (`unwrap.go:182`) |
| assignments stand directly behind env | `odd`, `assigned` | one behind sudo or behind `--` is taken for the command (`unwrap.go:57`) |
| `-c` is a word of its own before the script | `odd`, `bundle` | `-lc` is not read (`unwrap.go:295`) |
| env is used without `-S` | `odd`, `split` | the stripping ends and env is recorded (`unwrap.go:107`) |
| the script parses, and no `-c=` stands before it | `odd`, `refused` | the code records something, the shell runs nothing: on the safe side (`unwrap.go:298`, `parser.go:262`) |
| no `--` behind a shell | not written (`Terminator`) | it is taken for the script (`unwrap.go:295`) |
| find has no `-H`, `-L`, `-P` | `odd`, `front` | the test for them is never reached (`unwrap.go:356`), and the search counts as one of `.` |
| watch, parallel and flock are not used | `odd`, `blind` | they are in the list of executors (`main.go:370`) and have no handler |
| a bare shell is the last stage of a pipeline, without a wrapper or braces | `read` of `ReadRunsRecorded`, `BareShell` | only the rightmost stage is inspected (`parser.go:120`), and a shell without `-c` records nothing by itself (`parser.go:251`): `x \| bash \| y` is missed |
| statements have a case in `walkStmt`, substitutions stand in the words of a simple command | `read` of `ReadRunsRecorded`, `Unvisited` | time, coproc, `[[ ]]`, and substitutions in assignments, redirects, for-words and export are not walked (`parser.go:54-101`, `parser.go:363`) |
| the last cd has worked | `course`, `failed` and `skipped` | the walker takes its target all the same, also over \|\|, which the comment of `parser.go:65` denies |
| a relative cd is the first of the script | `course`, `joined` | the target replaces the directory instead of being joined (`parser.go:218`): after `cd /etc && cd ssh` the walker is in `ssh` below the hook's directory |
| the script moves by a cd with one literal target | `course`, `unread` | a bare cd (`parser.go:215`), one with a variable or glob (`parser.go:217`) and pushd are ignored; `cd -P /etc` goes to `-P` |
| no cd in a stage of a pipeline, a substitution, the background or an eval | `course`, `crossed` | the walker of the call is used for a substitution, a stage and the background, and a copy for eval (`parser.go:122`, `parser.go:202`) |

## The proofs

The theorems hold for every value of the constants that satisfies the `ASSUME`s: any number of
hooks, sessions, commands and prefixes, any hash function, any TTL, any modes; any number of
audit files and writers; scripts of any length and depth; file systems of any size and paths of
any length; any argument lists and tables; wrappers nested to any depth, with any options. "flock works" is the assumption `"flock" \notin Faults`;
opening and saving may fail and hooks may be killed at any point.

| Theorem | Statement | Assumes |
|---|---|---|
| `TypeCorrect` | `Spec => []TypeOK` of `GuardHooks` | nothing on faults |
| `CreditsInvariant`, `TracesInvariant` | `Spec => []CreditInv`, `Spec => []TraceInv` | flock works |
| `ApprovalSpentOnce` | `Spec => []SpentOnce` | flock works, saving does not fail |
| `UsedWithinTTL` | `Spec => []WithinTTL` | flock works |
| `RiskyOnlyApproved` | `Spec => []RiskyRunsOnlyApproved` | flock works |
| `AnnouncedEntriesKept` | `Spec => []AnnouncedNotLost` | flock works |
| `AmbiguousNeverApproved` | `Spec => []AmbiguousRefused` | flock works |
| `HooksImplementLedger` | `Spec => ImplementsLedger` | flock works |
| `NoCreditEverReturns` | `Spec => []NoCreditReturns` | flock works |
| `ModesImplementHooks` | `ModesSpec => Spec` | nothing on faults |
| `ModesTypeCorrect` | `ModesSpec => []ModesTypeOK` | nothing on faults |
| `LiveIsHonoured` | `ModesSpec => []LiveHonours` | flock works, `SpelledAsRead`, `DistinctHashes` |
| `ModesKeepPromises` | the ledger, no returning credit, risky and ambiguous commands, under `ModesSpec` | flock works |
| `PowerTypeCorrect` | `PowerSpec => []PowerTypeOK` | flock works |
| `WrittenBackIsGone` | `PowerSpec => []TakenForGood` | flock works |
| `FailuresMakeNoApproval` | `PowerSpec => []ApprovalsAreReal` | flock works |
| `RiskyOnlyApprovedAfterFailures` | `PowerSpec => []RiskyRunsOnlyApproved` | flock works |
| `AuditTypeCorrect` | `Spec => []TypeOK` of `AuditLog` | |
| `OnlyFullFilesAreMoved` | `Spec => []RotatedAreFullAlone` | the property is about hooks that do not overlap |
| `OldestIsDropped` | `Spec => DropsOldest` | the same, and renames that have not failed |
| `FilesStaySmall` | `Spec => []SizeBounded` | the property is about renames that have not failed |
| `RmTypeCorrect` | `Spec => []TypeOK` of `RmRule` | |
| `AllowedCallsStayInside` | `Spec => []AllowedStaysInside` | `CdsAreDirect`; the property is about words of the plain form |
| `SharedRootsAreKept` | `Spec => []SharedRootsKept` | the same |
| `HomeIsKept` | `Spec => []HomeStays` | the same, and `HomeIsUsual` |
| `ConfigTypeCorrect` | `Spec => []TypeOK` of `ProjectConfig` | |
| `UntrustedAreTold` | `Spec => []UntrustedIsTold` | |
| `AllowlistIsTheUsers` | the allowlist is the one without any project | |
| `WalkTypeCorrect` | `Spec => []TypeOK` of `ShellWalk` | |
| `ReadRunsAreRecorded` | `Spec => []ReadRunsRecorded` | the property says what is not read |
| `RunsInItsDirectory` | `Spec => []InItsDirectory` | the property is about the course `followed` |
| `UnwrapTypeCorrect` | `Spec => []TypeOK` of `Unwrap` | the assumptions on the tables |
| `LoopAlwaysShrinks` | `Spec => LoopShrinks` | the same |
| `InnerCommandRecorded` | `Spec => []InnerIsRecorded` | the same; the property is about commands without oddities |
| `CallTypeCorrect` | `Spec => []TypeOK` of `Pipeline` | |
| `EveryIntentKnown` | `Spec => []IntentKnown` | |
| `MoreWordsNeverWithdraw` | `Spec => AskPersists` | |
| `LossAlwaysAsked` | `Spec => []LossIsAsked` | the assumptions on the tables and words; the property is about plain forms |

`GuardHooks_proofs`. `TypeOK` alone is not inductive, since the closures read fields of a
request: `Inputs` says which request a hook has in which operation. `Locking` says that the
hooks between flock and unlock are the holder of the lock. So the file does not change between
a hook's load and its save, and `SavesCurrent` says that a hook about to save holds the outcome
of its closure on the file as it is now. Hence the rename removes the entry the hook took
(`Gone`) and adds none but the hook's own. `Written` and `Sources` say who wrote an entry: the
writer fixes its key, so an entry sits under one key and in one map only. Together they keep
`TakenOnce`: an entry that a hook took and saved away is nowhere in the file, so nobody takes it
again. Saving may fail in all this; what fails is only the step from `TakenOnce` to
`SpentOnce`, which needs that a hook that passes has saved (`PassSaves`). This is exactly the
finding of `save_fails`.

For `WithinTTL`, `Lives` ties the expiry of an entry to the second its writer stamped, and
`Stamps` says that a hook about to run its closure has stamped no earlier than the writer of
anything in the file. The latter needs the lock: the code reads the clock inside it, so the
writer had saved and unlocked before. For `RiskyRunsOnlyApproved`, `Provenance` follows what a
hook took back to the approval and the block it comes from, by `Written` and the fact that a
hook's key is that of its own session and command, and `Silences` says that a hook on an always
risky command gets to silence only over a taken approval.

`AnnouncedNotLost` speaks of an entry that may have been overwritten any number of times, so it is
not inductive. `Traced` is: some heir of the entry (the entry itself, or a later one of the same
kind under the same key) is in the file or was taken, unless a hook has stamped a second at which
the announced one had expired. A clean-up removes an heir only if it has expired at the stamp of the hook that
saves, and `Latest` says that between its look at the clock and its rename a hook is the last to
have looked; since an heir lives from a later stamp than the entry, the entry had expired
too. `Replies` says that what was announced was done. `AmbiguousRefused` rests on the same
traces: the entry of a command that was pending before the prompt, or its heir, is among the matches
that the closure finds in the file (`MatchFound`), unless somebody took it; so the closure does not
settle for another one.

The ledger. A step that leaves the file alone changes neither books
nor history: it maps to a stutter, or to `Pass` if the clock moves (`QuietStep`, `ClockStep`). A
rename maps to one step of the ledger: `SaveStep` splits on the operation and on what was taken and
shows that the new file is the one that `Offer`, `Grant`, `Spend` or `Forget` would make, with the
second the hook stamped, which `Stamps` puts no later than now. `CleanupExpires` matches the
clean-up with the ledger's `OnlyExpires`. `NoCreditReturns` follows from `Gone` and `Written`
(`CreditsKept`, `CreditsAfter`).

The settings. A step under settings is a step of `GuardHooks` or changes nothing of it
(`ModesStep`), so `ModesSpec` implements `Spec` and inherits its theorems. `LiveHonours` needs that
a hook that found no approval knows of none that is due (`Missings`). What it knows was announced
before it began (`Knows`); by the traces, each of these is in the file, was taken, has an heir or
has expired when the hook loads, and its closure takes whatever is there under its key.

The power. After a failure the file may be any state of `disk`, so what ties an entry to its writer
is stated of all of them (`Truths`). What says that an entry is gone is weaker: `Removals` has it
of the file for hooks that saved since the last failure, and of every state of the disk for
those that were written back. `Truths` alone is enough for `ApprovalsAreReal` and
`RiskyRunsOnlyApproved`.

`AuditLog_proofs`. `Ordered`: a lower name has a newer file, whoever renames what and when, because
a rename moves a file up by one. `Cascade`: as long as hooks do not overlap and no rename has failed,
a hook in the cascade finds the name above free, also when its predecessor was killed half way. `Bounded`: a
file that has reached the limit can still get one entry from each hook that is past its size check
(`Late`), and these are fewer than `MaxActive`, because the hook that filled it is done.

`Paths_proofs` has what the code's functions on paths do to paths of every length. `Clean` and
`Follow` are recursive functions, and the induction over a path goes by the least counterexample
(`Inductive`, `PathInduction`). What the theorems need: a directory or file is its own real path
(`Canonical`), without links a walk is the cleaned path (`WithoutLinks`), and a walk and a clean-up
go in two parts (`WalkJoined`, `CleanJoined`).

`RmRule_proofs`. All of it is about words of the plain form (`PlainHarm`). `Start`: where bash starts
a word there is a path without `..` that leads there and
that the code prepends in effect, after any cd. `SameParent`: the code cleans the operand behind that
path, the kernel walks it, and both come to the same directory. `Judged`: so what rm removes is
what `Resolved` returns, or, of a glob, an entry next to the pattern that it returns.
Then one lemma for each harm (`OutsideSeen`, `RootSeen`, `SweepSeen`, `HomeSeen`) says that
`Classify` has a concern about the word. The inductive invariant `Answered` carries it on: a harm of
the call is matched by a decision, or by the worst concern of the command still being read, which
no later operand takes back.

`ProjectConfig_proofs`. The trust test compares real paths, and a path that does not exist is
compared as it is written; `SameEntries` shows that this equals a comparison of what the paths
lead to, since the root of a configuration exists and is its own real path. The rest is the
finding of `config_extras` for every world: no path is admitted (`NothingAdmitted`), hence
`AllowlistIsTheUsers`. Should the filter be repaired, what a project may add needs a property and a
proof of its own.

`ShellWalk_proofs`. `Owner` says which walker of the stack is at work in which frame; with it the
flags of a construct are those of all constructs around it (`Contexts`), and what a copy has seen is
handed over when it ends. For the directory, `Here` says that the walker at work is where the
shell is whenever the shell has followed the last cd, and `Below` the same of every walker
outside a construct, when a copy of it went on or no cd stands inside. `StillHere` and
`StillAbove` say that nothing moves in a construct without a cd that reaches it, and `Outward` that
a cd marks every construct out to the one that seals it off. So a construct that is left either
gives both their directory back, or had a cd inside that gives it the course `crossed`.

`Unwrap_proofs`. The loop reads words back that were written one by one, so the invariant has two
halves. `Written` speaks of the writing. `P` is the set of places where a program's name stands.
Every layer but the last is `Complete`: the scan behind that name has stopped, and the next
program begins where `LayerOf` ends. Of the last program it says how far its reader has come and
that the scan has come as far: it awaits a value if and only if the tool does, and it has stopped
if and only if the tool reads no more options (`ReadsWrapper`; `ReadsShell`, `ReadsFind` and
`ReadsOther` for the others). A word that is written leaves a scan that has stopped as it
was (`ScanAppend`, `StopKept`), so complete layers stay complete. `Turns` speaks of the loop: at each
turn what is left begins at a place of `P`, and the context is the flags of all wrappers in front of
it (`AtLayer`), or the script of the last shell is being read (`InScript`). A turn goes from one
place to the next (`NextLayer`, `AroundNext`), and at the last the readers know what to
record. `env -S` and `-c=` are turns too; a command without oddities has neither (`EnvSplitTurns`,
`NoEquals`). `Scan` is a recursive function; what it does on sequences of every length goes by
induction on sets of numbers (`AllNumbers`). `LoopShrinks` needs less: that a layer has at
least one word (`LayerType`).

`Pipeline_proofs`. A rule reads the first word of a kind, the value behind an option, or whether some
word is there. One more word at the end leaves the first of a kind where it is, unless there was
none, and takes no word away; from such lemmas on every helper of `Argv` follows that each rule of
`ArgRules` that gave a code still gives one (`CodeKept`) and that a code begins with an entry of the
tables (`CodeKnown`). `LossAlwaysAsked` compares two readers of one line, the rule and the
tool. `LossIsAsked` alone says nothing of a command under way, so `LossInv` adds what getopt has
read of it (`LineRead`): an option is a word of the line or a letter of a bundle in it
(`OptionsRead`), operands stand there in their order (`OperandsRead`), a value is one
that the code finds at the place of its option, unless a bundle hides it (`ValuesRead`, `Hidden`), git has read every option on
the line but paths (`GitRead`), and the first operand is the first word that does not look like an
option, unless an option took a value before it (`FirstRead`, `Early`); the same for the second
behind `state` or `stash` (`SecondRead`, `Late`). Each is kept by one more word, which getopt
takes as a value, as `--`, as an option or as an operand (`ReadSteps`). What the plain form means for
the line is `PlainForm`; from it and the whole of `LineRead` follows for every tool that its rule has a code (`GitLoss`, `VerbLoss`, `CloudLoss`, `SqlLoss`,
`MigrationLoss`, together `LossCode`). `Read` is a recursive function; that it exists and grows by
one word goes by `AllNumbers`.

TLC checked each inductive invariant on small instances, with failing calls and two sessions or
two commands where there are any, before it was proved. A premise that is a property of the constants
(`CdsAreDirect`, `HomeIsUsual`) is an `ASSUME` of the instance of TLC, which so has
states for it.

Model-checked only: `HooksEnd`, since liveness is out of the prover's reach.

## Not modelled

* Of the store: a `state.json` changed by other programs, a clock that is set back, the temporary
  files left by killed hooks, the deletion of the state directory, and the missing session id.
* Of the file system: a cd that fails in `RmRule`, wildcards other than `*` as a whole name, and
  any change between the hook and the command; the code looks once.
* Of the parser: loops and case, whose parts the walk takes like a block, once, so a cd at the end of
  a loop's body is not seen at its beginning; functions, whose bodies the walk takes where they are
  declared and not where they are called; `flattenWord`, which joins the parts of a word, and the offsets of
  `span.go`; applets of busybox. A call that mixes rm with the argument rules is in no single
  model: the decisions of a command depend on no other.
* Of the configuration: `rules.disabled`, `catastrophic_paths.extra` and
  `honor_catastrophic_overrides`, which are read by nothing, and what a TOML file with a type
  error in the middle leaves filled in.
* Of the rules: the details of the regular expressions (a body of SQL or a host matches or does
  not) and the full length of the lists.
* The wording of every message and of the intents; build, launcher, agents and skills.

## State of the plan

Done: the store with its processes, modes and power failures, the ledger and the proof that it
is implemented, the audit log, paths and configuration, all rules, aggregation and intents, the
walk and the wrappers. Proved: every safety and action property that a run
expects to hold. What a continuation would take up: the loops of `ShellWalk`, the composition of
`ShellWalk`, `Unwrap` and the rules over one script, and the audit log as the last step of
`GuardHooks`.

State-space budget: every run ends within two and a half minutes on two workers.
