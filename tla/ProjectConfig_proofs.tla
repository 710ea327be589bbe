------------------------ MODULE ProjectConfig_proofs ------------------------
(***************************************************************************)
(* What the configuration of a project can do to the allowlist, and when   *)
(* the user is told that it is ignored.                                    *)
(*                                                                         *)
(* The list of isCatastrophicByPrefix holds "/", so no safe path of a      *)
(* project is ever admitted, in no tree and for no configuration.  The     *)
(* notice takes an argument of its own: the code compares real paths, also *)
(* those that it could not resolve.                                        *)
(***************************************************************************)
EXTENDS ProjectConfig, Paths_proofs

Words == [abs : BOOLEAN, names : Path, slash : BOOLEAN]

-----------------------------------------------------------------------------
(* The trust list.                                                         *)

\* The first entry that passes a test.
LEMMA FirstEntry ==
  ASSUME NEW n \in Nat, NEW Passed \in SUBSET (1..n)
  PROVE  /\ Passed # {} => Min(Passed) \in Passed
         /\ (IF Passed # {} THEN Min(Passed) ELSE 0) # 0 <=> Passed # {}
  <1>1. ASSUME Passed # {} PROVE Min(Passed) \in Passed
    <2>1. Passed \in SUBSET Nat
      OBVIOUS
    <2>2. \E m \in Passed : \A k \in Passed : m <= k
      BY <1>1, <2>1, LeastNat
    <2> QED
      BY <2>2 DEF Min
  <1> QED
    BY <1>1

\* The entries that the code takes for the project, and those that really are.
SameRoots == {i \in 1..Len(env.trust) : SameRoot(env.trust[i])}

SamePlaces ==
  {i \in 1..Len(env.trust) : Follow(env.fs, Root, env.trust[i].root) = Follow(env.fs, Root, at)}

First(entries) == IF entries # {} THEN Min(entries) ELSE 0

LEMMA Entries ==
  /\ SelectInSeq(env.trust, SameRoot) = First(SameRoots)
  /\ Entry = First(SamePlaces)
  BY DEF SelectInSeq, SameRoots, SamePlaces, First, Entry

\* A path that does not exist is compared as it is written, but never equals
\* the real root of a project.
LEMMA SameEntries ==
  ASSUME env.fs \in Worlds, env.trust \in Trusts, at \in Path, HasConfig(at),
         root = Realpath(env.fs, at)
  PROVE  /\ SelectInSeq(env.trust, SameRoot) = Entry
         /\ Entry # 0 => Entry \in 1..Len(env.trust) /\ env.trust[Entry].honour \in BOOLEAN
  <1> DEFINE fs == env.fs
  <1>1. WellFormed(fs) /\ DOMAIN fs.configs \subseteq fs.dirs
    BY ConfigAssumption
  <1>2. Follow(fs, Root, at) \in fs.dirs /\ Follow(fs, Root, at) # Missing
    <2>1. Follow(fs, Root, at) \in fs.dirs
      BY <1>1 DEF HasConfig
    <2>2. Missing \notin fs.dirs
      BY <1>1, TreeFacts DEF Places
    <2> QED
      BY <2>1, <2>2
  <1>3. root = Follow(fs, Root, at)
    BY <1>1, <1>2, RealpathFacts
  <1>4. env.trust \in Seq([root : Path, honour : BOOLEAN])
    BY ConfigAssumption
  <1>5. \A i \in 1..Len(env.trust) : env.trust[i].root \in Path /\ env.trust[i].honour \in BOOLEAN
    <2>1. \A i \in 1..Len(env.trust) : env.trust[i] \in [root : Path, honour : BOOLEAN]
      BY <1>4, ElementOfSeq
    <2> QED
      BY <2>1
  <1>6. ASSUME NEW path \in Path
        PROVE  Realpath(fs, path) = root <=> Follow(fs, Root, path) = Follow(fs, Root, at)
    <2>1. CASE Follow(fs, Root, path) = Missing
      <3>1. Realpath(fs, path) = path
        BY <1>1, <2>1, RealpathFacts
      <3>2. path # root
        BY <1>1, <1>2, <1>3, <2>1, Canonical DEF Places
      <3> QED
        BY <1>2, <2>1, <3>1, <3>2
    <2>2. CASE Follow(fs, Root, path) # Missing
      BY <1>1, <1>3, <2>2, RealpathFacts
    <2> QED
      BY <2>1, <2>2
  <1>7. SameRoots = SamePlaces
    BY <1>5, <1>6 DEF SameRoots, SamePlaces, SameRoot
  <1>8. SelectInSeq(env.trust, SameRoot) = Entry
    BY <1>7, Entries
  <1>9. ASSUME Entry # 0 PROVE Entry \in 1..Len(env.trust)
    <2>1. Len(env.trust) \in Nat /\ SamePlaces \in SUBSET (1..Len(env.trust))
      BY <1>4 DEF SamePlaces
    <2> QED
      BY <1>9, <2>1, Entries, FirstEntry DEF First
  <1> QED
    BY <1>5, <1>8, <1>9

-----------------------------------------------------------------------------
(* The invariant.                                                          *)

\* Where the search stands, and that a root is the real path of what it found.
Searched ==
  /\ at \in Path
  /\ phase \in {"find"} => root = NoRoot
  /\ phase \in {"trust", "read", "admit"} => root # NoRoot
  /\ root # NoRoot => HasConfig(at) /\ root = Realpath(env.fs, at)

\* The notice says what the trust list really says.
Noticed ==
  /\ phase \in {"find", "trust"} => ~notice
  /\ phase \in {"read", "admit"} => ~notice /\ Entry # 0
  /\ phase \in {"build", "done"} => (notice <=> root # NoRoot /\ Entry = 0)

\* No safe path is admitted.
Refused ==
  /\ left \in Seq(Words)
  /\ extras = {}
  /\ phase = "done" => sp = Without

IInv == TypeOK /\ Searched /\ Noticed /\ Refused

\* A path of a configuration lies below "/", which is in the list.
LEMMA NothingAdmitted ==
  ASSUME NEW word \in Words, root \in Path, WellFormed(env.fs)
  PROVE  ~Admitted(Target(word))
  <1>1. (IF word.abs THEN word.names ELSE root \o word.names) \in Path
    BY Joined DEF Words
  <1>2. Target(word) \in Path
    BY <1>1, Cleaned, RealpathFacts DEF Target
  <1>3. Inside(Target(word), Root)
    BY <1>2, RootIsPath, InsideFacts
  <1> QED
    BY <1>3 DEF Admitted, CatastrophicByPrefix

LEMMA InitKept ==
  ASSUME Init
  PROVE  IInv
  <1>1. PICK fs \in Worlds, cwd \in Cwds, trust \in Trusts, global \in Globals :
          env = [fs |-> fs, cwd |-> cwd, trust |-> trust, global |-> global]
    BY DEF Init
  <1>2. env.fs \in Worlds /\ env.cwd \in Cwds /\ env.trust \in Trusts /\ at \in Path /\ at = env.cwd
    BY <1>1, ConfigAssumption DEF Init
  <1>3. IsPrefix(at, env.cwd)
    BY <1>2, InsideFacts DEF Inside
  <1>4. TypeOK
    BY <1>2, <1>3 DEF Init, TypeOK
  <1>5. <<>> \in Seq(Words)
    OBVIOUS
  <1> QED
    BY <1>2, <1>4, <1>5 DEF Init, IInv, Searched, Noticed, Refused

\* The names that the search has not yet gone up.
LEMMA GoneUp ==
  ASSUME NEW path \in Path, NEW whole \in Path, IsPrefix(path, whole)
  PROVE  Parent(path) \in Path /\ IsPrefix(Parent(path), whole)
  <1>1. CASE path = Root
    BY <1>1 DEF Parent
  <1>2. CASE path # Root
    <2>1. PICK front \in Path, name \in Name : path = Append(front, name)
      BY <1>2, Ends, RootIsPath
    <2>2. Parent(path) = front
      BY <2>1, Longer
    <2>3. Inside(path, front)
      BY <2>1, InsideFacts
    <2>4. Inside(whole, front)
      BY <2>3, InsideInside DEF Inside
    <2> QED
      BY <2>2, <2>4 DEF Inside
  <1> QED
    BY <1>1, <1>2

\* The allowlist of a hook that is done is not the empty one of the others.
LEMMA SomethingSafe ==
  ASSUME NEW paths
  PROVE  NewSafePaths(env.fs, env.cwd, paths) # NoPaths
  <1>1. PICK dir \in Scratch : TRUE
    BY ConfigAssumption
  <1>2. Realpath(env.fs, dir) \in NewSafePaths(env.fs, env.cwd, paths).dirs
    BY <1>1 DEF NewSafePaths
  <1> QED
    BY <1>2 DEF NoPaths

-----------------------------------------------------------------------------
(* The steps.                                                              *)

LEMMA FindKept ==
  ASSUME IInv, Find
  PROVE  IInv'
  <1>1. at \in Path /\ env.cwd \in Path /\ IsPrefix(at, env.cwd)
    BY ConfigAssumption DEF IInv, TypeOK, Searched
  <1>2. Parent(at) \in Path /\ IsPrefix(Parent(at), env.cwd)
    BY <1>1, GoneUp
  <1>3. WellFormed(env.fs) /\ DOMAIN env.fs.configs \subseteq env.fs.dirs
    BY ConfigAssumption DEF IInv, TypeOK
  <1>4. UNCHANGED <<env, honoured, left, extras, notice, sp>> /\ phase = "find" /\ root = NoRoot
    BY DEF Find, IInv, Searched
  <1>5. CASE HasConfig(at) /\ phase' = "trust" /\ root' = Realpath(env.fs, at) /\ UNCHANGED at
    <2>1. Follow(env.fs, Root, at) \in env.fs.dirs
      BY <1>3, <1>5 DEF HasConfig
    <2>2. root' = Follow(env.fs, Root, at)
      BY <1>1, <1>3, <1>5, <2>1, TreeFacts, RealpathFacts DEF Places
    <2>3. root' \in env.fs.dirs /\ root' # NoRoot
      BY <1>3, <2>1, <2>2, TreeFacts, ConfigAssumption DEF Places
    <2>4. TypeOK'
      BY <1>4, <1>5, <2>3 DEF IInv, TypeOK
    <2>5. Searched'
      BY <1>1, <1>4, <1>5, <2>3 DEF Searched, HasConfig
    <2>6. Noticed'
      BY <1>4, <1>5 DEF IInv, Noticed
    <2>7. Refused'
      BY <1>4, <1>5 DEF IInv, Refused
    <2> QED
      BY <2>4, <2>5, <2>6, <2>7 DEF IInv
  <1>6. CASE /\ ~HasConfig(at)
             /\ phase' = (IF at = Root THEN "build" ELSE "find") /\ at' = Parent(at) /\ UNCHANGED root
    <2>1. TypeOK'
      BY <1>2, <1>4, <1>6 DEF IInv, TypeOK
    <2>2. Searched'
      BY <1>2, <1>4, <1>6 DEF Searched
    <2>3. Noticed'
      BY <1>4, <1>6 DEF IInv, Noticed
    <2>4. Refused'
      BY <1>4, <1>6 DEF IInv, Refused
    <2> QED
      BY <2>1, <2>2, <2>3, <2>4 DEF IInv
  <1> QED
    BY <1>5, <1>6 DEF Find

LEMMA SameEntry ==
  ASSUME UNCHANGED <<env, at>>
  PROVE  Entry' = Entry
  BY DEF Entry, SelectInSeq

LEMMA TrustKept ==
  ASSUME IInv, Trust
  PROVE  IInv'
  <1>1. /\ phase = "trust" /\ root # NoRoot /\ ~notice /\ HasConfig(at) /\ at \in Path
        /\ root = Realpath(env.fs, at) /\ env.fs \in Worlds /\ env.trust \in Trusts
    BY DEF Trust, IInv, TypeOK, Searched, Noticed
  <1>2. /\ SelectInSeq(env.trust, SameRoot) = Entry
        /\ Entry # 0 => env.trust[Entry].honour \in BOOLEAN
    BY <1>1, SameEntries
  <1>3. /\ UNCHANGED <<env, at, root, left, extras, sp>>
        /\ \/ Entry = 0 /\ notice' = TRUE /\ phase' = "build" /\ UNCHANGED honoured
           \/ Entry # 0 /\ honoured' = env.trust[Entry].honour /\ phase' = "read" /\ UNCHANGED notice
    BY <1>2 DEF Trust
  <1>4. Entry' = Entry
    BY <1>3, SameEntry
  <1>5. TypeOK'
    <2>1. honoured' \in BOOLEAN /\ notice' \in BOOLEAN
      <3>1. honoured \in BOOLEAN /\ notice \in BOOLEAN
        BY DEF IInv, TypeOK
      <3> QED
        BY <1>2, <1>3, <3>1
    <2>2. phase' \in {"build", "read"} /\ left' = <<>> /\ (notice' => phase' = "build") /\ sp = NoPaths
      BY <1>1, <1>3 DEF IInv, TypeOK
    <2> QED
      BY <1>1, <1>3, <2>1, <2>2 DEF IInv, TypeOK, NoPaths
  <1>6. Searched'
    BY <1>1, <1>3 DEF Searched, HasConfig
  <1>7. Noticed'
    BY <1>1, <1>3, <1>4 DEF Noticed
  <1>8. Refused'
    BY <1>1, <1>3 DEF IInv, Refused
  <1> QED
    BY <1>5, <1>6, <1>7, <1>8 DEF IInv

LEMMA ReadKept ==
  ASSUME IInv, Read
  PROVE  IInv'
  <1>1. /\ phase = "read" /\ root # NoRoot /\ ~notice /\ Entry # 0 /\ HasConfig(at) /\ at \in Path
        /\ root = Realpath(env.fs, at) /\ env.fs \in Worlds
    BY DEF Read, IInv, TypeOK, Searched, Noticed
  <1>2. /\ UNCHANGED <<env, at, root, honoured, extras, notice, sp>>
        /\ \/ phase' = "build" /\ UNCHANGED left
           \/ /\ env.fs.configs[root] # Malformed
              /\ phase' = "admit" /\ left' = env.fs.configs[root]
    BY DEF Read
  <1>3. root \in DOMAIN env.fs.configs
    <2>1. Follow(env.fs, Root, at) \in DOMAIN env.fs.configs
      BY <1>1 DEF HasConfig
    <2>2. WellFormed(env.fs) /\ DOMAIN env.fs.configs \subseteq env.fs.dirs
      BY <1>1, ConfigAssumption
    <2>3. Follow(env.fs, Root, at) # Missing
      BY <2>1, <2>2, TreeFacts DEF Places
    <2> QED
      BY <1>1, <2>1, <2>2, <2>3, RealpathFacts
  <1>4. env.fs.configs[root] \in Seq(Words) \cup {Malformed}
    BY <1>1, <1>3, ConfigAssumption DEF Words
  <1>5. Entry' = Entry
    BY <1>2, SameEntry
  <1>6. TypeOK'
    BY <1>1, <1>2 DEF IInv, TypeOK
  <1>7. Searched'
    BY <1>1, <1>2 DEF Searched, HasConfig
  <1>8. Noticed'
    BY <1>1, <1>2, <1>5 DEF Noticed
  <1>9. Refused'
    BY <1>2, <1>4 DEF IInv, Refused
  <1> QED
    BY <1>6, <1>7, <1>8, <1>9 DEF IInv

LEMMA AdmitKept ==
  ASSUME IInv, Admit
  PROVE  IInv'
  <1>1. /\ phase = "admit" /\ root # NoRoot /\ ~notice /\ Entry # 0 /\ HasConfig(at) /\ at \in Path
        /\ root = Realpath(env.fs, at) /\ env.fs \in Worlds /\ left \in Seq(Words) /\ extras = {}
    BY DEF Admit, IInv, TypeOK, Searched, Noticed, Refused
  <1>2. WellFormed(env.fs) /\ root \in Path
    BY <1>1, ConfigAssumption, RealpathFacts
  <1>3. UNCHANGED <<env, at, root, honoured, notice, sp>>
    BY DEF Admit
  <1>4. /\ phase' \in {"admit", "build"} /\ left' \in Seq(Words) /\ extras' = {}
        /\ phase' = "build" => left' = <<>>
    <2>1. CASE left = <<>>
      BY <1>1, <2>1 DEF Admit
    <2>2. CASE left # <<>>
      <3>1. Head(left) \in Words /\ Tail(left) \in Seq(Words)
        BY <1>1, <2>2
      <3>2. ~Admitted(Target(Head(left)))
        BY <1>2, <3>1, NothingAdmitted
      <3>3. extras' = extras \cup {path \in {Target(Head(left))} : Admitted(path)}
        BY <2>2 DEF Admit
      <3> QED
        BY <1>1, <2>2, <3>1, <3>2, <3>3 DEF Admit
    <2> QED
      BY <2>1, <2>2
  <1>5. Entry' = Entry
    BY <1>3, SameEntry
  <1>6. TypeOK'
    BY <1>1, <1>3, <1>4 DEF IInv, TypeOK
  <1>7. Searched'
    BY <1>1, <1>3, <1>4 DEF Searched, HasConfig
  <1>8. Noticed'
    BY <1>1, <1>3, <1>4, <1>5 DEF Noticed
  <1>9. Refused'
    BY <1>3, <1>4 DEF Refused
  <1> QED
    BY <1>6, <1>7, <1>8, <1>9 DEF IInv

LEMMA BuildKept ==
  ASSUME IInv, Build
  PROVE  IInv'
  <1>1. /\ phase = "build" /\ phase' = "done" /\ extras = {}
        /\ UNCHANGED <<env, at, root, honoured, left, extras, notice>>
        /\ sp' = NewSafePaths(env.fs, env.cwd, env.global \cup extras)
    BY DEF Build, IInv, Refused
  <1>2. sp' = Without /\ Without' = Without
    <2>1. env.global \cup extras = env.global
      BY <1>1
    <2> QED
      BY <1>1, <2>1 DEF Without
  <1>3. sp' # NoPaths
    BY <1>2, SomethingSafe DEF Without
  <1>4. Entry' = Entry
    BY <1>1, SameEntry
  <1>5. TypeOK'
    BY <1>1, <1>3 DEF IInv, TypeOK, NoPaths
  <1>6. Searched'
    BY <1>1 DEF IInv, Searched, HasConfig
  <1>7. Noticed'
    BY <1>1, <1>4 DEF IInv, Noticed
  <1>8. Refused'
    BY <1>1, <1>2 DEF IInv, Refused
  <1> QED
    BY <1>5, <1>6, <1>7, <1>8 DEF IInv

LEMMA StepKept ==
  ASSUME IInv, [Next]_vars
  PROVE  IInv'
  <1>1. CASE UNCHANGED vars
    <2>1. UNCHANGED <<env, at, root, left, extras, notice, sp, phase, honoured>>
      BY <1>1 DEF vars
    <2>2. Entry' = Entry
      BY <2>1, SameEntry
    <2>3. TypeOK' /\ Searched'
      BY <2>1 DEF IInv, TypeOK, Searched, HasConfig
    <2>4. Noticed' /\ Refused'
      BY <2>1, <2>2 DEF IInv, Noticed, Refused, Without
    <2> QED
      BY <2>3, <2>4 DEF IInv
  <1> QED
    BY <1>1, FindKept, TrustKept, ReadKept, AdmitKept, BuildKept DEF Next, Finished

-----------------------------------------------------------------------------
(* Theorems.                                                               *)

LEMMA Kept == Spec => []IInv
  BY InitKept, StepKept, PTL DEF Spec

\* Every variable keeps its type, whatever the trees, the configurations and
\* the trust lists.
THEOREM ConfigTypeCorrect == Spec => []TypeOK
  <1>1. IInv => TypeOK
    BY DEF IInv
  <1> QED
    BY <1>1, Kept, PTL

\* The allowlist is the one of the user alone: no configuration of a project
\* ever adds to it, trusted or not (config.go:135).
THEOREM AllowlistIsTheUsers == Spec => [](phase = "done" => sp = Without)
  <1>1. IInv => (phase = "done" => sp = Without)
    BY DEF IInv, Refused
  <1> QED
    BY <1>1, Kept, PTL

\* The notice is given for the configuration that the search found and that
\* no entry of the trust list really names, over whatever links the entries
\* and the cwd lead (UntrustedIsTold: config.go:88, 99).
THEOREM UntrustedAreTold == Spec => []UntrustedIsTold
  <1>1. IInv => UntrustedIsTold
    BY DEF IInv, Noticed, UntrustedIsTold
  <1> QED
    BY <1>1, Kept, PTL

=============================================================================
