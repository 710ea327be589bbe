---------------------------- MODULE RmRule_proofs ----------------------------
(***************************************************************************)
(* What an allowed call of rm cannot do by words of the plain form, for    *)
(* every file system, allowlist, number of commands and words of any       *)
(* length.  The code allows more by the other forms (RmRule!Form).         *)
(***************************************************************************)
EXTENDS RmRule, Paths_proofs

-----------------------------------------------------------------------------
(* Resolved: where an operand leads.                                       *)

\* The entry that a walk finds behind a directory is the one the code finds.
LEMMA ResolvedBelow ==
  ASSUME NEW fs, WellFormed(fs), NEW path \in Path, NEW name \in Name, NEW slash,
         NEW dir \in Places(fs), Follow(fs, Root, path) = dir
  PROVE  /\ Step(fs, dir, name) # Missing
              => Resolved(fs, Append(path, name), slash) = Step(fs, dir, name)
         /\ Step(fs, dir, name) = Missing
              => Resolved(fs, Append(path, name), slash) = Append(dir, name)
         /\ Realpath(fs, Parent(Append(path, name))) = dir
  <1> DEFINE below == Append(dir, name)
             place == Step(fs, dir, name)
  <1>1. dir \in Path /\ below \in Path /\ dir # Missing
    BY TreeFacts, Longer
  <1>2. Follow(fs, Root, below) = place
    BY <1>1, Canonical, FollowAppend
  <1>3. Realpath(fs, Parent(Append(path, name))) = dir
    BY <1>1, Longer, RealpathFacts
  <1>4. place # Missing => Realpath(fs, below) = place /\ Realpath(fs, place) = place
    <2>1. place \in Places(fs) \cup {Missing}
      BY StepFacts
    <2> QED
      BY <1>1, <1>2, <2>1, TreeFacts, RealpathFacts
  <1>5. place = Missing => Realpath(fs, below) = below
    BY <1>1, <1>2, RealpathFacts
  <1>6. Append(path, name) # Root /\ Last(Append(path, name)) = name
    BY Longer, RootIsPath
  <1>7. Resolved(fs, Append(path, name), slash)
          = Realpath(fs, IF slash THEN Realpath(fs, below) ELSE below)
    BY <1>3, <1>6 DEF Resolved
  <1> HIDE DEF below, place
  <1>8. /\ place # Missing => Resolved(fs, Append(path, name), slash) = place
        /\ place = Missing => Resolved(fs, Append(path, name), slash) = below
    BY <1>4, <1>5, <1>7
  <1> QED
    BY <1>3, <1>8 DEF below, place

LEMMA ResolvedWhole ==
  ASSUME NEW fs, WellFormed(fs), NEW path \in Path, NEW slash, Follow(fs, Root, path) # Missing
  PROVE  Resolved(fs, path, slash) = Follow(fs, Root, path)
  <1>1. CASE path = Root
    BY <1>1, FollowNothing, RootIsPath DEF Resolved
  <1>2. CASE path # Root
    <2>1. PICK front \in Path, name \in Name : path = Append(front, name)
      BY <1>2, Ends, RootIsPath
    <2> DEFINE dir == Follow(fs, Root, front)
    <2>2. dir \in Places(fs)
      BY <2>1, PassesDirs, TreeFacts DEF Places
    <2>3. Follow(fs, Root, path) = Step(fs, dir, name)
      BY <2>1, FollowAppend
    <2> QED
      BY <2>1, <2>2, <2>3, ResolvedBelow
  <1> QED
    BY <1>1, <1>2

\* The code cleans the operand behind a directory, the kernel walks through it:
\* the parents are the same, unless a link is gone up from.
LEMMA SameParent ==
  ASSUME NEW fs, WellFormed(fs), NEW base \in Path, ~GoesUp(base), NEW front \in Path, NEW name \in Name,
         NEW from, Follow(fs, Root, base) = from,
         ~UpFromLink(fs, base, Append(front, name)),
         NEW dir \in Places(fs), Follow(fs, from, front) = dir
  PROVE  /\ name # ".." => \E path \in Path : /\ Clean(base \o Append(front, name)) = Append(path, name)
                                              /\ Follow(fs, Root, path) = dir
         /\ name = ".." => Clean(base \o Append(front, name)) = Parent(dir)
  <1> DEFINE path == Clean(base \o front)
  <1>1. /\ base \o front \in Path /\ path \in Path
        /\ base \o Append(front, name) = Append(base \o front, name)
    BY Joined, Cleaned
  <1>2. Clean(base \o Append(front, name)) = Enter(path, name)
    BY <1>1, CleanAppend
  <1>3. Follow(fs, Root, base \o front) = dir /\ dir # Missing
    BY WalkJoined, TreeFacts
  <1>4. ~UpFromLink(fs, base, front) /\ (name = ".." => dir = path)
    BY <1>3, UpAppend
  <1>5. Follow(fs, Root, path) = dir
    BY <1>3, <1>4, CleanAgrees
  <1> QED
    BY <1>1, <1>2, <1>4, <1>5 DEF Enter

-----------------------------------------------------------------------------
(* Where a word starts, and what it removes.                               *)

\* The path of a word as the code writes it, before it resolves links.
Written(word) == Clean(IF word.abs THEN word.names ELSE StartOf(sp, cd) \o word.names)

\* What is true of the state whenever a word is read.
Reading ==
  /\ env.fs \in Worlds /\ env.cwd \in Cwds /\ cd \in Cds \cup {NoCd}
  /\ Realpath(env.fs, env.cwd) \in env.fs.dirs
  /\ \E extra \in Extras : sp = NewSafePaths(env.fs, env.cwd, extra)

LEMMA ReadingFacts ==
  ASSUME Reading
  PROVE  /\ WellFormed(env.fs) /\ env.cwd \in Path /\ ~GoesUp(env.cwd)
         /\ sp.cwd = Realpath(env.fs, env.cwd) /\ sp.cwd \in env.fs.dirs /\ sp.cwd \in Path
         /\ sp.own = IF IsCwdRoot(env.fs, sp.cwd) THEN {} ELSE {sp.cwd}
         /\ sp.dirs \subseteq Path /\ sp.own \subseteq sp.dirs
         /\ cd # NoCd => cd \in Cds /\ cd.names \in Path
  <1>1. PICK extra \in Extras : sp = NewSafePaths(env.fs, env.cwd, extra)
    BY DEF Reading
  <1>2. /\ WellFormed(env.fs) /\ env.cwd \in Path /\ ~GoesUp(env.cwd)
        /\ cd # NoCd => cd \in Cds /\ cd.names \in Path
        /\ Scratch \cup extra \subseteq Path
    BY RmAssumption DEF Reading
  <1>3. /\ sp.cwd = Realpath(env.fs, env.cwd)
        /\ sp.own = IF IsCwdRoot(env.fs, sp.cwd) THEN {} ELSE {sp.cwd}
        /\ sp.dirs = sp.own \cup {Realpath(env.fs, dir) : dir \in Scratch \cup extra}
    BY <1>1 DEF NewSafePaths
  <1>4. \A dir \in Scratch \cup extra : Realpath(env.fs, dir) \in Path
    BY <1>2, RealpathFacts
  <1>5. sp.cwd \in Path /\ sp.cwd \in env.fs.dirs
    BY <1>2, <1>3, RealpathFacts DEF Reading
  <1>6. sp.dirs \subseteq Path
    BY <1>3, <1>4, <1>5
  <1> QED
    BY <1>2, <1>3, <1>5, <1>6

\* The words that say where they lead: the shell leaves them alone and no link
\* is gone up from.
Direct(word) == ~Tilde(word) /\ ~UpFromLink(env.fs, WordBase(word), word.names)

LEMMA StartPlace ==
  ASSUME Reading, NEW word, ShellStart(word) # Missing
  PROVE  ShellStart(word) \in Places(env.fs)
  <1>1. /\ WellFormed(env.fs) /\ env.cwd \in Path
        /\ cd # NoCd => cd \in Cds /\ cd.names \in Path
    BY ReadingFacts
  <1>2. Root \in Places(env.fs) /\ Home \in Path
    BY <1>1, TreeFacts, RmAssumption DEF Places
  <1>3. \A path \in Path : Follow(env.fs, Root, path) \in Places(env.fs) \cup {Missing}
    BY <1>1, <1>2, WalkStays
  <1>4. cd # NoCd => env.cwd \o cd.names \in Path
    BY <1>1, Joined
  <1>5. Clean(IF cd = NoCd THEN env.cwd ELSE IF cd.abs THEN cd.names ELSE env.cwd \o cd.names) \in Path
    BY <1>1, <1>4, Cleaned
  <1> QED
    BY <1>2, <1>3, <1>5 DEF ShellStart

\* Where bash starts the word and where the code starts it, after a cd or not.
LEMMA Start ==
  ASSUME Reading, CdsAreDirect, NEW word, word.names \in Path, ~Tilde(word), ShellStart(word) # Missing
  PROVE  /\ WordBase(word) \in Path /\ ~GoesUp(WordBase(word))
         /\ Follow(env.fs, Root, WordBase(word)) = ShellStart(word)
         /\ Written(word) = Clean(WordBase(word) \o word.names)
  <1> DEFINE fs == env.fs
             cwd == env.cwd
             names == word.names
             base == WordBase(word)
  <1>1. /\ WellFormed(fs) /\ cwd \in Path /\ ~GoesUp(cwd)
        /\ sp.cwd = Realpath(fs, cwd) /\ sp.cwd \in fs.dirs /\ sp.cwd \in Path
        /\ cd # NoCd => cd \in Cds /\ cd.names \in Path
    BY ReadingFacts
  <1>2. Root \in Places(fs) /\ Root \in Path /\ ~GoesUp(Root) /\ Follow(fs, Root, Root) = Root
    BY <1>1, TreeFacts, RootIsPath, Canonical DEF Places
  <1>3. Follow(fs, Root, sp.cwd) = sp.cwd /\ ~GoesUp(sp.cwd)
    BY <1>1, Canonical DEF Places
  <1>4. Follow(fs, Root, cwd) # Missing => Follow(fs, Root, cwd) = sp.cwd
    BY <1>1, RealpathFacts
  <1>5. StartOf(sp, cd) \in Path
    BY <1>1, Joined DEF StartOf
  <1>6. base \in Path /\ ~GoesUp(base)
    BY <1>2, <1>5, Cleaned DEF WordBase
  <1>7. Written(word) = Clean(base \o names)
    BY <1>5, CleanJoined, Joined, RootIsPath DEF Written, WordBase
  <1> SUFFICES Follow(fs, Root, base) = ShellStart(word)
    BY <1>6, <1>7
  <1>8. CASE word.abs
    BY <1>2, <1>8 DEF ShellStart, WordBase
  <1>9. CASE ~word.abs /\ cd = NoCd
    <2>1. ShellStart(word) = Follow(fs, Root, cwd)
      BY <1>1, <1>9, Cleaned DEF ShellStart
    <2>2. base = sp.cwd
      BY <1>1, <1>3, <1>9, Cleaned DEF WordBase, StartOf
    <2> QED
      BY <1>3, <1>4, <2>1, <2>2
  <1>10. CASE ~word.abs /\ cd # NoCd /\ cd.abs
    BY <1>10 DEF ShellStart, WordBase, StartOf
  <1>11. CASE ~word.abs /\ cd # NoCd /\ ~cd.abs
    <2>1. ShellStart(word) = Follow(fs, Root, Clean(cwd \o cd.names))
      BY <1>11 DEF ShellStart
    <2>2. base = Clean(sp.cwd \o cd.names)
      BY <1>11 DEF WordBase, StartOf
    <2>3. cwd \o cd.names \in Path /\ sp.cwd \o cd.names \in Path
      BY <1>1, <1>11, Joined
    <2>4. CASE GoesUp(cd.names)
      <3>1. Has(cd, "..")
        BY <2>4 DEF GoesUp, Has
      <3>2. sp.cwd = cwd
        BY <1>1, <1>11, <3>1 DEF CdsAreDirect, Reading
      <3> QED
        BY <2>1, <2>2, <3>2
    <2>5. CASE ~GoesUp(cd.names)
      <3>1. ~GoesUp(cwd \o cd.names) /\ ~GoesUp(sp.cwd \o cd.names)
        BY <1>1, <1>3, <1>11, <2>5, GoesUpJoined
      <3>2. Clean(cwd \o cd.names) = cwd \o cd.names /\ base = sp.cwd \o cd.names
        BY <2>2, <2>3, <3>1, Cleaned
      <3>3. ShellStart(word) = Follow(fs, Follow(fs, Root, cwd), cd.names)
        <4>1. ShellStart(word) = Follow(fs, Root, cwd \o cd.names)
          BY <2>1, <3>2
        <4> QED
          BY <1>1, <1>11, <4>1, WalkJoined
      <3>4. Follow(fs, Root, cwd) # Missing
        BY <1>1, <1>11, <3>3, WalkStays
      <3>5. Follow(fs, Root, base) = Follow(fs, Follow(fs, Root, sp.cwd), cd.names)
        BY <1>1, <1>11, <3>2, WalkJoined
      <3> QED
        BY <1>3, <1>4, <3>3, <3>4, <3>5
    <2> QED
      BY <2>4, <2>5
  <1> QED
    BY <1>8, <1>9, <1>10, <1>11

\* What is fixed about a word that is not the directory it starts from itself.
LEMMA Split ==
  ASSUME Reading, CdsAreDirect, NEW word, Direct(word), word.names \in Path, word.names # <<>>,
         ShellStart(word) # Missing,
         Follow(env.fs, ShellStart(word), Front(word.names)) # Missing
  PROVE  LET dir == Follow(env.fs, ShellStart(word), Front(word.names))
             last == Last(word.names)
         IN /\ dir \in Places(env.fs) /\ last \in Name
            /\ last # ".." => \E path \in Path : /\ Written(word) = Append(path, last)
                                                 /\ Follow(env.fs, Root, path) = dir
            /\ last = ".." => Written(word) = Parent(dir)
  <1> DEFINE fs == env.fs
             front == Front(word.names)
             last == Last(word.names)
             from == ShellStart(word)
             dir == Follow(fs, from, front)
  <1>1. WellFormed(fs) /\ front \in Path /\ last \in Name /\ word.names = Append(front, last)
    BY ReadingFacts, Ends
  <1> DEFINE base == WordBase(word)
  <1>2. /\ base \in Path /\ ~GoesUp(base) /\ Follow(fs, Root, base) = from
        /\ Written(word) = Clean(base \o word.names)
    BY Start DEF Direct
  <1>3. from \in Places(fs)
    BY StartPlace
  <1>4. dir \in Places(fs)
    BY <1>1, <1>3, WalkStays
  <1>5. ~UpFromLink(fs, base, Append(front, last))
    BY <1>1 DEF Direct
  <1>6. Follow(fs, from, front) = dir
    OBVIOUS
  <1> HIDE DEF front, last, from, dir, fs, base
  <1>7. /\ last # ".." => \E path \in Path : /\ Clean(base \o Append(front, last)) = Append(path, last)
                                             /\ Follow(fs, Root, path) = dir
        /\ last = ".." => Clean(base \o Append(front, last)) = Parent(dir)
    BY <1>1, <1>2, <1>4, <1>5, <1>6, SameParent
  <1>8. Written(word) = Clean(base \o Append(front, last))
    BY <1>1, <1>2
  <1> QED
    BY <1>1, <1>4, <1>7, <1>8 DEF front, last, from, dir, fs

\* Where the code takes a word to lead.
Led(word) == Resolved(env.fs, Written(word), word.slash)

LEMMA RemovedPaths ==
  ASSUME Reading, NEW word, word.names \in Path, ~Tilde(word)
  PROVE  RemovedBy(word) \subseteq Path
  <1> DEFINE fs == env.fs
             names == word.names
             from == ShellStart(word)
             dir == Follow(fs, from, Front(names))
             last == Last(names)
  <1>1. WellFormed(fs)
    BY ReadingFacts
  <1> SUFFICES ASSUME NEW path \in Removed(fs, from, names, word.slash) PROVE path \in Path
    BY DEF RemovedBy, ShellNames
  <1>2. from # Missing
    BY DEF Removed
  <1>3. from \in Places(fs) /\ Places(fs) \subseteq Path /\ Nodes(fs) \subseteq Path
    BY <1>1, <1>2, StartPlace, TreeFacts
  <1>4. CASE names = <<>>
    BY <1>3, <1>4 DEF Removed
  <1>5. CASE names # <<>>
    <2>1. \/ path \in Nodes(fs)
          \/ path = Step(fs, dir, last) /\ path # Missing
      BY <1>2, <1>5 DEF Removed, Children
    <2>2. dir \in Places(fs) \cup {Missing} /\ last \in Name
      BY <1>1, <1>3, <1>5, Ends, WalkStays
    <2>3. Step(fs, dir, last) \in Places(fs) \cup {Missing}
      BY <1>1, <2>2, StepFacts
    <2> QED
      BY <1>3, <2>1, <2>3
  <1> QED
    BY <1>4, <1>5

\* What rm removes by a word is what the code judges, unless a link that leads
\* somewhere is named; of a glob the code judges the pattern in the same
\* directory.
LEMMA Judged ==
  ASSUME Reading, CdsAreDirect, NEW word, Direct(word), word.names \in Path,
         NEW path \in RemovedBy(word), Globbed(word) = {} => Realpath(env.fs, path) = path
  PROVE  \/ Globbed(word) = {} /\ Led(word) = path
         \/ \E dir \in Globbed(word), name \in Name :
              /\ dir \in env.fs.dirs /\ path = Append(dir, name) /\ Led(word) = Append(dir, "*")
  <1> DEFINE fs == env.fs
             names == word.names
             front == Front(names)
             last == Last(names)
             from == ShellStart(word)
             dir == Follow(fs, from, front)
  <1>1. WellFormed(fs)
    BY ReadingFacts
  <1>2. path \in Removed(fs, from, names, word.slash) /\ from # Missing
    BY DEF RemovedBy, Removed, ShellNames, Direct
  <1>3. from \in Places(fs)
    BY <1>2, StartPlace
  <1>4. CASE names = <<>>
    <2>1. path = from
      BY <1>2, <1>4 DEF Removed
    <2> DEFINE base == WordBase(word)
    <2>2. /\ base \in Path /\ ~GoesUp(base) /\ Follow(fs, Root, base) = from
          /\ Written(word) = Clean(base \o names)
      BY <1>2, Start DEF Direct
    <2> HIDE DEF base
    <2>3. Written(word) = base
      BY <1>4, <2>2, Joined, Cleaned
    <2>4. Led(word) = from
      BY <1>1, <1>2, <2>2, <2>3, ResolvedWhole DEF Led
    <2>5. Globbed(word) = {}
      BY <1>4 DEF Globbed, ShellNames, Direct
    <2> QED
      BY <2>1, <2>4, <2>5
  <1>5. CASE names # <<>>
    <2> DEFINE below == Append(dir, last)
    <2>1. /\ dir # Missing
          /\ path \in IF last = "*" THEN Children(fs, dir)
                      ELSE IF last = ".." \/ (word.slash /\ below \in DOMAIN fs.links)
                      THEN {Step(fs, dir, last)} \ {Missing}
                      ELSE {below} \cap Nodes(fs)
      BY <1>2, <1>5 DEF Removed
    <2>2. /\ dir \in Places(fs) /\ last \in Name
          /\ last # ".." => \E p \in Path : /\ Written(word) = Append(p, last)
                                            /\ Follow(fs, Root, p) = dir
          /\ last = ".." => Written(word) = Parent(dir)
      BY <1>2, <1>5, <2>1, Split
    <2>3. Globbed(word) = IF last = "*" THEN {dir} ELSE {}
      BY <1>2, <1>5, <2>1 DEF Globbed, ShellNames, Direct
    <2>4. dir \in Path /\ Places(fs) \subseteq Path /\ Missing \notin Places(fs)
      BY <1>1, <2>2, TreeFacts
    <2> HIDE DEF fs, names, front, last, from, dir
    <2>5. CASE last = "*"
      <3>1. path \in Nodes(fs) /\ path # Root /\ Parent(path) = dir
        BY <2>1, <2>5 DEF Children
      <3>2. /\ path \in Path /\ Last(path) \in Name /\ path = Append(dir, Last(path))
        <4>1. path \in Path /\ path # <<>>
          BY <1>1, <3>1, TreeFacts, RootIsPath
        <4>2. Parent(path) = Front(path)
          BY <3>1 DEF Parent
        <4> QED
          BY <3>1, <4>1, <4>2, Ends
      <3>3. dir \in fs.dirs
        BY <1>1, <2>4, <3>1, <3>2, TreeFacts
      <3>4. last # ".."
        BY <2>5
      <3>5. PICK p \in Path : Written(word) = Append(p, last) /\ Follow(fs, Root, p) = dir
        BY <2>2, <3>4
      <3>6. Append(dir, last) \notin Nodes(fs)
        BY <1>1, <2>2, <2>4, <2>5, TreeFacts
      <3>7. Step(fs, dir, last) = Missing
        BY <3>4, <3>6 DEF Step, Nodes
      <3>8. Led(word) = Append(dir, last)
        BY <1>1, <2>2, <3>5, <3>7, ResolvedBelow DEF Led, fs
      <3> QED
        BY <2>3, <2>5, <3>2, <3>3, <3>8 DEF fs
    <2>6. CASE last = ".."
      <3>1. path = Step(fs, dir, last) /\ path # Missing
        BY <2>1, <2>6
      <3>2. path = Parent(dir) /\ dir \in fs.dirs
        BY <2>6, <3>1 DEF Step
      <3>3. Parent(dir) \in Places(fs)
        BY <1>1, <3>2, TreeFacts DEF Places
      <3>4. Follow(fs, Root, Parent(dir)) = Parent(dir) /\ Parent(dir) \in Path /\ Parent(dir) # Missing
        BY <1>1, <2>4, <3>3, Canonical
      <3>5. Led(word) = Parent(dir)
        BY <1>1, <2>2, <2>6, <3>4, ResolvedWhole DEF Led, fs
      <3> QED
        BY <2>3, <2>6, <3>2, <3>5
    <2>7. CASE last # "*" /\ last # ".."
      <3>1. PICK p \in Path : Written(word) = Append(p, last) /\ Follow(fs, Root, p) = dir
        BY <2>2, <2>7
      <3>2. CASE word.slash /\ below \in DOMAIN fs.links
        <4>1. path = Step(fs, dir, last) /\ path # Missing
          BY <2>1, <2>7, <3>2
        <4> QED
          BY <1>1, <2>2, <2>3, <2>7, <3>1, <4>1, ResolvedBelow DEF Led, fs
      <3>3. CASE ~(word.slash /\ below \in DOMAIN fs.links)
        <4> DEFINE place == Step(fs, dir, last)
        <4>1. path = below /\ below \in Nodes(fs) /\ Realpath(fs, below) = below
          BY <2>1, <2>3, <2>7, <3>3 DEF fs
        <4>2. below \in Path /\ Follow(fs, Root, below) = place
          BY <1>1, <2>2, <2>4, Longer, Canonical, FollowAppend
        <4>3. place = Missing \/ place = below
          BY <1>1, <4>1, <4>2, RealpathFacts
        <4>4. Led(word) = below
          BY <1>1, <2>2, <3>1, <4>3, ResolvedBelow DEF Led, fs
        <4> QED
          BY <2>3, <2>7, <4>1, <4>4
      <3> QED
        BY <3>2, <3>3
    <2> QED
      BY <2>5, <2>6, <2>7
  <1> QED
    BY <1>4, <1>5

\* The directory that a glob sweeps is the one that the code compares with the
\* shared ones.
LEMMA Swept ==
  ASSUME Reading, CdsAreDirect, NEW word, Direct(word), word.names \in Path,
         NEW dir \in Globbed(word)
  PROVE  /\ Has(word, "*")
         /\ Realpath(env.fs, Parent(Written(word))) = dir
  <1>1. /\ word.names # <<>> /\ Last(word.names) = "*" /\ ShellStart(word) # Missing
        /\ dir = Follow(env.fs, ShellStart(word), Front(word.names)) /\ dir # Missing
    BY DEF Globbed, ShellNames, Direct
  <1>2. WellFormed(env.fs)
    BY ReadingFacts
  <1>3. dir \in Places(env.fs) /\ "*" \in Name
    BY <1>1, Split
  <1>4. PICK path \in Path : Written(word) = Append(path, "*") /\ Follow(env.fs, Root, path) = dir
    BY <1>1, Split
  <1>5. Realpath(env.fs, Parent(Written(word))) = dir
    <2>1. Parent(Written(word)) = path
      BY <1>3, <1>4, Longer
    <2> QED
      BY <1>1, <1>2, <1>4, <2>1, RealpathFacts
  <1>6. Has(word, "*")
    <2>1. Len(word.names) \in DOMAIN word.names
      BY <1>1 DEF Path
    <2> QED
      BY <1>1, <2>1 DEF Has, Last
  <1> QED
    BY <1>5, <1>6

-----------------------------------------------------------------------------
(* The verdict on a harmful word.                                          *)

\* Classify, in terms of where the word leads; a glob never leads to a
\* directory that is judged as such unless it is one of the safe ones.
LEMMA SafeVerdict ==
  ASSUME NEW word, Classify(env.fs, sp, word, cd) = "safe"
  PROVE  /\ Covered(Led(word)) /\ Led(word) \notin Exact /\ Led(word) \notin sp.dirs
         /\ ~SharedRootGlob(env.fs, sp, word, Written(word))
  BY DEF Classify, Covered, Led, Written

LEMMA Verdicts ==
  ASSUME NEW word
  PROVE  Classify(env.fs, sp, word, cd) \in Concerns \cup {"safe"}
  BY DEF Classify, Concerns

\* The paths above a path are its prefixes.
LEMMA AboveOf ==
  ASSUME NEW path \in Path, NEW dir \in Path, Inside(path, dir)
  PROVE  /\ Len(dir) <= Len(path) /\ Len(path) \in Nat /\ Len(dir) \in Nat
         /\ dir = SubSeq(path, 1, Len(dir))
         /\ Len(dir) = Len(path) => dir = path
  <1> USE DEF Path
  <1>1. \A p \in Path : SubSeq(p, 1, Len(p)) = p
    <2> TAKE p \in Path
    <2>1. /\ SubSeq(p, 1, Len(p)) \in Seq(Name) /\ Len(SubSeq(p, 1, Len(p))) = Len(p)
          /\ \A i \in 1..Len(p) : SubSeq(p, 1, Len(p))[i] = p[i]
      OBVIOUS
    <2> QED
      BY <2>1, SeqEqual
  <1>2. Len(path) \in Nat /\ Len(dir) \in Nat
    OBVIOUS
  <1>3. Len(dir) <= Len(path) /\ SubSeq(dir, 1, Len(dir)) = SubSeq(path, 1, Len(dir))
    BY DEF Inside, IsPrefix
  <1> HIDE DEF Path
  <1>4. SubSeq(dir, 1, Len(dir)) = dir /\ SubSeq(path, 1, Len(path)) = path
    BY <1>1
  <1> QED
    BY <1>2, <1>3, <1>4

\* Between a path and the directory that holds it there is nothing.
LEMMA NothingBetween ==
  ASSUME NEW path \in Path, NEW dir \in Path, NEW top \in Path, NEW name \in Name,
         Inside(path, Append(dir, name)), Inside(dir, top)
  PROVE  /\ top # path
         /\ path # <<>> /\ top = Parent(path) => dir = top
  <1>1. /\ Len(dir) + 1 <= Len(path) /\ Len(top) <= Len(dir)
        /\ Len(path) \in Nat /\ Len(dir) \in Nat /\ Len(top) \in Nat
    <2>1. Append(dir, name) \in Path /\ Len(Append(dir, name)) = Len(dir) + 1
      BY Longer DEF Path
    <2>2. Len(Append(dir, name)) <= Len(path) /\ Len(top) <= Len(dir)
      BY <2>1, AboveOf
    <2> QED
      BY <2>1, <2>2, AboveOf
  <1>2. top # path
    BY <1>1
  <1>3. ASSUME path # <<>>, top = Parent(path) PROVE dir = top
    <2>1. top = Front(path) /\ Len(path) = Len(Front(path)) + 1
      BY <1>3, Ends, RootIsPath DEF Parent
    <2>2. Len(dir) = Len(top)
      BY <1>1, <2>1
    <2> QED
      BY <2>2, AboveOf
  <1> QED
    BY <1>2, <1>3

\* What a harm of the plain form is about.
LEMMA PlainHarm ==
  ASSUME NEW word, NEW kind \in Harms, [kind |-> kind, form |-> "plain"] \in HarmOf(word)
  PROVE  /\ Direct(word)
         /\ \E path \in Hit(kind, word) : Globbed(word) = {} => Realpath(env.fs, path) = path
  <1>1. PICK k \in Harms : \E path \in Hit(k, word) :
          [kind |-> kind, form |-> "plain"] = [kind |-> k, form |-> Form(word, path)]
    BY DEF HarmOf
  <1>2. PICK path \in Hit(k, word) :
          [kind |-> kind, form |-> "plain"] = [kind |-> k, form |-> Form(word, path)]
    BY <1>1
  <1>3. k = kind /\ Form(word, path) = "plain"
    <2>1. /\ [kind |-> kind, form |-> "plain"].kind = [kind |-> k, form |-> Form(word, path)].kind
          /\ [kind |-> kind, form |-> "plain"].form = [kind |-> k, form |-> Form(word, path)].form
      BY <1>2
    <2> QED
      BY <2>1
  <1> QED
    BY <1>2, <1>3 DEF Form, Direct

LEMMA HitFacts ==
  ASSUME NEW word
  PROVE  /\ Hit("outside", word) = {path \in RemovedBy(word) : ~Covered(path)}
         /\ Hit("home", word) = {path \in RemovedBy(word) : Inside(Realpath(env.fs, Home), path)}
         /\ Hit("root", word) = IF Globbed(word) = {} THEN RemovedBy(word) \cap sp.dirs ELSE {}
         /\ Hit("sweep", word) = Globbed(word) \cap (sp.dirs \ sp.own)
  BY DEF Hit

\* What would be removed outside every safe directory is noticed.
LEMMA OutsideSeen ==
  ASSUME Reading, CdsAreDirect, NEW word, word.names \in Path, [kind |-> "outside", form |-> "plain"] \in HarmOf(word)
  PROVE  Classify(env.fs, sp, word, cd) # "safe"
  <1> SUFFICES ASSUME Classify(env.fs, sp, word, cd) = "safe" PROVE FALSE
    OBVIOUS
  <1>1. Direct(word)
    BY PlainHarm DEF Harms
  <1>2. PICK path \in RemovedBy(word) :
          ~Covered(path) /\ (Globbed(word) = {} => Realpath(env.fs, path) = path)
    BY PlainHarm, HitFacts DEF Harms
  <1>3. Covered(Led(word)) /\ Led(word) \notin sp.dirs
    BY SafeVerdict
  <1>4. CASE Led(word) = path
    BY <1>2, <1>3, <1>4
  <1>5. CASE \E dir \in Globbed(word), name \in Name :
               /\ dir \in env.fs.dirs /\ path = Append(dir, name) /\ Led(word) = Append(dir, "*")
    <2>1. PICK dir \in Globbed(word), name \in Name :
               dir \in env.fs.dirs /\ path = Append(dir, name) /\ Led(word) = Append(dir, "*")
      BY <1>5
    <2>2. dir \in Path /\ sp.dirs \subseteq Path
      BY <2>1, ReadingFacts, TreeFacts DEF Places
    <2>3. PICK top \in sp.dirs : Inside(Append(dir, "*"), top)
      BY <1>3, <2>1 DEF Covered
    <2>4. "*" \in Name
      <3>1. Last(word.names) \in Name /\ Last(word.names) = "*"
        BY <1>1, <2>1, Ends DEF Globbed, ShellNames, Direct
      <3> QED
        BY <3>1
    <2>5. Inside(dir, top)
      BY <1>3, <2>1, <2>2, <2>3, <2>4, InsideFacts
    <2>6. Inside(path, top)
      BY <2>1, <2>2, <2>5, InsideFacts
    <2> QED
      BY <1>2, <2>6 DEF Covered
  <1> QED
    BY <1>1, <1>2, <1>4, <1>5, Judged

\* A safe directory that a word names is noticed.
LEMMA RootSeen ==
  ASSUME Reading, CdsAreDirect, NEW word, word.names \in Path, [kind |-> "root", form |-> "plain"] \in HarmOf(word)
  PROVE  Classify(env.fs, sp, word, cd) # "safe"
  <1> SUFFICES ASSUME Classify(env.fs, sp, word, cd) = "safe" PROVE FALSE
    OBVIOUS
  <1>1. Direct(word)
    BY PlainHarm DEF Harms
  <1>2. PICK path \in Hit("root", word) : Globbed(word) = {} => Realpath(env.fs, path) = path
    BY PlainHarm DEF Harms
  <1>3. Led(word) = path /\ path \in sp.dirs
    <2>1. Globbed(word) = {} /\ path \in RemovedBy(word) /\ path \in sp.dirs
      BY <1>2, HitFacts
    <2> QED
      BY <1>1, <1>2, <2>1, Judged
  <1> QED
    BY <1>2, <1>3, SafeVerdict

\* A glob over a shared directory is noticed.
LEMMA SweepSeen ==
  ASSUME Reading, CdsAreDirect, NEW word, word.names \in Path, [kind |-> "sweep", form |-> "plain"] \in HarmOf(word)
  PROVE  Classify(env.fs, sp, word, cd) # "safe"
  <1>1. Direct(word)
    BY PlainHarm DEF Harms
  <1>2. PICK dir \in Globbed(word) : dir \in sp.dirs \ sp.own
    BY PlainHarm, HitFacts DEF Harms
  <1>3. SharedRootGlob(env.fs, sp, word, Written(word))
    BY <1>1, <1>2, Swept DEF SharedRootGlob
  <1> QED
    BY <1>3, SafeVerdict

\* So is the home directory and what holds it.
LEMMA HomeSeen ==
  ASSUME Reading, CdsAreDirect, HomeIsUsual, NEW word, word.names \in Path, [kind |-> "home", form |-> "plain"] \in HarmOf(word)
  PROVE  Classify(env.fs, sp, word, cd) # "safe"
  <1> SUFFICES ASSUME Classify(env.fs, sp, word, cd) = "safe" PROVE FALSE
    OBVIOUS
  <1>1. /\ WellFormed(env.fs) /\ sp.dirs \subseteq Path /\ env.fs \in Worlds
        /\ sp.own = IF IsCwdRoot(env.fs, sp.cwd) THEN {} ELSE {sp.cwd}
        /\ Home \in Path /\ Realpath(env.fs, Home) = Home
    BY ReadingFacts, RmAssumption DEF Reading, HomeIsUsual
  <1>2. \A dir \in Path : Inside(Home, dir) => dir \in Exact
    <2> TAKE dir \in Path
    <2> HAVE Inside(Home, dir)
    <2>1. Len(dir) \in 0..Len(Home) /\ dir = SubSeq(Home, 1, Len(dir))
      BY <1>1, AboveOf
    <2> QED
      BY <2>1 DEF HomeIsUsual
  <1>3. \A dir \in sp.own : ~Inside(Home, dir)
    BY <1>1, <1>2, ReadingFacts DEF IsCwdRoot, Exact
  <1>4. \A dir \in sp.dirs \ sp.own : Inside(Home, dir) => dir \in {Home, Parent(Home)}
    <2>1. PICK extra \in Extras : sp = NewSafePaths(env.fs, env.cwd, extra)
      BY DEF Reading
    <2>2. sp.dirs = sp.own \cup {Realpath(env.fs, dir) : dir \in Scratch \cup extra}
      BY <2>1 DEF NewSafePaths
    <2> QED
      BY <1>1, <2>2 DEF HomeIsUsual
  <1>5. Direct(word)
    BY PlainHarm DEF Harms
  <1>6. PICK path \in RemovedBy(word) :
          Inside(Home, path) /\ (Globbed(word) = {} => Realpath(env.fs, path) = path)
    BY <1>1, PlainHarm, HitFacts DEF Harms
  <1>7. CASE Led(word) = path
    <2>1. path \in Path
      BY <1>5, RemovedPaths DEF Direct
    <2> QED
      BY <1>2, <1>6, <1>7, <2>1, SafeVerdict
  <1>8. CASE \E dir \in Globbed(word), name \in Name :
               /\ dir \in env.fs.dirs /\ path = Append(dir, name) /\ Led(word) = Append(dir, "*")
    <2>1. PICK dir \in Globbed(word), name \in Name :
               dir \in env.fs.dirs /\ path = Append(dir, name) /\ Led(word) = Append(dir, "*")
      BY <1>8
    <2>2. dir \in Path /\ path \in Path
      BY <1>1, <2>1, TreeFacts, Longer DEF Places
    <2>3. "*" \in Name /\ Led(word) \notin sp.dirs /\ Covered(Led(word))
      <3>1. Last(word.names) \in Name /\ Last(word.names) = "*"
        BY <1>5, <2>1, Ends DEF Globbed, ShellNames, Direct
      <3> QED
        BY <3>1, SafeVerdict
    <2>4. PICK top \in sp.dirs : Inside(dir, top)
      <3>1. PICK top \in sp.dirs : Inside(Append(dir, "*"), top)
        BY <2>1, <2>3 DEF Covered
      <3>2. top \in Path /\ top # Append(dir, "*")
        BY <1>1, <2>1, <2>3
      <3>3. Inside(dir, top)
        BY <2>2, <2>3, <3>1, <3>2, InsideFacts
      <3> QED
        BY <3>3
    <2>5. Inside(path, dir)
      BY <2>1, <2>2, InsideFacts
    <2>6. Inside(Home, dir)
      BY <1>1, <1>6, <2>2, <2>5, InsideInside
    <2>7. Inside(Home, top)
      BY <1>1, <2>2, <2>4, <2>6, InsideInside
    <2>8. top = Parent(Home) /\ top \notin sp.own /\ top # Home
      BY <1>1, <1>3, <1>4, <1>6, <2>1, <2>2, <2>4, <2>7, NothingBetween
    <2>9. Home # <<>>
      BY <2>8, RootIsPath DEF Parent
    <2>10. dir = top
      BY <1>1, <1>6, <2>1, <2>2, <2>4, <2>8, <2>9, NothingBetween
    <2>11. SharedRootGlob(env.fs, sp, word, Written(word))
      BY <1>5, <2>1, <2>4, <2>8, <2>10, Swept DEF SharedRootGlob
    <2> QED
      BY <2>11, SafeVerdict
  <1> QED
    BY <1>5, <1>6, <1>7, <1>8, Judged

-----------------------------------------------------------------------------
(* The call.                                                               *)

\* The harms that the premises let the rule notice.
Noticed == {kind \in Harms : kind = "home" => HomeIsUsual}

\* Harm leads to a concern, which worst carries to the end of the command and
\* asks from there to the end of the call.
Answered ==
  /\ (\E kind \in Noticed : Plainly(kind)) => asks # {} \/ (phase = "words" /\ worst # "safe")
  /\ level = "allow" => asks = {} /\ phase = "done"

IInv == TypeOK /\ Reading /\ Answered

LEMMA InitTyped ==
  ASSUME Init
  PROVE  TypeOK /\ Reading /\ Answered
  <1>1. PICK fs \in Worlds, cwd \in Cwds, extra \in Extras :
          /\ Realpath(fs, cwd) \in fs.dirs
          /\ env = [fs |-> fs, cwd |-> cwd]
          /\ sp = NewSafePaths(fs, cwd, extra)
    BY DEF Init
  <1>2. env.fs = fs /\ env.cwd = cwd
    BY <1>1
  <1>3. Reading
    BY <1>1, <1>2 DEF Init, Reading
  <1>4. sp.own \subseteq sp.dirs
    BY <1>3, ReadingFacts
  <1>5. TypeOK
    <2>1. env.fs \in Worlds /\ env.cwd \in Cwds /\ sp.own \subseteq sp.dirs
      BY <1>2, <1>4
    <2>2. words \in 0..MaxWords /\ commands \in 0..MaxCommands
      BY RmAssumption DEF Init
    <2>3. /\ phase = "idle" /\ cd = NoCd /\ literal = FALSE /\ worst = "safe" /\ asks = {}
          /\ level = "none" /\ harm = {}
      BY DEF Init
    <2> QED
      BY <2>1, <2>2, <2>3 DEF TypeOK
  <1>6. Answered
    BY DEF Init, Answered, Plainly
  <1> QED
    BY <1>3, <1>5, <1>6

\* The hook looks at one file system with one allowlist.
LEMMA SameReading ==
  ASSUME TypeOK', Reading, UNCHANGED <<env, sp>>
  PROVE  Reading'
  BY DEF TypeOK, Reading

LEMMA StepTyped ==
  ASSUME TypeOK, [Next]_vars
  PROVE  TypeOK'
  <1>1. ASSUME NEW origin \in Origins \cup {"plain"}, NEW dir \in Cds \cup {NoCd}, Begin(origin, dir)
        PROVE  TypeOK'
    <2>1. commands' \in 0..MaxCommands
      BY <1>1, RmAssumption DEF TypeOK, Begin
    <2>2. /\ phase' \in {"idle", "words", "done"} /\ asks' \subseteq Concerns \cup Origins
          /\ cd' \in Cds \cup {NoCd} /\ literal' \in BOOLEAN /\ worst' \in Concerns \cup {"safe"}
      BY <1>1 DEF TypeOK, Begin
    <2>3. UNCHANGED <<env, sp, level, harm, words>>
      BY <1>1 DEF Begin
    <2> QED
      BY <2>1, <2>2, <2>3 DEF TypeOK
  <1>2. CASE DashDash
    BY <1>2 DEF TypeOK, DashDash
  <1>3. ASSUME NEW word \in Operands \cup Flags, Operand(word)
        PROVE  TypeOK'
    <2>1. worst' \in Concerns \cup {"safe"}
      BY <1>3, Verdicts DEF TypeOK, Operand, WorseOf
    <2>2. harm' \subseteq [kind : Harms, form : Forms]
      <3>1. \A path : Form(word, path) \in Forms
        BY DEF Form, Forms
      <3>2. HarmOf(word) \subseteq [kind : Harms, form : Forms]
        BY <3>1 DEF HarmOf
      <3> QED
        BY <1>3, <3>2 DEF TypeOK, Operand
    <2>3. words' \in 0..MaxWords
      BY <1>3, RmAssumption DEF TypeOK, Operand
    <2> QED
      BY <1>3, <2>1, <2>2, <2>3 DEF TypeOK, Operand
  <1>4. CASE End
    BY <1>4 DEF TypeOK, End
  <1>5. CASE Aggregate
    BY <1>5 DEF TypeOK, Aggregate
  <1>6. CASE UNCHANGED vars
    BY <1>6 DEF TypeOK, vars
  <1>7. CASE Finished
    BY <1>7 DEF TypeOK, Finished, vars
  <1> QED
    BY <1>1, <1>2, <1>3, <1>4, <1>5, <1>6, <1>7 DEF Next

\* A harmful word leaves a concern behind.
LEMMA HarmSeen ==
  ASSUME Reading, CdsAreDirect, NEW word \in Operands \cup Flags, NEW kind \in Noticed,
         [kind |-> kind, form |-> "plain"] \in HarmOf(word)
  PROVE  Classify(env.fs, sp, word, cd) # "safe"
  <1>1. word.names \in Path
    BY RmAssumption
  <1>2. kind \in {"outside", "home", "root", "sweep"}
    BY DEF Noticed, Harms
  <1>3. kind = "home" => HomeIsUsual
    BY DEF Noticed
  <1> QED
    BY <1>1, <1>2, <1>3, OutsideSeen, HomeSeen, RootSeen, SweepSeen

\* A concern is never taken back by a later word.
LEMMA ConcernStays ==
  ASSUME NEW old \in Concerns \cup {"safe"}, NEW class \in Concerns \cup {"safe"}
  PROVE  old # "safe" \/ class # "safe" => WorseOf(old, class) # "safe"
  BY DEF Concerns, WorseOf, Rank

LEMMA StepAnswered ==
  ASSUME CdsAreDirect, IInv, Next
  PROVE  Answered'
  <1>1. ASSUME NEW origin \in Origins \cup {"plain"}, NEW dir \in Cds \cup {NoCd}, Begin(origin, dir)
        PROVE  Answered'
    BY <1>1 DEF IInv, Answered, Plainly, Begin
  <1>2. CASE DashDash
    BY <1>2 DEF IInv, Answered, Plainly, DashDash
  <1>3. ASSUME NEW word \in Operands \cup Flags, Operand(word)
        PROVE  Answered'
    <2> DEFINE class == Classify(env.fs, sp, word, cd)
    <2>1. \A kind \in Noticed : [kind |-> kind, form |-> "plain"] \in HarmOf(word) => class # "safe"
      BY HarmSeen DEF IInv
    <2>2. worst \in Concerns \cup {"safe"} /\ class \in Concerns \cup {"safe"}
      BY Verdicts DEF IInv, TypeOK
    <2>3. /\ phase = "words" /\ phase' = phase /\ asks' = asks /\ level' = level
          /\ worst' = WorseOf(worst, class) /\ harm' = harm \cup HarmOf(word)
      BY <1>3 DEF Operand
    <2> HIDE DEF class
    <2>4. worst # "safe" \/ class # "safe" => worst' # "safe"
      BY <2>2, <2>3, ConcernStays
    <2>5. \A kind \in Noticed :
            Plainly(kind)' => Plainly(kind) \/ [kind |-> kind, form |-> "plain"] \in HarmOf(word)
      BY <2>3 DEF Plainly
    <2> QED
      BY <2>1, <2>3, <2>4, <2>5 DEF IInv, Answered
  <1>4. CASE End
    BY <1>4 DEF IInv, Answered, Plainly, End
  <1>5. CASE Aggregate
    BY <1>5 DEF IInv, Answered, Plainly, Aggregate
  <1>6. CASE Finished
    BY <1>6 DEF IInv, Answered, Plainly, Finished, vars
  <1> QED
    BY <1>1, <1>2, <1>3, <1>4, <1>5, <1>6 DEF Next

LEMMA StepKept ==
  ASSUME CdsAreDirect, IInv, [Next]_vars
  PROVE  IInv'
  <1>1. TypeOK'
    BY StepTyped DEF IInv
  <1>2. UNCHANGED <<env, sp>>
    BY DEF Next, Begin, DashDash, Operand, End, Aggregate, Finished, vars
  <1>3. Reading'
    BY <1>1, <1>2, SameReading DEF IInv
  <1>4. CASE Next
    BY <1>1, <1>3, <1>4, StepAnswered DEF IInv
  <1>5. CASE UNCHANGED vars
    <2>1. Answered'
      BY <1>5 DEF IInv, Answered, Plainly, vars
    <2> QED
      BY <1>1, <1>3, <2>1 DEF IInv
  <1> QED
    BY <1>4, <1>5

\* Every variable keeps its type, whatever the directories and the words.
THEOREM RmTypeCorrect == Spec => []TypeOK
  <1>1. Init => TypeOK
    BY InitTyped
  <1>2. TypeOK /\ [Next]_vars => TypeOK'
    BY StepTyped
  <1> QED
    BY <1>1, <1>2, PTL DEF Spec

LEMMA Kept ==
  ASSUME CdsAreDirect
  PROVE  Spec => []IInv
  <1>1. Init => IInv
    BY InitTyped DEF IInv
  <1>2. IInv /\ [Next]_vars => IInv'
    BY StepKept
  <1> QED
    BY <1>1, <1>2, PTL DEF Spec

\* What an allowed call removes by a word that does not begin with "~", does
\* not go up from a link and does not name a link that leads somewhere lies in
\* a safe directory (AllowedStaysInside: NewSafePaths, Classify, Check and
\* Aggregate together).
THEOREM AllowedCallsStayInside ==
  ASSUME CdsAreDirect
  PROVE  Spec => []AllowedStaysInside
  <1>1. IInv => AllowedStaysInside
    BY DEF IInv, Answered, AllowedStaysInside, Noticed, Harms
  <1> QED
    BY <1>1, Kept, PTL

\* By such a word an allowed call removes no safe directory and sweeps no
\* shared one (SharedRootsKept: safe_paths.go:223).
THEOREM SharedRootsAreKept ==
  ASSUME CdsAreDirect
  PROVE  Spec => []SharedRootsKept
  <1>1. IInv => SharedRootsKept
    BY DEF IInv, Answered, SharedRootsKept, Noticed, Harms
  <1> QED
    BY <1>1, Kept, PTL

\* By such a word an allowed call removes neither the home directory nor what
\* holds it, also when a safe directory covers it (HomeStays: safe_paths.go:190).
THEOREM HomeIsKept ==
  ASSUME CdsAreDirect, HomeIsUsual
  PROVE  Spec => []HomeStays
  <1>1. IInv => HomeStays
    BY DEF IInv, Answered, HomeStays, Noticed, Harms
  <1> QED
    BY <1>1, Kept, PTL

=============================================================================
