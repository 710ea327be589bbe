----------------------------- MODULE Paths_proofs -----------------------------
(***************************************************************************)
(* What the functions on paths compute, for paths of any length and every  *)
(* file system: Clean, Follow and Realpath, and how they agree.            *)
(***************************************************************************)
EXTENDS Paths, WellFoundedInduction, SequenceTheorems, TLAPS

-----------------------------------------------------------------------------
(* Induction over the length of a path.                                    *)

\* Every set of numbers that is not empty has a least one.
LEMMA LeastNat ==
  ASSUME NEW S \in SUBSET Nat, S # {}
  PROVE  \E m \in S : \A n \in S : m <= n
  <1> DEFINE R == {pair \in Nat \X Nat : pair[1] < pair[2]}
  <1>1. \A i, j \in Nat : <<i, j>> \in R <=> i < j
    OBVIOUS
  <1>2. IsWellFoundedOn(R, Nat)
    BY NatLessThanWellFounded DEF OpToRel
  <1> HIDE DEF R
  <1>3. PICK m \in S : \A n \in S : ~(<<n, m>> \in R)
    BY <1>2, WFMin
  <1>4. \A n \in S : m <= n
    <2> TAKE n \in S
    <2>1. m \in Nat /\ n \in Nat
      OBVIOUS
    <2>2. ~(n < m)
      BY <1>1, <1>3, <2>1
    <2> QED
      BY <2>1, <2>2
  <1> QED
    BY <1>4

\* Induction over data, for a set of numbers.
LEMMA Inductive ==
  ASSUME NEW S \in SUBSET Nat, 0 \in S, \A n \in Nat : n \in S => n + 1 \in S
  PROVE  S = Nat
  <1> SUFFICES ASSUME Nat \ S # {} PROVE FALSE
    OBVIOUS
  <1>1. PICK m \in Nat \ S : \A n \in Nat \ S : m <= n
    BY LeastNat
  <1>2. m # 0 /\ m - 1 \in Nat /\ m - 1 + 1 = m
    BY <1>1
  <1>3. m - 1 \in S
    BY <1>1, <1>2
  <1> QED
    BY <1>1, <1>2, <1>3

-----------------------------------------------------------------------------
(* Follow and Clean, unfolded at the last name.                            *)

\* The places that Follow goes through.
IsWalk(fs, from, names, f) ==
  f = [i \in 0..Len(names) |-> IF i = 0 THEN from ELSE Step(fs, f[i - 1], names[i])]

LEMMA IsWalkExists ==
  ASSUME NEW fs, NEW from, NEW names \in Path
  PROVE  \E f : IsWalk(fs, from, names, f) /\ Follow(fs, from, names) = f[Len(names)]
  <1> USE DEF Path
  <1> DEFINE Rec(f, n) == f = [i \in 0..n |-> IF i = 0 THEN from ELSE Step(fs, f[i - 1], names[i])]
             S == {n \in Nat : \E f : Rec(f, n)}
  <1>1. 0 \in S
    <2> DEFINE f == [i \in 0..0 |-> from]
    <2>1. Rec(f, 0)
      OBVIOUS
    <2> QED
      BY <2>1
  <1>2. ASSUME NEW n \in Nat, n \in S PROVE n + 1 \in S
    <2>1. PICK f : Rec(f, n)
      BY <1>2
    <2> DEFINE g == [i \in 0..(n + 1) |-> IF i <= n THEN f[i] ELSE Step(fs, f[n], names[n + 1])]
    <2>2. ASSUME NEW i \in 0..(n + 1)
          PROVE  g[i] = IF i = 0 THEN from ELSE Step(fs, g[i - 1], names[i])
      <3>1. CASE i <= n
        BY <2>1, <3>1
      <3>2. CASE i = n + 1
        BY <3>2
      <3> QED
        BY <3>1, <3>2
    <2>3. Rec(g, n + 1)
      BY <2>2
    <2>4. n + 1 \in Nat
      OBVIOUS
    <2> HIDE DEF Rec, g
    <2>5. \E h : Rec(h, n + 1)
      BY <2>3
    <2> QED
      BY <2>4, <2>5
  <1> HIDE DEF S
  <1>3. S = Nat
    BY <1>1, <1>2, Inductive DEF S
  <1>4. Len(names) \in S
    BY <1>3
  <1>5. \E f : IsWalk(fs, from, names, f)
    BY <1>4 DEF S, IsWalk
  <1> DEFINE f == CHOOSE f : IsWalk(fs, from, names, f)
  <1>6. IsWalk(fs, from, names, f)
    BY <1>5
  <1>7. Follow(fs, from, names) = f[Len(names)]
    BY DEF Follow, IsWalk
  <1> QED
    BY <1>6, <1>7

\* One name more does not change the places before it.
LEMMA IsWalkKept ==
  ASSUME NEW fs, NEW from, NEW names \in Path, NEW name \in Name,
         NEW f, NEW g, IsWalk(fs, from, names, f), IsWalk(fs, from, Append(names, name), g)
  PROVE  \A i \in 0..Len(names) : f[i] = g[i]
  <1> USE DEF Path
  <1> DEFINE S == {n \in Nat : n <= Len(names) => f[n] = g[n]}
  <1>0. /\ Len(names) \in Nat /\ Len(Append(names, name)) = Len(names) + 1
        /\ \A i \in 1..Len(names) : Append(names, name)[i] = names[i]
    OBVIOUS
  <1>1. 0 \in S
    BY <1>0 DEF IsWalk
  <1>2. ASSUME NEW n \in Nat, n \in S PROVE n + 1 \in S
    <2> SUFFICES ASSUME n + 1 <= Len(names) PROVE f[n + 1] = g[n + 1]
      OBVIOUS
    <2>1. f[n] = g[n]
      BY <1>0, <1>2
    <2>2. f[n + 1] = Step(fs, f[n], names[n + 1])
      BY <1>0 DEF IsWalk
    <2>3. g[n + 1] = Step(fs, g[n], Append(names, name)[n + 1])
      BY <1>0 DEF IsWalk
    <2> QED
      BY <1>0, <2>1, <2>2, <2>3
  <1> HIDE DEF S
  <1>3. S = Nat
    BY <1>1, <1>2, Inductive DEF S
  <1> QED
    BY <1>0, <1>3 DEF S

LEMMA FollowNothing ==
  ASSUME NEW fs, NEW from
  PROVE  Follow(fs, from, <<>>) = from
  <1> USE DEF Path
  <1>1. <<>> \in Path /\ Len(<<>>) = 0
    OBVIOUS
  <1>2. PICK f : IsWalk(fs, from, <<>>, f) /\ Follow(fs, from, <<>>) = f[Len(<<>>)]
    BY <1>1, IsWalkExists
  <1> QED
    BY <1>1, <1>2 DEF IsWalk

\* Follow goes name by name.
LEMMA FollowAppend ==
  ASSUME NEW fs, NEW from, NEW names \in Path, NEW name \in Name
  PROVE  Follow(fs, from, Append(names, name)) = Step(fs, Follow(fs, from, names), name)
  <1> USE DEF Path
  <1>2. PICK f : IsWalk(fs, from, names, f) /\ Follow(fs, from, names) = f[Len(names)]
    BY IsWalkExists
  <1> DEFINE more == Append(names, name)
  <1>3. more \in Path /\ Len(more) = Len(names) + 1 /\ more[Len(names) + 1] = name /\ Len(names) \in Nat
    OBVIOUS
  <1>4. PICK g : IsWalk(fs, from, more, g) /\ Follow(fs, from, more) = g[Len(more)]
    BY <1>3, IsWalkExists
  <1>5. f[Len(names)] = g[Len(names)]
    BY <1>2, <1>3, <1>4, IsWalkKept
  <1>6. g[Len(more)] = Step(fs, g[Len(names)], name)
    BY <1>3, <1>4 DEF IsWalk
  <1> QED
    BY <1>2, <1>4, <1>5, <1>6

\* What Clean has after each name.
IsCleaning(names, f) ==
  f = [i \in 0..Len(names) |-> IF i = 0 THEN Root ELSE Enter(f[i - 1], names[i])]

LEMMA IsCleaningExists ==
  ASSUME NEW names \in Path
  PROVE  \E f : IsCleaning(names, f) /\ Clean(names) = f[Len(names)]
  <1> USE DEF Path
  <1> DEFINE Rec(f, n) == f = [i \in 0..n |-> IF i = 0 THEN Root ELSE Enter(f[i - 1], names[i])]
             S == {n \in Nat : \E f : Rec(f, n)}
  <1>1. 0 \in S
    <2> DEFINE f == [i \in 0..0 |-> Root]
    <2>1. Rec(f, 0)
      OBVIOUS
    <2> QED
      BY <2>1
  <1>2. ASSUME NEW n \in Nat, n \in S PROVE n + 1 \in S
    <2>1. PICK f : Rec(f, n)
      BY <1>2
    <2> DEFINE g == [i \in 0..(n + 1) |-> IF i <= n THEN f[i] ELSE Enter(f[n], names[n + 1])]
    <2>2. ASSUME NEW i \in 0..(n + 1)
          PROVE  g[i] = IF i = 0 THEN Root ELSE Enter(g[i - 1], names[i])
      <3>1. CASE i <= n
        BY <2>1, <3>1
      <3>2. CASE i = n + 1
        BY <3>2
      <3> QED
        BY <3>1, <3>2
    <2>3. Rec(g, n + 1)
      BY <2>2
    <2>4. n + 1 \in Nat
      OBVIOUS
    <2> HIDE DEF Rec, g
    <2>5. \E h : Rec(h, n + 1)
      BY <2>3
    <2> QED
      BY <2>4, <2>5
  <1> HIDE DEF S
  <1>3. S = Nat
    BY <1>1, <1>2, Inductive DEF S
  <1>4. Len(names) \in S
    BY <1>3
  <1>5. \E f : IsCleaning(names, f)
    BY <1>4 DEF S, IsCleaning
  <1> DEFINE f == CHOOSE f : IsCleaning(names, f)
  <1>6. IsCleaning(names, f)
    BY <1>5
  <1>7. Clean(names) = f[Len(names)]
    BY DEF Clean, IsCleaning
  <1> QED
    BY <1>6, <1>7

\* One name more does not change the places before it.
LEMMA IsCleaningKept ==
  ASSUME NEW names \in Path, NEW name \in Name,
         NEW f, NEW g, IsCleaning(names, f), IsCleaning(Append(names, name), g)
  PROVE  \A i \in 0..Len(names) : f[i] = g[i]
  <1> USE DEF Path
  <1> DEFINE S == {n \in Nat : n <= Len(names) => f[n] = g[n]}
  <1>0. /\ Len(names) \in Nat /\ Len(Append(names, name)) = Len(names) + 1
        /\ \A i \in 1..Len(names) : Append(names, name)[i] = names[i]
    OBVIOUS
  <1>1. 0 \in S
    BY <1>0 DEF IsCleaning
  <1>2. ASSUME NEW n \in Nat, n \in S PROVE n + 1 \in S
    <2> SUFFICES ASSUME n + 1 <= Len(names) PROVE f[n + 1] = g[n + 1]
      OBVIOUS
    <2>1. f[n] = g[n]
      BY <1>0, <1>2
    <2>2. f[n + 1] = Enter(f[n], names[n + 1])
      BY <1>0 DEF IsCleaning
    <2>3. g[n + 1] = Enter(g[n], Append(names, name)[n + 1])
      BY <1>0 DEF IsCleaning
    <2> QED
      BY <1>0, <2>1, <2>2, <2>3
  <1> HIDE DEF S
  <1>3. S = Nat
    BY <1>1, <1>2, Inductive DEF S
  <1> QED
    BY <1>0, <1>3 DEF S

LEMMA CleanNothing ==
  Clean(<<>>) = Root
  <1> USE DEF Path
  <1>1. <<>> \in Path /\ Len(<<>>) = 0
    OBVIOUS
  <1>2. PICK f : IsCleaning(<<>>, f) /\ Clean(<<>>) = f[Len(<<>>)]
    BY <1>1, IsCleaningExists
  <1> QED
    BY <1>1, <1>2 DEF IsCleaning

\* Clean goes name by name.
LEMMA CleanAppend ==
  ASSUME NEW names \in Path, NEW name \in Name
  PROVE  Clean(Append(names, name)) = Enter(Clean(names), name)
  <1> USE DEF Path
  <1>2. PICK f : IsCleaning(names, f) /\ Clean(names) = f[Len(names)]
    BY IsCleaningExists
  <1> DEFINE more == Append(names, name)
  <1>3. more \in Path /\ Len(more) = Len(names) + 1 /\ more[Len(names) + 1] = name /\ Len(names) \in Nat
    OBVIOUS
  <1>4. PICK g : IsCleaning(more, g) /\ Clean(more) = g[Len(more)]
    BY <1>3, IsCleaningExists
  <1>5. f[Len(names)] = g[Len(names)]
    BY <1>2, <1>3, <1>4, IsCleaningKept
  <1>6. g[Len(more)] = Enter(g[Len(names)], name)
    BY <1>3, <1>4 DEF IsCleaning
  <1> QED
    BY <1>2, <1>4, <1>5, <1>6

-----------------------------------------------------------------------------
(* Paths, name by name.                                                    *)

\* The two ends of a path.
LEMMA Ends ==
  ASSUME NEW names \in Path, names # <<>>
  PROVE  /\ Front(names) \in Path /\ Last(names) \in Name
         /\ names = Append(Front(names), Last(names)) /\ Len(names) = Len(Front(names)) + 1
  <1>1. /\ Front(names) \in Path /\ Last(names) \in Name
        /\ names = Append(Front(names), Last(names))
    BY DEF Path, Front, Last
  <1>2. Len(Append(Front(names), Last(names))) = Len(Front(names)) + 1
    BY <1>1 DEF Path
  <1> QED
    BY <1>1, <1>2

LEMMA Longer ==
  ASSUME NEW names \in Path, NEW name \in Name
  PROVE  /\ Append(names, name) \in Path /\ Append(names, name) # <<>>
         /\ Front(Append(names, name)) = names /\ Last(Append(names, name)) = name
         /\ Parent(Append(names, name)) = names
         /\ \A path \in Path : Append(path, name) = Append(names, name) => path = names
  <1>1. /\ Append(names, name) \in Path /\ Append(names, name) # <<>>
        /\ Front(Append(names, name)) = names /\ Last(Append(names, name)) = name
    BY DEF Path, Front, Last
  <1>2. ASSUME NEW path \in Path, Append(path, name) = Append(names, name) PROVE path = names
    <2>1. Front(Append(path, name)) = path
      BY DEF Path, Front
    <2> QED
      BY <1>1, <1>2, <2>1
  <1> QED
    BY <1>1, <1>2 DEF Parent, Root

\* What holds of the root and goes from a path to those one name longer holds
\* of every path.
LEMMA PathInduction ==
  ASSUME NEW S \in SUBSET Path, <<>> \in S,
         \A names \in S, name \in Name : Append(names, name) \in S
  PROVE  S = Path
  <1> DEFINE N == {n \in Nat : \A names \in Path : Len(names) = n => names \in S}
  <1>1. 0 \in N
    <2>1. \A names \in Path : Len(names) = 0 => names = <<>>
      BY DEF Path
    <2> QED
      BY <2>1
  <1>2. ASSUME NEW n \in Nat, n \in N PROVE n + 1 \in N
    <2> SUFFICES ASSUME NEW names \in Path, Len(names) = n + 1 PROVE names \in S
      OBVIOUS
    <2>1. names # <<>>
      BY <1>2
    <2>2. Front(names) \in Path /\ Len(names) = Len(Front(names)) + 1
      BY <2>1, Ends
    <2>4. Len(Front(names)) \in Nat
      BY <2>2 DEF Path
    <2>3. Front(names) \in S
      BY <1>2, <2>2, <2>4
    <2> QED
      BY <2>1, <2>3, Ends
  <1> HIDE DEF N
  <1>3. N = Nat
    BY <1>1, <1>2, Inductive DEF N
  <1>4. ASSUME NEW names \in Path PROVE names \in S
    <2>1. Len(names) \in N
      BY <1>3 DEF Path
    <2> QED
      BY <2>1 DEF N
  <1> QED
    BY <1>4

LEMMA RootIsPath == <<>> \in Path /\ Root = <<>> /\ Root \in Path
  BY DEF Path, Root

\* Names appended to a path.
LEMMA Joined ==
  ASSUME NEW path \in Path, NEW names \in Path
  PROVE  /\ path \o names \in Path /\ path \o <<>> = path /\ <<>> \o path = path
         /\ \A name \in Name : path \o Append(names, name) = Append(path \o names, name)
  <1> USE DEF Path
  <1>1. /\ path \o names \in Path /\ path \o <<>> = path /\ <<>> \o path = path
    BY ConcatProperties, ConcatEmptySeq
  <1>2. \A name \in Name : path \o Append(names, name) = Append(path \o names, name)
    OBVIOUS
  <1> QED
    BY <1>1, <1>2

\* pathInside.
LEMMA InsideFacts ==
  ASSUME NEW path \in Path, NEW dir \in Path
  PROVE  /\ Inside(path, path) /\ Inside(path, Root)
         /\ \A name \in Name :
              /\ Inside(path, dir) => Inside(Append(path, name), dir)
              /\ Inside(Append(path, name), dir) => dir = Append(path, name) \/ Inside(path, dir)
  <1> USE DEF Path
  <1>1. ASSUME NEW p \in Path, NEW d \in Path
        PROVE  Inside(p, d) <=> Len(d) <= Len(p) /\ \A i \in 1..Len(d) : p[i] = d[i]
    <2>1. Len(p) \in Nat /\ Len(d) \in Nat
      OBVIOUS
    <2>2. ASSUME Len(d) <= Len(p)
          PROVE  SubSeq(d, 1, Len(d)) = SubSeq(p, 1, Len(d)) <=> \A i \in 1..Len(d) : p[i] = d[i]
      <3>1. /\ SubSeq(d, 1, Len(d)) \in Seq(Name) /\ SubSeq(p, 1, Len(d)) \in Seq(Name)
            /\ Len(SubSeq(d, 1, Len(d))) = Len(d) /\ Len(SubSeq(p, 1, Len(d))) = Len(d)
            /\ \A i \in 1..Len(d) : SubSeq(d, 1, Len(d))[i] = d[i] /\ SubSeq(p, 1, Len(d))[i] = p[i]
        BY <2>1, <2>2
      <3> QED
        BY <3>1, SeqEqual
    <2> QED
      BY <2>1, <2>2 DEF Inside, IsPrefix
  <1>2. Inside(path, path) /\ Inside(path, Root)
    <2>1. Root \in Path /\ Len(Root) = 0 /\ Len(path) \in Nat
      BY DEF Root
    <2>2. Len(Root) <= Len(path) /\ \A i \in 1..Len(Root) : path[i] = Root[i]
      BY <2>1
    <2>3. Len(path) <= Len(path)
      BY <2>1
    <2> HIDE DEF Path
    <2> QED
      BY <1>1, <2>1, <2>2, <2>3
  <1>3. ASSUME NEW name \in Name
        PROVE  /\ Inside(path, dir) => Inside(Append(path, name), dir)
               /\ Inside(Append(path, name), dir) => dir = Append(path, name) \/ Inside(path, dir)
    <2> DEFINE more == Append(path, name)
    <2>1. /\ more \in Path /\ Len(more) = Len(path) + 1 /\ Len(dir) \in Nat
          /\ \A i \in 1..Len(path) : more[i] = path[i] /\ Len(path) \in Nat
      OBVIOUS
    <2> HIDE DEF more
    <2>2. Inside(path, dir) => Inside(more, dir)
      <3> SUFFICES ASSUME Inside(path, dir) PROVE Inside(more, dir)
        OBVIOUS
      <3>1. Len(dir) <= Len(path) /\ \A i \in 1..Len(dir) : path[i] = dir[i]
        BY <1>1
      <3>2. Len(dir) <= Len(more) /\ \A i \in 1..Len(dir) : more[i] = dir[i]
        BY <2>1, <3>1
      <3> QED
        BY <2>1, <1>1, <3>2
    <2>3. Inside(more, dir) => dir = more \/ Inside(path, dir)
      <3> SUFFICES ASSUME Inside(more, dir), ~Inside(path, dir) PROVE dir = more
        OBVIOUS
      <3>1. /\ Len(dir) <= Len(path) + 1 /\ \A i \in 1..Len(dir) : more[i] = dir[i]
            /\ ~(Len(dir) <= Len(path) /\ \A i \in 1..Len(dir) : path[i] = dir[i])
        BY <2>1, <1>1
      <3>2. Len(dir) = Len(path) + 1
        BY <2>1, <3>1
      <3> QED
        BY <2>1, <3>1, <3>2, SeqEqual
    <2> QED
      BY <2>2, <2>3 DEF more
  <1> QED
    BY <1>2, <1>3

\* One path below another one, below a third.
LEMMA InsideInside ==
  ASSUME NEW path \in Path, NEW dir \in Path, NEW top \in Path, Inside(path, dir), Inside(dir, top)
  PROVE  Inside(path, top)
  <1> DEFINE S == {p \in Path : Inside(p, dir) => Inside(p, top)}
  <1>1. <<>> \in S
    <2> SUFFICES ASSUME Inside(<<>>, dir) PROVE Inside(<<>>, top)
      BY RootIsPath
    <2>1. dir = <<>>
      BY DEF Inside, IsPrefix, Path
    <2> QED
      BY <2>1
  <1>2. ASSUME NEW p \in S, NEW name \in Name PROVE Append(p, name) \in S
    <2>1. Append(p, name) \in Path
      BY Longer
    <2>2. Inside(Append(p, name), dir) => dir = Append(p, name) \/ Inside(p, dir)
      BY InsideFacts
    <2>3. Inside(p, top) => Inside(Append(p, name), top)
      BY InsideFacts
    <2> QED
      BY <1>2, <2>1, <2>2, <2>3
  <1> HIDE DEF S
  <1>3. S = Path
    BY <1>1, <1>2, PathInduction DEF S
  <1> QED
    BY <1>3 DEF S

-----------------------------------------------------------------------------
(* Clean.                                                                  *)

LEMMA GoesUpAppend ==
  ASSUME NEW names \in Path, NEW name \in Name
  PROVE  /\ ~GoesUp(<<>>)
         /\ GoesUp(Append(names, name)) <=> GoesUp(names) \/ name = ".."
  <1> USE DEF Path
  <1>1. DOMAIN <<>> = {} /\ DOMAIN names = 1..Len(names) /\ Len(names) \in Nat
    OBVIOUS
  <1> DEFINE more == Append(names, name)
  <1>2. /\ DOMAIN more = 1..(Len(names) + 1) /\ more[Len(names) + 1] = name
        /\ \A i \in 1..Len(names) : more[i] = names[i]
    OBVIOUS
  <1> HIDE DEF more
  <1>3. GoesUp(more) <=> GoesUp(names) \/ name = ".."
    BY <1>1, <1>2 DEF GoesUp
  <1> QED
    BY <1>1, <1>3 DEF GoesUp, more

LEMMA GoesUpJoined ==
  ASSUME NEW path \in Path, NEW names \in Path
  PROVE  GoesUp(path \o names) <=> GoesUp(path) \/ GoesUp(names)
  <1> DEFINE S == {b \in Path : GoesUp(path \o b) <=> GoesUp(path) \/ GoesUp(b)}
  <1>1. <<>> \in S
    <2>1. path \o <<>> = path /\ ~GoesUp(<<>>)
      BY DEF Path, GoesUp
    <2> QED
      BY <2>1, RootIsPath
  <1>2. ASSUME NEW b \in S, NEW name \in Name PROVE Append(b, name) \in S
    <2>1. path \o Append(b, name) = Append(path \o b, name) /\ path \o b \in Path
      BY Joined
    <2>2. /\ GoesUp(Append(path \o b, name)) <=> GoesUp(path \o b) \/ name = ".."
          /\ GoesUp(Append(b, name)) <=> GoesUp(b) \/ name = ".."
      BY <2>1, GoesUpAppend
    <2> QED
      BY <1>2, <2>1, <2>2, Longer
  <1> HIDE DEF S
  <1>3. S = Path
    BY <1>1, <1>2, PathInduction DEF S
  <1> QED
    BY <1>3 DEF S

\* Clean makes a path that does not go up, and leaves one that does not alone.
LEMMA Cleaned ==
  ASSUME NEW names \in Path
  PROVE  /\ Clean(names) \in Path /\ ~GoesUp(Clean(names))
         /\ ~GoesUp(names) => Clean(names) = names
  <1> DEFINE S == {b \in Path : /\ Clean(b) \in Path /\ ~GoesUp(Clean(b))
                                /\ ~GoesUp(b) => Clean(b) = b}
  <1>1. <<>> \in S
    <2>1. Clean(<<>>) = <<>>
      BY CleanNothing, RootIsPath
    <2> QED
      BY <2>1, RootIsPath DEF GoesUp
  <1>2. ASSUME NEW b \in S, NEW name \in Name PROVE Append(b, name) \in S
    <2>1. Clean(Append(b, name)) = Enter(Clean(b), name)
      BY CleanAppend
    <2>2. Append(b, name) \in Path /\ (GoesUp(Append(b, name)) <=> GoesUp(b) \/ name = "..")
      BY Longer, GoesUpAppend
    <2>3. CASE name = ".."
      <3>1. Clean(Append(b, name)) = Parent(Clean(b))
        BY <2>1, <2>3 DEF Enter
      <3>2. CASE Clean(b) = Root
        BY <1>2, <2>2, <2>3, <3>1, <3>2 DEF Parent
      <3>3. CASE Clean(b) # Root
        <4>0. ~GoesUp(Clean(b)) /\ Clean(b) \in Path
          BY <1>2
        <4>1. PICK p \in Path, n \in Name : Clean(b) = Append(p, n)
          BY <1>2, <3>3, Ends, RootIsPath
        <4>2. Parent(Clean(b)) = p /\ ~GoesUp(p)
          BY <4>0, <4>1, Longer, GoesUpAppend
        <4> QED
          BY <1>2, <2>2, <2>3, <3>1, <4>2
      <3> QED
        BY <3>2, <3>3
    <2>4. CASE name # ".."
      <3>1. Clean(Append(b, name)) = Append(Clean(b), name)
        BY <2>1, <2>4 DEF Enter
      <3>2. Append(Clean(b), name) \in Path /\ ~GoesUp(Append(Clean(b), name))
        BY <1>2, <2>4, Longer, GoesUpAppend
      <3> QED
        BY <1>2, <2>2, <2>4, <3>1, <3>2
    <2> QED
      BY <2>3, <2>4
  <1> HIDE DEF S
  <1>3. S = Path
    BY <1>1, <1>2, PathInduction DEF S
  <1> QED
    BY <1>3 DEF S

\* The beginning may be cleaned first.
LEMMA CleanJoined ==
  ASSUME NEW path \in Path, NEW names \in Path
  PROVE  Clean(path \o names) = Clean(Clean(path) \o names)
  <1> DEFINE S == {b \in Path : Clean(path \o b) = Clean(Clean(path) \o b)}
  <1>0. Clean(path) \in Path
    BY Cleaned
  <1>1. <<>> \in S
    <2>1. path \o <<>> = path /\ Clean(path) \o <<>> = Clean(path)
      BY <1>0, RootIsPath, Joined
    <2>2. Clean(Clean(path)) = Clean(path)
      BY <1>0, Cleaned
    <2> QED
      BY <2>1, <2>2, RootIsPath
  <1>2. ASSUME NEW b \in S, NEW name \in Name PROVE Append(b, name) \in S
    <2>1. /\ path \o Append(b, name) = Append(path \o b, name) /\ path \o b \in Path
          /\ Clean(path) \o Append(b, name) = Append(Clean(path) \o b, name) /\ Clean(path) \o b \in Path
      BY <1>0, Joined
    <2>2. /\ Clean(Append(path \o b, name)) = Enter(Clean(path \o b), name)
          /\ Clean(Append(Clean(path) \o b, name)) = Enter(Clean(Clean(path) \o b), name)
      BY <2>1, CleanAppend
    <2> QED
      BY <1>2, <2>1, <2>2, Longer
  <1> HIDE DEF S
  <1>3. S = Path
    BY <1>1, <1>2, PathInduction DEF S
  <1> QED
    BY <1>3 DEF S

-----------------------------------------------------------------------------
(* Walks through a file system.                                            *)

\* Where a walk may be: an entry that is no link, or nowhere.
Places(fs) == fs.dirs \cup fs.files

LEMMA TreeFacts ==
  ASSUME NEW fs, WellFormed(fs)
  PROVE  /\ Root \in fs.dirs /\ Places(fs) \subseteq Path /\ Nodes(fs) \subseteq Path
         /\ Missing \notin Places(fs)
         /\ \A dir \in fs.dirs : Parent(dir) \in fs.dirs
         /\ \A path \in Path, name \in Name :
              Append(path, name) \in Nodes(fs) => path \in fs.dirs /\ name \notin {"..", "*"}
         /\ \A path \in DOMAIN fs.links : path \notin Places(fs)
  <1>1. /\ Root \in fs.dirs /\ Places(fs) \subseteq Path /\ Nodes(fs) \subseteq Path
        /\ \A path \in DOMAIN fs.links : path \notin Places(fs)
    BY DEF WellFormed, Places, Nodes
  <1>2. Missing \notin Places(fs)
    BY <1>1, PathsAssumption
  <1>3. \A dir \in fs.dirs : Parent(dir) \in fs.dirs
    BY DEF WellFormed, Nodes, Parent
  <1>4. ASSUME NEW path \in Path, NEW name \in Name, Append(path, name) \in Nodes(fs)
        PROVE  path \in fs.dirs /\ name \notin {"..", "*"}
    <2>1. Append(path, name) # Root /\ Parent(Append(path, name)) = path /\ Last(Append(path, name)) = name
      BY Longer, RootIsPath
    <2> QED
      BY <1>4, <2>1 DEF WellFormed
  <1> QED
    BY <1>1, <1>2, <1>3, <1>4

\* One step of a walk.
LEMMA StepFacts ==
  ASSUME NEW fs, WellFormed(fs), NEW at \in Places(fs) \cup {Missing}, NEW name \in Name
  PROVE  /\ Step(fs, at, name) \in Places(fs) \cup {Missing}
         /\ Step(fs, at, name) # Missing => at \in fs.dirs
         /\ at \in fs.dirs /\ name = ".." => Step(fs, at, name) = Parent(at)
         /\ name # ".." /\ Append(at, name) \notin DOMAIN fs.links
              => Step(fs, at, name) = IF at \in fs.dirs /\ Append(at, name) \in Places(fs)
                                      THEN Append(at, name) ELSE Missing
  <1>1. Missing \notin fs.dirs /\ \A dir \in fs.dirs : Parent(dir) \in Places(fs)
    BY TreeFacts DEF Places
  <1> QED
    BY <1>1 DEF Step, Places

\* A walk that has lost its way stays so, and a walk comes to no link.
LEMMA WalkStays ==
  ASSUME NEW fs, WellFormed(fs), NEW from \in Places(fs) \cup {Missing}, NEW names \in Path
  PROVE  /\ Follow(fs, from, names) \in Places(fs) \cup {Missing}
         /\ from = Missing => Follow(fs, from, names) = Missing
  <1> DEFINE S == {b \in Path : /\ Follow(fs, from, b) \in Places(fs) \cup {Missing}
                                /\ from = Missing => Follow(fs, from, b) = Missing}
  <1>1. <<>> \in S
    BY FollowNothing, RootIsPath
  <1>2. ASSUME NEW b \in S, NEW name \in Name PROVE Append(b, name) \in S
    <2>1. Follow(fs, from, Append(b, name)) = Step(fs, Follow(fs, from, b), name)
      BY FollowAppend
    <2>2. Step(fs, Missing, name) = Missing
      BY DEF Step
    <2> QED
      BY <1>2, <2>1, <2>2, StepFacts, Longer
  <1> HIDE DEF S
  <1>3. S = Path
    BY <1>1, <1>2, PathInduction DEF S
  <1> QED
    BY <1>3 DEF S

\* What a walk passes is a directory.
LEMMA PassesDirs ==
  ASSUME NEW fs, WellFormed(fs), NEW from \in Places(fs) \cup {Missing},
         NEW names \in Path, NEW name \in Name, Follow(fs, from, Append(names, name)) # Missing
  PROVE  Follow(fs, from, names) \in fs.dirs
  BY FollowAppend, WalkStays, StepFacts

\* A walk in two parts.
LEMMA WalkJoined ==
  ASSUME NEW fs, NEW from, NEW path \in Path, NEW names \in Path
  PROVE  Follow(fs, from, path \o names) = Follow(fs, Follow(fs, from, path), names)
  <1> DEFINE S == {b \in Path : Follow(fs, from, path \o b) = Follow(fs, Follow(fs, from, path), b)}
  <1>1. <<>> \in S
    BY FollowNothing, RootIsPath, Joined
  <1>2. ASSUME NEW b \in S, NEW name \in Name PROVE Append(b, name) \in S
    <2>1. path \o Append(b, name) = Append(path \o b, name) /\ path \o b \in Path
      BY Joined
    <2>2. /\ Follow(fs, from, Append(path \o b, name)) = Step(fs, Follow(fs, from, path \o b), name)
          /\ Follow(fs, Follow(fs, from, path), Append(b, name))
               = Step(fs, Follow(fs, Follow(fs, from, path), b), name)
      BY <2>1, FollowAppend
    <2> QED
      BY <1>2, <2>1, <2>2, Longer
  <1> HIDE DEF S
  <1>3. S = Path
    BY <1>1, <1>2, PathInduction DEF S
  <1> QED
    BY <1>3 DEF S

\* The path of an entry that is no link leads there and does not go up.
LEMMA Canonical ==
  ASSUME NEW fs, WellFormed(fs), NEW node \in Places(fs)
  PROVE  Follow(fs, Root, node) = node /\ ~GoesUp(node)
  <1> DEFINE S == {b \in Path : b \in Places(fs) => Follow(fs, Root, b) = b /\ ~GoesUp(b)}
  <1>1. <<>> \in S
    BY FollowNothing, RootIsPath DEF GoesUp
  <1>2. ASSUME NEW b \in S, NEW name \in Name PROVE Append(b, name) \in S
    <2> SUFFICES ASSUME Append(b, name) \in Places(fs)
                 PROVE  Follow(fs, Root, Append(b, name)) = Append(b, name) /\ ~GoesUp(Append(b, name))
      BY Longer
    <2>1. b \in fs.dirs /\ name # ".." /\ Append(b, name) \notin DOMAIN fs.links
      BY TreeFacts DEF Places, Nodes
    <2>2. Follow(fs, Root, b) = b /\ ~GoesUp(b)
      BY <1>2, <2>1 DEF Places
    <2>3. Follow(fs, Root, Append(b, name)) = Step(fs, b, name)
      BY <2>2, FollowAppend
    <2>4. Step(fs, b, name) = Append(b, name)
      BY <2>1, StepFacts DEF Places
    <2> QED
      BY <2>1, <2>2, <2>3, <2>4, GoesUpAppend
  <1> HIDE DEF S
  <1>3. S = Path
    BY <1>1, <1>2, PathInduction DEF S
  <1> QED
    BY <1>3, TreeFacts DEF S

\* One name more, and where the path goes up from.
LEMMA UpAppend ==
  ASSUME NEW fs, NEW base \in Path, NEW names \in Path, NEW name \in Name,
         ~UpFromLink(fs, base, Append(names, name))
  PROVE  /\ ~UpFromLink(fs, base, names)
         /\ name = ".." => Follow(fs, Root, base \o names) = Clean(base \o names)
  <1> DEFINE more == Append(names, name)
             Agrees(front) == Follow(fs, Root, base \o front) = Clean(base \o front)
  <1>1. /\ Len(names) \in Nat /\ DOMAIN names = 1..Len(names)
        /\ DOMAIN more = 1..(Len(names) + 1) /\ more[Len(names) + 1] = name
        /\ \A i \in 1..Len(names) : more[i] = names[i]
    BY DEF Path
  <1>2. ASSUME NEW i \in 1..(Len(names) + 1) PROVE SubSeq(more, 1, i - 1) = SubSeq(names, 1, i - 1)
    <2>1. /\ SubSeq(more, 1, i - 1) \in Seq(Name) /\ SubSeq(names, 1, i - 1) \in Seq(Name)
          /\ Len(SubSeq(more, 1, i - 1)) = i - 1 /\ Len(SubSeq(names, 1, i - 1)) = i - 1
          /\ \A j \in 1..(i - 1) : SubSeq(more, 1, i - 1)[j] = more[j] /\ SubSeq(names, 1, i - 1)[j] = names[j]
      BY <1>1 DEF Path
    <2>2. \A j \in 1..(i - 1) : more[j] = names[j]
      BY <1>1
    <2> QED
      BY <1>1, <2>1, <2>2, SeqEqual
  <1>3. SubSeq(names, 1, (Len(names) + 1) - 1) = names
    <2>1. (Len(names) + 1) - 1 = Len(names)
      BY <1>1
    <2>2. /\ SubSeq(names, 1, Len(names)) \in Seq(Name) /\ Len(SubSeq(names, 1, Len(names))) = Len(names)
          /\ \A j \in 1..Len(names) : SubSeq(names, 1, Len(names))[j] = names[j]
      BY <1>1 DEF Path
    <2>3. SubSeq(names, 1, Len(names)) = names
      BY <1>1, <2>2, SeqEqual DEF Path
    <2> QED
      BY <2>1, <2>3
  <1> HIDE DEF more
  <1>4. \A i \in 1..(Len(names) + 1) : more[i] = ".." => Agrees(SubSeq(more, 1, i - 1))
    BY <1>1 DEF UpFromLink, more
  <1> HIDE DEF Agrees
  <1>5. \A i \in 1..Len(names) : names[i] = ".." => Agrees(SubSeq(names, 1, i - 1))
    <2> SUFFICES ASSUME NEW i \in 1..Len(names), names[i] = ".." PROVE Agrees(SubSeq(names, 1, i - 1))
      OBVIOUS
    <2>1. i \in 1..(Len(names) + 1) /\ more[i] = ".."
      BY <1>1
    <2> QED
      BY <1>2, <1>4, <2>1
  <1>6. name = ".." => Agrees(names)
    <2> SUFFICES ASSUME name = ".." PROVE Agrees(names)
      OBVIOUS
    <2>1. Len(names) + 1 \in 1..(Len(names) + 1) /\ more[Len(names) + 1] = ".."
      BY <1>1
    <2>2. Agrees(SubSeq(more, 1, (Len(names) + 1) - 1))
      BY <1>4, <2>1
    <2> QED
      BY <1>2, <1>3, <2>1, <2>2
  <1>7. ~UpFromLink(fs, base, names)
    BY <1>1, <1>5 DEF UpFromLink, Agrees
  <1> QED
    BY <1>6, <1>7 DEF Agrees

\* Where no link is gone up from, the kernel goes where Clean says.
LEMMA CleanAgrees ==
  ASSUME NEW fs, WellFormed(fs), NEW base \in Path, ~GoesUp(base), NEW names \in Path,
         ~UpFromLink(fs, base, names), Follow(fs, Root, base \o names) # Missing
  PROVE  Follow(fs, Root, Clean(base \o names)) = Follow(fs, Root, base \o names)
  <1> DEFINE Walked(b) == Follow(fs, Root, base \o b)
             S == {b \in Path : ~UpFromLink(fs, base, b) /\ Walked(b) # Missing
                                  => Follow(fs, Root, Clean(base \o b)) = Walked(b)}
  <1>0. Root \in Places(fs)
    BY TreeFacts DEF Places
  <1>1. <<>> \in S
    <2>1. base \o <<>> = base /\ Clean(base) = base
      BY RootIsPath, Joined, Cleaned
    <2> QED
      BY <2>1, RootIsPath
  <1>2. ASSUME NEW b \in S, NEW name \in Name PROVE Append(b, name) \in S
    <2> DEFINE more == Append(b, name)
               at == Walked(b)
               place == Clean(base \o b)
    <2> SUFFICES ASSUME ~UpFromLink(fs, base, more), Walked(more) # Missing
                 PROVE  Follow(fs, Root, Clean(base \o more)) = Walked(more)
      BY Longer
    <2>1. base \o more = Append(base \o b, name) /\ base \o b \in Path /\ place \in Path
      BY Joined, Cleaned
    <2>2. Walked(more) = Step(fs, at, name) /\ at \in fs.dirs
      BY <1>0, <2>1, FollowAppend, PassesDirs
    <2>3. at # Missing
      BY <2>2, TreeFacts DEF Places
    <2>4. ~UpFromLink(fs, base, b) /\ (name = ".." => at = place)
      BY <1>2, UpAppend
    <2>5. Follow(fs, Root, place) = at
      BY <1>2, <2>3, <2>4
    <2>6. Clean(base \o more) = Enter(place, name)
      BY <2>1, CleanAppend
    <2> HIDE DEF more, at, place, Walked
    <2>7. CASE name = ".."
      <3>1. Enter(place, name) = Parent(at) /\ Parent(at) \in Places(fs)
        BY <2>2, <2>4, <2>7, TreeFacts DEF Enter, Places
      <3>2. Step(fs, at, name) = Parent(at)
        BY <2>2, <2>7, StepFacts DEF Places
      <3> QED
        BY <2>2, <2>6, <3>1, <3>2, Canonical
    <2>8. CASE name # ".."
      <3>1. Enter(place, name) = Append(place, name)
        BY <2>8 DEF Enter
      <3> QED
        BY <2>1, <2>2, <2>5, <2>6, <3>1, FollowAppend
    <2> QED
      BY <2>7, <2>8
  <1> HIDE DEF S
  <1>3. S = Path
    BY <1>1, <1>2, PathInduction DEF S
  <1> QED
    BY <1>3 DEF S

\* realpath.
LEMMA RealpathFacts ==
  ASSUME NEW fs, WellFormed(fs), NEW path \in Path
  PROVE  /\ Realpath(fs, path) \in Path
         /\ Follow(fs, Root, path) # Missing => Realpath(fs, path) = Follow(fs, Root, path)
         /\ Follow(fs, Root, path) = Missing => Realpath(fs, path) = path
         /\ path \in Places(fs) => Realpath(fs, path) = path
  <1>1. Follow(fs, Root, path) \in Places(fs) \cup {Missing}
    BY WalkStays, TreeFacts DEF Places
  <1> QED
    BY <1>1, TreeFacts, Canonical DEF Realpath

=============================================================================
