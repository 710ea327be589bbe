---------------------------- MODULE Unwrap_proofs ----------------------------
(***************************************************************************)
(* What holds of the loop over wrappers (Unwrap) for commands of every     *)
(* length, wrappers nested to every depth, and all tables of options that  *)
(* agree with those of the code.                                           *)
(***************************************************************************)
EXTENDS Unwrap, WellFoundedInduction, SequenceTheorems, TLAPS

-----------------------------------------------------------------------------
(* The invariant.                                                          *)

From(words, p) == SubSeq(words, p, Len(words))

Around(words, P, p) == UNION {FlagOf(Base(words[q])) : q \in {q \in P : q < p}}

\* The layer at p is complete, and the next program begins where it ends.
Complete(words, P, p) ==
  LET base == Base(words[p])
      next == p + LayerOf(From(words, p)) IN
  /\ base \in Handled
  /\ base # "eval" => Scan(base, Tail(From(words, p))).stop
  /\ next \in P /\ p < next
  /\ \A q \in P : q <= p \/ next <= q

Layered(words, P, s) ==
  /\ P \subseteq 1..s /\ 1 \in P /\ s \in P /\ s <= Len(words)
  /\ \A p \in P \ {s} : Complete(words, P, p)

\* What the reader knows about the words behind the program that reads them.
InOptions(words) ==
  LET scan == Scan(reader.tool, words) IN
  /\ scan.count = Len(words) /\ scan.value = reader.value
  /\ scan.stop => ~reader.open /\ ~reader.value /\ words # <<>> /\ Last(words) = <<"--">>
  /\ reader.operands = IF reader.tool \in Takers THEN 1 ELSE 0

BehindOperand(words) ==
  LET scan == Scan(reader.tool, words) IN
  /\ reader.tool \in Takers /\ reader.operands = 0 /\ ~reader.open /\ ~reader.value
  /\ scan.stop /\ scan.count + 1 = Len(words)

ReadsWrapper(words) ==
  /\ real = None
  /\ reader.tool \in Handled
  /\ IF reader.tool = "eval" THEN words = <<>> /\ ~reader.value /\ reader.operands = 0
     ELSE InOptions(words) \/ BehindOperand(words)

ReadsShell(words) ==
  LET c(i) == words[i] = Short("c") IN
  /\ reader.operands = 0
  /\ EqualsAt(words) = {}
  /\ \/ real = None /\ ~reader.script /\ \A i \in 1..Len(words) : ~c(i)
     \/ /\ real = None /\ reader.script /\ ~reader.value
        /\ words # <<>> /\ \A i \in 1..Len(words) : c(i) <=> i = Len(words)
     \/ /\ real # None /\ reader.script /\ ~reader.value
        /\ Len(words) > 1 /\ \A i \in 1..(Len(words) - 1) : c(i) <=> i = Len(words) - 1
        /\ Last(words) \in DOMAIN Scripts
        /\ LET body == Scripts[Last(words)] IN
           real = [name |-> Base(Head(body)), args |-> Tail(body), flags |-> reader.flags]

ReadsOther(words) ==
  /\ reader.operands = 0 /\ ~reader.value
  /\ real = [name |-> reader.tool, args |-> words, flags |-> reader.flags]

Removes(words) ==
  \/ Short("delete") \in ToSet(words)
  \/ \E i \in 1..(Len(words) - 1) : words[i] = Short("exec") /\ words[i + 1] = <<"/bin/", "rm">>

ReadsFind(words) ==
  /\ reader.operands = 0 /\ ~reader.value
  /\ Len(reader.roots) <= Len(words)
  /\ \A i \in 1..Len(reader.roots) : words[i] = reader.roots[i]
  /\ IF reader.open THEN real = None /\ Len(words) = Len(reader.roots)
     ELSE /\ Len(words) > Len(reader.roots) /\ Dashed(words[Len(reader.roots) + 1])
          /\ real = None \/ (real = AsRm(reader.roots) /\ Removes(words))

Written(P, s) ==
  LET words == Tail(From(argv, s)) IN
  /\ Layered(argv, P, s)
  /\ \A p \in P : argv[p] \in Programs
  /\ reader.tool = Base(argv[s])
  /\ reader.flags = Around(argv, P, s) \cup FlagOf(reader.tool)
  /\ reader.tool \in Wrappers => ReadsWrapper(words)
  /\ reader.tool \in Shells => ReadsShell(words)
  /\ reader.tool \in Others => ReadsOther(words)
  /\ reader.tool = "find" => ReadsFind(words)
  /\ reader.tool # "start"

NothingRead == argv = <<>> /\ reader = Reading("start", {}) /\ real = None

InScript ==
  /\ rest \in Bodies
  /\ real = [name |-> Base(Head(rest)), args |-> Tail(rest), flags |-> context]

AtLayer(P) == \E p \in P : rest = From(argv, p) /\ context = Around(argv, P, p)

Turns(P) ==
  /\ phase = "strip" /\ real # None => AtLayer(P) \/ InScript
  /\ phase = "done" /\ real # None => Recorded

UnwrapInv ==
  /\ phase = "write" => context = {} /\ executed = <<>>
  /\ phase # "done" => executed = <<>>
  /\ odd = {} =>
       \/ NothingRead /\ phase = "write"
       \/ \E P \in SUBSET (1..Len(argv)) : \E s \in P : Written(P, s) /\ Turns(P)

-----------------------------------------------------------------------------
(* Induction over the number of words.                                     *)

\* A set of numbers with 0 and with the successors of its members has all.
LEMMA AllNumbers ==
  ASSUME NEW S \in SUBSET Nat, 0 \in S, \A n \in Nat : n \in S => n + 1 \in S
  PROVE  S = Nat
  <1> SUFFICES ASSUME Nat \ S # {} PROVE FALSE
    OBVIOUS
  <1> DEFINE R == {pair \in Nat \X Nat : pair[1] < pair[2]}
  <1>1. \A i, j \in Nat : <<i, j>> \in R <=> i < j
    OBVIOUS
  <1>2. IsWellFoundedOn(R, Nat)
    BY NatLessThanWellFounded DEF OpToRel
  <1> HIDE DEF R
  <1>3. PICK m \in Nat \ S : \A n \in Nat \ S : ~(<<n, m>> \in R)
    BY <1>2, WFMin
  <1>4. m # 0 /\ m - 1 \in Nat /\ m - 1 + 1 = m
    BY <1>3
  <1>5. m - 1 \notin S
    BY <1>4
  <1>6. <<m - 1, m>> \in R
    BY <1>1, <1>4
  <1> QED
    BY <1>3, <1>4, <1>5, <1>6

-----------------------------------------------------------------------------
(* The scan of the options, unfolded at the last word.                     *)

Fresh == [count |-> 0, value |-> FALSE, stop |-> FALSE]

\* The states that the scan goes through.
IsScan(base, words, f) ==
  f = [i \in 0..Len(words) |-> IF i = 0 THEN Fresh ELSE Past(base, f[i - 1], words[i])]

LEMMA ScanExists ==
  ASSUME NEW base, NEW words \in Seq(Words)
  PROVE  \E f : IsScan(base, words, f) /\ Scan(base, words) = f[Len(words)]
  <1> DEFINE Rec(f, n) == f = [i \in 0..n |-> IF i = 0 THEN Fresh ELSE Past(base, f[i - 1], words[i])]
             S == {n \in Nat : \E f : Rec(f, n)}
  <1>1. 0 \in S
    <2> DEFINE f == [i \in 0..0 |-> Fresh]
    <2>1. Rec(f, 0)
      OBVIOUS
    <2> QED
      BY <2>1
  <1>2. ASSUME NEW n \in Nat, n \in S PROVE n + 1 \in S
    <2>1. PICK f : Rec(f, n)
      BY <1>2
    <2> DEFINE g == [i \in 0..(n + 1) |-> IF i <= n THEN f[i] ELSE Past(base, f[n], words[n + 1])]
    <2>2. ASSUME NEW i \in 0..(n + 1)
          PROVE  g[i] = IF i = 0 THEN Fresh ELSE Past(base, g[i - 1], words[i])
      <3>1. CASE i <= n
        BY <2>1, <3>1
      <3>2. CASE i = n + 1
        BY <3>2
      <3> QED
        BY <3>1, <3>2
    <2>3. Rec(g, n + 1)
      BY <2>2
    <2>4. n + 1 \in Nat
      OBVIOUS
    <2> HIDE DEF Rec, g
    <2>5. \E h : Rec(h, n + 1)
      BY <2>3
    <2> QED
      BY <2>4, <2>5
  <1> HIDE DEF S
  <1>3. S = Nat
    BY <1>1, <1>2, AllNumbers DEF S
  <1>4. Len(words) \in S
    BY <1>3
  <1>5. \E f : IsScan(base, words, f)
    BY <1>4 DEF S, IsScan
  <1> DEFINE f == CHOOSE f : IsScan(base, words, f)
  <1>6. IsScan(base, words, f)
    BY <1>5
  <1>7. Scan(base, words) = f[Len(words)]
    BY DEF Scan, IsScan, Fresh
  <1> QED
    BY <1>6, <1>7

\* The scan of nothing.
LEMMA ScanNothing ==
  ASSUME NEW base
  PROVE  Scan(base, <<>>) = Fresh
  <1>1. <<>> \in Seq(Words) /\ Len(<<>>) = 0
    OBVIOUS
  <1>2. PICK f : IsScan(base, <<>>, f) /\ Scan(base, <<>>) = f[Len(<<>>)]
    BY <1>1, ScanExists
  <1> QED
    BY <1>1, <1>2 DEF IsScan

\* The scan of one word more.
LEMMA ScanAppend ==
  ASSUME NEW base, NEW words \in Seq(Words), NEW word \in Words
  PROVE  Scan(base, Append(words, word)) = Past(base, Scan(base, words), word)
  <1> DEFINE more == Append(words, word)
  <1>1. /\ more \in Seq(Words) /\ Len(words) \in Nat /\ Len(more) = Len(words) + 1
        /\ more[Len(words) + 1] = word
        /\ \A i \in 1..Len(words) : more[i] = words[i]
    OBVIOUS
  <1> HIDE DEF more
  <1>2. PICK f : IsScan(base, words, f) /\ Scan(base, words) = f[Len(words)]
    BY ScanExists
  <1>3. PICK g : IsScan(base, more, g) /\ Scan(base, more) = g[Len(more)]
    BY <1>1, ScanExists
  <1> DEFINE S == {n \in Nat : n <= Len(words) => f[n] = g[n]}
  <1>4. 0 \in S
    BY <1>1, <1>2, <1>3 DEF IsScan
  <1>5. ASSUME NEW n \in Nat, n \in S PROVE n + 1 \in S
    <2> SUFFICES ASSUME n + 1 <= Len(words) PROVE f[n + 1] = g[n + 1]
      OBVIOUS
    <2>1. f[n] = g[n]
      BY <1>1, <1>5
    <2>2. f[n + 1] = Past(base, f[n], words[n + 1])
      BY <1>1, <1>2 DEF IsScan
    <2>3. g[n + 1] = Past(base, g[n], more[n + 1])
      BY <1>1, <1>3 DEF IsScan
    <2> QED
      BY <1>1, <2>1, <2>2, <2>3
  <1> HIDE DEF S
  <1>6. S = Nat
    BY <1>4, <1>5, AllNumbers DEF S
  <1>7. f[Len(words)] = g[Len(words)]
    BY <1>1, <1>6 DEF S
  <1>8. g[Len(more)] = Past(base, g[Len(words)], word)
    BY <1>1, <1>3 DEF IsScan
  <1> QED
    BY <1>2, <1>3, <1>7, <1>8 DEF more

\* The scan counts some of the words.
LEMMA ScanType ==
  ASSUME NEW base, NEW words \in Seq(Words)
  PROVE  Scan(base, words) \in [count : 0..Len(words), value : BOOLEAN, stop : BOOLEAN]
  <1>1. PICK f : IsScan(base, words, f) /\ Scan(base, words) = f[Len(words)]
    BY ScanExists
  <1> DEFINE Type(n) == [count : 0..n, value : BOOLEAN, stop : BOOLEAN]
             S == {n \in Nat : n <= Len(words) => f[n] \in Type(n)}
  <1>2. 0 \in S
    BY <1>1 DEF IsScan, Fresh
  <1>3. ASSUME NEW n \in Nat, n \in S PROVE n + 1 \in S
    <2> SUFFICES ASSUME n + 1 <= Len(words) PROVE f[n + 1] \in Type(n + 1)
      OBVIOUS
    <2>1. f[n] \in Type(n)
      BY <1>3
    <2>2. f[n + 1] = Past(base, f[n], words[n + 1])
      BY <1>1 DEF IsScan
    <2>3. PICK k \in 0..n, v \in BOOLEAN, t \in BOOLEAN : f[n] = [count |-> k, value |-> v, stop |-> t]
      BY <2>1
    <2> DEFINE x == words[n + 1]
    <2> HIDE DEF x
    <2>4. Past(base, [count |-> k, value |-> v, stop |-> t], x)
             \in {[count |-> k, value |-> v, stop |-> t], [count |-> k + 1, value |-> FALSE, stop |-> t],
                 [count |-> k + 1, value |-> v, stop |-> TRUE], [count |-> k + 1, value |-> v, stop |-> FALSE],
                 [count |-> k + 1, value |-> TRUE, stop |-> t], [count |-> k + 1, value |-> v, stop |-> t],
                 [count |-> k, value |-> v, stop |-> TRUE]}
      BY DEF Past
    <2>5. k \in 0..(n + 1) /\ k + 1 \in 0..(n + 1)
      BY <2>3
    <2>6. \A m \in {k, k + 1}, u \in BOOLEAN, w \in BOOLEAN :
            [count |-> m, value |-> u, stop |-> w] \in Type(n + 1)
      BY <2>5
    <2>7. v \in BOOLEAN /\ t \in BOOLEAN /\ TRUE \in BOOLEAN /\ FALSE \in BOOLEAN
      OBVIOUS
    <2> HIDE DEF Type
    <2>8. Past(base, [count |-> k, value |-> v, stop |-> t], x) \in Type(n + 1)
      BY <2>4, <2>6, <2>7
    <2> QED
      BY <2>2, <2>3, <2>8 DEF x
  <1> HIDE DEF S
  <1>4. S = Nat
    BY <1>2, <1>3, AllNumbers DEF S
  <1>5. Len(words) \in Nat /\ Len(words) \in S
    BY <1>4
  <1>6. f[Len(words)] \in Type(Len(words))
    BY <1>5 DEF S
  <1> QED
    BY <1>1, <1>6

-----------------------------------------------------------------------------
(* The words from a place on.                                              *)

LEMMA FromWords ==
  ASSUME NEW W, NEW words \in Seq(W), NEW p \in 1..Len(words)
  PROVE  /\ From(words, p) \in Seq(W) /\ From(words, p) # <<>>
         /\ Len(From(words, p)) = Len(words) - p + 1
         /\ \A i \in 1..(Len(words) - p + 1) : From(words, p)[i] = words[p + i - 1]
         /\ Head(From(words, p)) = words[p]
         /\ Tail(From(words, p)) \in Seq(W) /\ Len(Tail(From(words, p))) = Len(words) - p
         /\ \A i \in 1..(Len(words) - p) : Tail(From(words, p))[i] = words[p + i]
  <1> DEFINE from == From(words, p)
  <1>1. /\ from \in Seq(W) /\ Len(from) = Len(words) - p + 1
        /\ \A i \in 1..(Len(words) - p + 1) : from[i] = words[p + i - 1]
    <2>1. Len(words) \in Nat /\ p \in Nat /\ 1 <= p /\ p <= Len(words)
      OBVIOUS
    <2>2. /\ from = [i \in 1..(Len(words) - p + 1) |-> words[i + p - 1]]
      BY <2>1 DEF From
    <2>3. \A i \in 1..(Len(words) - p + 1) : i + p - 1 \in 1..Len(words) /\ i + p - 1 = p + i - 1
      BY <2>1
    <2>4. Len(words) - p + 1 \in Nat
      BY <2>1
    <2>5. from \in Seq(W)
      BY <2>1, SubSeqProperties DEF From
    <2>6. Len(from) = Len(words) - p + 1
      BY <2>1, SubSeqProperties DEF From
    <2> QED
      BY <2>2, <2>3, <2>5, <2>6
  <1>2. from # <<>> /\ Len(from) >= 1
    BY <1>1
  <1> HIDE DEF from
  <1>3. Head(from) = from[1]
    BY <1>1, <1>2
  <1>4. /\ Tail(from) \in Seq(W) /\ Len(Tail(from)) = Len(from) - 1
        /\ \A i \in 1..(Len(from) - 1) : Tail(from)[i] = from[i + 1]
    BY <1>1, <1>2, HeadTailProperties
  <1>5. ASSUME NEW i \in 1..(Len(words) - p) PROVE Tail(from)[i] = words[p + i]
    <2>1. i \in 1..(Len(from) - 1) /\ i + 1 \in 1..(Len(words) - p + 1) /\ p + (i + 1) - 1 = p + i
      BY <1>1
    <2> QED
      BY <1>1, <1>4, <2>1
  <1>6. from[1] = words[p]
    BY <1>1
  <1> QED
    BY <1>1, <1>2, <1>3, <1>4, <1>5, <1>6 DEF from

LEMMA FromMore ==
  ASSUME NEW W, NEW words \in Seq(W), NEW word \in W, NEW p \in 1..Len(words)
  PROVE  /\ From(Append(words, word), p) = Append(From(words, p), word)
         /\ Tail(From(Append(words, word), p)) = Append(Tail(From(words, p)), word)
         /\ Append(words, word) \in Seq(W) /\ Len(Append(words, word)) = Len(words) + 1
         /\ \A i \in 1..Len(words) : Append(words, word)[i] = words[i]
         /\ Append(words, word)[Len(words) + 1] = word
  <1> DEFINE more == Append(words, word)
  <1>1. /\ more \in Seq(W) /\ Len(words) \in Nat /\ Len(more) = Len(words) + 1
        /\ more[Len(words) + 1] = word
        /\ \A i \in 1..Len(words) : more[i] = words[i]
    OBVIOUS
  <1>2. p \in 1..Len(more)
    BY <1>1
  <1> HIDE DEF more
  <1>3. From(more, p) = Append(From(words, p), word)
    <2>1. /\ From(words, p) \in Seq(W) /\ Len(From(words, p)) = Len(words) - p + 1
          /\ \A i \in 1..(Len(words) - p + 1) : From(words, p)[i] = words[p + i - 1]
      BY FromWords
    <2>2. /\ From(more, p) \in Seq(W) /\ Len(From(more, p)) = Len(more) - p + 1
          /\ \A i \in 1..(Len(more) - p + 1) : From(more, p)[i] = more[p + i - 1]
      BY <1>1, <1>2, FromWords
    <2> DEFINE a == From(words, p)
               b == Append(a, word)
    <2>3. /\ b \in Seq(W) /\ Len(b) = Len(a) + 1 /\ b[Len(a) + 1] = word
          /\ \A i \in 1..Len(a) : b[i] = a[i]
      <3>1. a \in Seq(W)
        BY <2>1
      <3> HIDE DEF a
      <3> QED
        BY <3>1, AppendProperties
    <2> HIDE DEF b
    <2>4. ASSUME NEW i \in 1..Len(From(more, p)) PROVE From(more, p)[i] = b[i]
      <3>1. i \in 1..(Len(more) - p + 1)
        BY <2>2
      <3>2. CASE i <= Len(a)
        <4>1. i \in 1..Len(a) /\ i \in 1..(Len(words) - p + 1) /\ p + i - 1 \in 1..Len(words)
          BY <1>1, <2>1, <3>1, <3>2
        <4> QED
          BY <1>1, <2>1, <2>2, <2>3, <3>1, <4>1
      <3>3. CASE i = Len(a) + 1
        <4>1. p + i - 1 = Len(words) + 1
          BY <1>1, <2>1, <3>3
        <4> QED
          BY <1>1, <2>2, <2>3, <3>1, <3>3, <4>1
      <3> QED
        BY <1>1, <2>1, <3>1, <3>2, <3>3
    <2>5. Len(From(more, p)) = Len(b)
      BY <1>1, <2>1, <2>2, <2>3
    <2> HIDE DEF a
    <2>6. From(more, p) = b
      BY <2>2, <2>3, <2>4, <2>5, SeqEqual
    <2> QED
      BY <2>6 DEF a, b
  <1>4. Tail(Append(From(words, p), word)) = Append(Tail(From(words, p)), word)
    <2> DEFINE a == From(words, p)
    <2>1. a \in Seq(W) /\ a # <<>>
      BY FromWords
    <2> HIDE DEF a
    <2>2. Len(a) \in Nat /\ Len(a) > 0
      BY <2>1
    <2>3. /\ Append(a, word) \in Seq(W) /\ Len(Append(a, word)) = Len(a) + 1 /\ Append(a, word) # <<>>
          /\ Tail(a) \in Seq(W) /\ Len(Tail(a)) = Len(a) - 1
          /\ \A i \in 1..Len(a) : Append(a, word)[i] = a[i]
          /\ Append(a, word)[Len(a) + 1] = word
      BY <2>1, <2>2
    <2>4. /\ Tail(Append(a, word)) \in Seq(W) /\ Len(Tail(Append(a, word))) = Len(a)
          /\ \A i \in 1..Len(a) : Tail(Append(a, word))[i] = Append(a, word)[i + 1]
      BY <2>2, <2>3, HeadTailProperties
    <2>5. /\ Append(Tail(a), word) \in Seq(W) /\ Len(Append(Tail(a), word)) = Len(a)
          /\ Append(Tail(a), word)[Len(a)] = word
          /\ \A i \in 1..(Len(a) - 1) : Append(Tail(a), word)[i] = Tail(a)[i] /\ Tail(a)[i] = a[i + 1]
      BY <2>1, <2>2, <2>3, HeadTailProperties
    <2>6. ASSUME NEW i \in 1..Len(a) PROVE Tail(Append(a, word))[i] = Append(Tail(a), word)[i]
      <3>1. CASE i < Len(a)
        <4>1. i \in 1..(Len(a) - 1) /\ i + 1 \in 1..Len(a)
          BY <2>2, <3>1
        <4> QED
          BY <2>3, <2>4, <2>5, <4>1
      <3>2. CASE i = Len(a)
        BY <2>3, <2>4, <2>5, <3>2
      <3> QED
        BY <2>2, <3>1, <3>2
    <2> QED
      BY <2>4, <2>5, <2>6, SeqEqual DEF a
  <1> QED
    BY <1>1, <1>3, <1>4 DEF more

-----------------------------------------------------------------------------
(* The layers of a command.                                                *)

\* A wrapper whose scan has stopped reads no further.
LEMMA StopKept ==
  ASSUME NEW base, NEW words \in Seq(Words), NEW word \in Words, Scan(base, words).stop
  PROVE  Scan(base, Append(words, word)) = Scan(base, words)
  BY ScanAppend DEF Past

\* A layer has at least the wrapper.
LEMMA LayerType ==
  ASSUME NEW words \in Seq(Words), words # <<>>
  PROVE  LayerOf(words) \in Nat /\ LayerOf(words) >= 1
  <1> DEFINE base == Base(Head(words))
  <1>1. Tail(words) \in Seq(Words)
    BY HeadTailProperties
  <1>2. Scan(base, Tail(words)).count \in Nat
    <2>1. Len(Tail(words)) \in Nat
      BY <1>1
    <2>2. Scan(base, Tail(words)) \in [count : 0..Len(Tail(words)), value : BOOLEAN, stop : BOOLEAN]
      BY <1>1, ScanType
    <2> QED
      BY <2>1, <2>2
  <1>3. Layer(words) = 1 + Scan(base, Tail(words)).count + (IF base \in Takers THEN 1 ELSE 0)
    BY DEF Layer
  <1> HIDE DEF base
  <1>4. Layer(words) \in Nat /\ Layer(words) >= 1
    BY <1>2, <1>3
  <1> QED
    BY <1>4 DEF LayerOf

\* A complete layer stays one when words are added behind it.
LEMMA CompleteKept ==
  ASSUME NEW words \in Seq(Words), NEW word \in Words, NEW P \in SUBSET (1..Len(words)), NEW p \in P,
         Complete(words, P, p)
  PROVE  /\ Complete(Append(words, word), P, p)
         /\ LayerOf(From(Append(words, word), p)) = LayerOf(From(words, p))
  <1> DEFINE more == Append(words, word)
             base == Base(words[p])
  <1>1. p \in 1..Len(words)
    OBVIOUS
  <1>2. /\ Tail(From(more, p)) = Append(Tail(From(words, p)), word)
        /\ more \in Seq(Words) /\ Len(more) = Len(words) + 1 /\ more[p] = words[p]
    BY <1>1, FromMore
  <1>3. /\ Head(From(words, p)) = words[p] /\ Tail(From(words, p)) \in Seq(Words)
    BY <1>1, FromWords
  <1>4. p \in 1..Len(more)
    BY <1>1, <1>2
  <1> HIDE DEF more
  <1>5. Head(From(more, p)) = words[p]
    BY <1>2, <1>4, FromWords
  <1>6. base # "eval" => Scan(base, Tail(From(words, p))).stop
    BY DEF Complete
  <1>7. base # "eval" => Scan(base, Tail(From(more, p))) = Scan(base, Tail(From(words, p)))
    BY <1>2, <1>3, <1>6, StopKept
  <1>8. LayerOf(From(more, p)) = LayerOf(From(words, p))
    BY <1>3, <1>5, <1>7 DEF LayerOf, Layer
  <1>9. Complete(more, P, p)
    BY <1>2, <1>6, <1>7, <1>8 DEF Complete
  <1> QED
    BY <1>8, <1>9 DEF more

LEMMA LayeredKept ==
  ASSUME NEW words \in Seq(Words), NEW word \in Words, NEW P, NEW s, Layered(words, P, s)
  PROVE  /\ Layered(Append(words, word), P, s)
         /\ P \in SUBSET (1..Len(words)) /\ s \in P
         /\ \A p \in P : Around(Append(words, word), P, p) = Around(words, P, p)
  <1>1. P \subseteq 1..s /\ 1 \in P /\ s \in P /\ s <= Len(words) /\ Len(words) \in Nat
    BY DEF Layered
  <1>2. P \in SUBSET (1..Len(words))
    BY <1>1
  <1>3. \A p \in P \ {s} : Complete(Append(words, word), P, p)
    BY <1>2, CompleteKept DEF Layered
  <1>4. Len(Append(words, word)) = Len(words) + 1 /\ \A i \in 1..Len(words) : Append(words, word)[i] = words[i]
    OBVIOUS
  <1>5. Layered(Append(words, word), P, s)
    BY <1>1, <1>3, <1>4 DEF Layered
  <1>6. ASSUME NEW p \in P PROVE Around(Append(words, word), P, p) = Around(words, P, p)
    <2>1. \A q \in P : Append(words, word)[q] = words[q]
      BY <1>2, <1>4
    <2> QED
      BY <2>1 DEF Around
  <1> QED
    BY <1>1, <1>2, <1>5, <1>6

\* What is around the next program: what is around the wrapper, and the
\* wrapper.
LEMMA AroundNext ==
  ASSUME NEW words, NEW P \in SUBSET Nat, NEW p \in P, NEW next \in Nat, p < next,
         \A q \in P : q <= p \/ next <= q
  PROVE  Around(words, P, next) = Around(words, P, p) \cup FlagOf(Base(words[p]))
  <1>1. ASSUME NEW q \in P PROVE q < next <=> q < p \/ q = p
    <2>1. q \in Nat /\ p \in Nat /\ (q <= p \/ next <= q)
      OBVIOUS
    <2> QED
      BY <2>1
  <1>2. \A x : x \in Around(words, P, next) <=> \E q \in P : q < next /\ x \in FlagOf(Base(words[q]))
    BY DEF Around
  <1>3. \A x : x \in Around(words, P, p) <=> \E q \in P : q < p /\ x \in FlagOf(Base(words[q]))
    BY DEF Around
  <1>4. \A x : x \in Around(words, P, next) <=> x \in Around(words, P, p) \/ x \in FlagOf(Base(words[p]))
    BY <1>1, <1>2, <1>3
  <1> QED
    BY <1>4

\* The word behind a complete layer opens the next one.
LEMMA NextLayer ==
  ASSUME NEW words \in Seq(Words), NEW word \in Words, NEW P, NEW s, Layered(words, P, s),
         Base(words[s]) \in Handled,
         Base(words[s]) # "eval" => Scan(Base(words[s]), Tail(From(Append(words, word), s))).stop,
         s + LayerOf(From(Append(words, word), s)) = Len(words) + 1
  PROVE  /\ Layered(Append(words, word), P \cup {Len(words) + 1}, Len(words) + 1)
         /\ Around(Append(words, word), P \cup {Len(words) + 1}, Len(words) + 1)
              = Around(words, P, s) \cup FlagOf(Base(words[s]))
         /\ Append(words, word)[Len(words) + 1] = word
         /\ Tail(From(Append(words, word), Len(words) + 1)) = <<>>
  <1> DEFINE more == Append(words, word)
             t == Len(words) + 1
             Q == P \cup {t}
  <1>1. /\ P \subseteq 1..s /\ 1 \in P /\ s \in P /\ s <= Len(words) /\ Len(words) \in Nat
        /\ s \in Nat /\ t \in Nat /\ s < t
    BY DEF Layered
  <1>2. /\ more \in Seq(Words) /\ Len(more) = t /\ more[t] = word
        /\ \A i \in 1..Len(words) : more[i] = words[i]
    OBVIOUS
  <1>3. Layered(more, P, s) /\ \A p \in P : Around(more, P, p) = Around(words, P, p)
    BY LayeredKept
  <1> HIDE DEF more
  <1>4. ASSUME NEW p \in P \ {s} PROVE Complete(more, Q, p)
    <2> DEFINE next == p + LayerOf(From(more, p))
    <2>1. Complete(more, P, p)
      BY <1>3 DEF Layered
    <2>2. next \in P /\ p < next /\ \A q \in P : q <= p \/ next <= q
      BY <2>1 DEF Complete
    <2> HIDE DEF next
    <2>3. next <= t
      BY <1>1, <2>2
    <2>4. next \in Q /\ \A q \in Q : q <= p \/ next <= q
      BY <2>2, <2>3
    <2> QED
      BY <2>1, <2>2, <2>4 DEF Complete, next
  <1>5. Complete(more, Q, s)
    <2>1. \A q \in Q : q <= s \/ t <= q
      BY <1>1
    <2>2. more[s] = words[s]
      BY <1>1, <1>2
    <2> QED
      BY <1>1, <2>1, <2>2 DEF Complete, more
  <1>6. Layered(more, Q, t)
    <2>1. P \subseteq 1..t /\ t \in 1..t /\ t <= Len(more)
      BY <1>1, <1>2
    <2>2. \A p \in Q \ {t} : Complete(more, Q, p)
      BY <1>4, <1>5
    <2> QED
      BY <1>1, <2>1, <2>2 DEF Layered
  <1>7. Around(more, Q, t) = Around(words, P, s) \cup FlagOf(Base(words[s]))
    <2>1. Around(more, Q, t) = Around(more, Q, s) \cup FlagOf(Base(more[s]))
      <3>1. P \in SUBSET Nat /\ \A q \in P : q <= s
        BY <1>1
      <3> HIDE DEF t
      <3>2. Q \in SUBSET Nat /\ s \in Q
        BY <1>1, <3>1
      <3>3. \A q \in Q : q <= s \/ t <= q
        BY <1>1, <3>1
      <3> HIDE DEF Q
      <3> QED
        BY <1>1, <3>2, <3>3, AroundNext
    <2>2. Around(more, Q, s) = Around(more, P, s)
      <3>1. {q \in Q : q < s} = {q \in P : q < s}
        BY <1>1
      <3> QED
        BY <3>1 DEF Around
    <2>3. more[s] = words[s]
      BY <1>1, <1>2
    <2> QED
      BY <1>1, <1>3, <2>1, <2>2, <2>3
  <1>8. Tail(From(more, t)) = <<>>
    <2>1. t \in 1..Len(more) /\ Len(more) - t = 0
      BY <1>1, <1>2
    <2>2. Tail(From(more, t)) \in Seq(Words) /\ Len(Tail(From(more, t))) = 0
      BY <1>2, <2>1, FromWords
    <2> QED
      BY <2>2, EmptySeq
  <1> QED
    BY <1>2, <1>6, <1>7, <1>8 DEF more

-----------------------------------------------------------------------------
(* Types.                                                                  *)

LEMMA WordsHave ==
  /\ Programs \subseteq Words /\ Values \subseteq Words /\ Args \subseteq Words /\ Roots \subseteq Words
  /\ DOMAIN Scripts \subseteq Words /\ Broken \subseteq Words /\ Expression \subseteq Words
  /\ <<"--">> \in Words /\ <<"A", "=", "b">> \in Words /\ <<"-", "rf">> \in Words /\ <<".">> \in Words
  /\ \A tool : OptionsOf(tool) \subseteq Words
  <1>1. ASSUME NEW tool PROVE OptionsOf(tool) \subseteq Words
    <2>1. CASE tool \in Wrappers \cup Shells
      BY <2>1 DEF Words
    <2>2. CASE tool \notin Wrappers \cup Shells
      BY <2>2 DEF OptionsOf
    <2> QED
      BY <2>1, <2>2
  <1>2. /\ Programs \subseteq Words /\ Values \subseteq Words /\ Args \subseteq Words /\ Roots \subseteq Words
        /\ DOMAIN Scripts \subseteq Words /\ Broken \subseteq Words /\ Expression \subseteq Words
    BY DEF Words
  <1>3. <<"--">> \in Words /\ <<"A", "=", "b">> \in Words /\ <<"-", "rf">> \in Words /\ <<".">> \in Words
    BY DEF Words
  <1> QED
    BY <1>1, <1>2, <1>3

LEMMA FlagsOfTools == \A tool : FlagOf(tool) \subseteq Flags
  BY DEF FlagOf, Flags

LEMMA ReadingType ==
  ASSUME NEW tool \in Tools, NEW flags \in SUBSET Flags
  PROVE  Reading(tool, flags) \in Readers
  BY DEF Reading, Readers

LEMMA RmName == "rm" \in {Base(word) : word \in Words}
  <1>1. <<"/bin/", "rm">> \in Words
    BY WordsHave DEF Expression
  <1>2. Base(<<"/bin/", "rm">>) = "rm"
    BY DEF Base, Last
  <1> QED
    BY <1>1, <1>2

\* The first of some places.
LEMMA FirstPlace ==
  ASSUME NEW n \in Nat, NEW I \in SUBSET (1..n)
  PROVE  LET at == IF I # {} THEN Min(I) ELSE 0 IN
         /\ at \in 0..n /\ (at # 0 <=> I # {})
         /\ at # 0 => at \in I /\ \A i \in I : at <= i
  <1>1. CASE I = {}
    BY <1>1
  <1>2. CASE I # {}
    <2> DEFINE R == {pair \in Nat \X Nat : pair[1] < pair[2]}
    <2>1. \A i, j \in Nat : <<i, j>> \in R <=> i < j
      OBVIOUS
    <2>2. IsWellFoundedOn(R, Nat)
      BY NatLessThanWellFounded DEF OpToRel
    <2> HIDE DEF R
    <2>3. I \in SUBSET Nat
      OBVIOUS
    <2>4. PICK m \in I : \A k \in I : ~(<<k, m>> \in R)
      BY <1>2, <2>2, <2>3, WFMin
    <2>5. \A k \in I : m <= k
      <3> TAKE k \in I
      <3>1. m \in Nat /\ k \in Nat
        OBVIOUS
      <3>2. ~(k < m)
        BY <2>1, <2>4, <3>1
      <3> QED
        BY <3>1, <3>2
    <2>6. Min(I) \in I /\ \A k \in I : Min(I) <= k
      BY <2>5 DEF Min
    <2>7. Min(I) \in 1..n
      BY <2>6
    <2> QED
      BY <1>2, <2>6, <2>7
  <1> QED
    BY <1>1, <1>2

\* Where extractDashCBody finds its -c.
PlaceOfC(words) == SelectInSeq(words, LAMBDA word : word = Short("c"))

LEMMA FirstC ==
  ASSUME NEW words, Len(words) \in Nat
  PROVE  LET at == PlaceOfC(words) IN
         /\ at \in 0..Len(words)
         /\ at # 0 => words[at] = Short("c") /\ \A i \in 1..Len(words) : words[i] = Short("c") => at <= i
         /\ at = 0 => \A i \in 1..Len(words) : words[i] # Short("c")
  <1> DEFINE I == {i \in 1..Len(words) : words[i] = Short("c")}
             at == IF I # {} THEN Min(I) ELSE 0
  <1>1. PlaceOfC(words) = at
    BY DEF PlaceOfC, SelectInSeq
  <1>2. I \in SUBSET (1..Len(words))
    OBVIOUS
  <1>3. /\ at \in 0..Len(words) /\ (at # 0 <=> I # {})
        /\ at # 0 => at \in I /\ \A i \in I : at <= i
    <2> HIDE DEF I
    <2> QED
      BY <1>2, FirstPlace
  <1> HIDE DEF at
  <1> QED
    BY <1>1, <1>3

LEMMA FrontWords ==
  ASSUME NEW W, NEW words \in Seq(W), words # <<>>
  PROVE  /\ Len(words) \in Nat /\ Len(words) >= 1 /\ Len(Front(words)) = Len(words) - 1
         /\ \A i \in 1..(Len(words) - 1) : Front(words)[i] = words[i]
         /\ PlaceOfC(Front(words)) \in 0..(Len(words) - 1)
  <1> DEFINE n == Len(words) - 1
             front == SubSeq(words, 1, n)
  <1>1. n \in Nat /\ Len(words) = n + 1 /\ Len(words) \in Nat
    OBVIOUS
  <1>2. \A i \in 1..n : words[i] \in W
    BY <1>1
  <1>3. Front(words) = front
    BY DEF Front
  <1> HIDE DEF n
  <1>4. /\ Len(front) = IF 1 <= n THEN n - 1 + 1 ELSE 0
        /\ \A i \in 1..(n - 1 + 1) : front[i] = words[1 + i - 1]
    BY <1>1, <1>2, SubSeqProperties
  <1> HIDE DEF front
  <1>5. Len(front) = n /\ \A i \in 1..n : front[i] = words[i]
    BY <1>1, <1>4
  <1>6. PlaceOfC(front) \in 0..Len(front)
    BY <1>1, <1>5, FirstC
  <1>7. Len(words) - 1 = n /\ Len(words) >= 1
    BY <1>1
  <1> QED
    BY <1>1, <1>3, <1>5, <1>6, <1>7

\* Where handleFind finds the end of the directories.
PlaceOfDash(words) == SelectInSeq(words, Dashed)

LEMMA FirstDash ==
  ASSUME NEW words, Len(words) \in Nat
  PROVE  LET dash == PlaceOfDash(words) IN
         /\ dash \in 0..Len(words)
         /\ dash # 0 => Dashed(words[dash]) /\ \A i \in 1..Len(words) : Dashed(words[i]) => dash <= i
         /\ dash = 0 => \A i \in 1..Len(words) : ~Dashed(words[i])
  <1> DEFINE I == {i \in 1..Len(words) : Dashed(words[i])}
             at == IF I # {} THEN Min(I) ELSE 0
  <1>1. PlaceOfDash(words) = at
    BY DEF PlaceOfDash, SelectInSeq
  <1>2. I \in SUBSET (1..Len(words))
    OBVIOUS
  <1>3. /\ at \in 0..Len(words) /\ (at # 0 <=> I # {})
        /\ at # 0 => at \in I /\ \A i \in I : at <= i
    <2> HIDE DEF I
    <2> QED
      BY <1>2, FirstPlace
  <1> HIDE DEF at
  <1> QED
    BY <1>1, <1>3

LEMMA RemovalType ==
  ASSUME NEW roots \in Seq(Roots), reader.flags \in SUBSET Flags
  PROVE  AsRm(roots) \in Commands
  <1>1. roots \in Seq(Words)
    BY WordsHave
  <1>2. <<<<"-", "rf">>, <<"--">>>> \in Seq(Words) /\ <<<<".">>>> \in Seq(Words)
    BY WordsHave
  <1>3. <<<<"-", "rf">>, <<"--">>>> \o (IF roots = <<>> THEN <<<<".">>>> ELSE roots) \in Seq(Words)
    BY <1>1, <1>2, ConcatProperties
  <1> QED
    BY <1>3, RmName DEF AsRm, Commands

LEMMA BodyType ==
  ASSUME NEW body \in Bodies, NEW flags \in SUBSET Flags
  PROVE  [name |-> Base(Head(body)), args |-> Tail(body), flags |-> flags] \in Commands
  <1>1. body \in Seq(Words) /\ body # <<>>
    BY BodiesAssumption
  <1>2. Head(body) \in Words /\ Tail(body) \in Seq(Words)
    BY <1>1, HeadTailProperties
  <1> QED
    BY <1>2 DEF Commands

LEMMA WriteType ==
  ASSUME TypeOK, NEW word \in Words, Write(word)
  PROVE  /\ phase = "write" /\ argv' = Append(argv, word)
         /\ argv' \in Seq(Words) /\ Len(argv') <= MaxWords
         /\ rest' \in Seq(Words) /\ context' \subseteq Flags /\ UNCHANGED <<rest, context, executed, phase>>
         /\ executed' \in Seq(Commands) /\ Len(executed') <= 1
         /\ executed' # <<>> => phase' = "done"
         /\ phase' \in {"write", "strip", "done"}
  <1>1. argv \in Seq(Words) /\ Len(argv) \in Nat /\ Len(argv) < MaxWords /\ MaxWords \in Nat
    BY ToolsAssumption DEF TypeOK, Write
  <1>2. /\ phase = "write" /\ argv' = Append(argv, word) /\ UNCHANGED <<rest, context, executed, phase>>
    BY DEF Write
  <1>3. Append(argv, word) \in Seq(Words) /\ Len(Append(argv, word)) = Len(argv) + 1
    BY <1>1, AppendProperties
  <1> QED
    BY <1>1, <1>2, <1>3 DEF TypeOK

LEMMA RecordType ==
  ASSUME TypeOK, NEW command \in Commands \cup {None}, Record(command)
  PROVE  TypeOK'
  <1>1. /\ executed' \in {<<>>, <<command>>} /\ (executed' = <<command>> => command \in Commands)
        /\ phase' = "done" /\ UNCHANGED <<argv, reader, real, odd, rest, context>>
    BY NoneAssumption DEF Record
  <1>2. executed' \in Seq(Commands) /\ Len(executed') <= 1
    <2>1. CASE executed' = <<>>
      BY <2>1
    <2>2. CASE executed' = <<command>>
      BY <1>1, <2>2
    <2> QED
      BY <1>1, <2>1, <2>2
  <1> QED
    BY <1>1, <1>2 DEF TypeOK

LEMMA OptionType ==
  ASSUME TypeOK, NEW word \in OptionsOf(reader.tool), Option(word)
  PROVE  TypeOK'
  <1>1. word \in Words
    BY WordsHave
  <1>2. Write(word) /\ UNCHANGED real
    BY DEF Option
  <1>3. odd' \subseteq Odds
    BY DEF Option, Odds, TypeOK
  <1>4. reader' \in Readers
    <2> DEFINE v == word \in Valued[reader.tool] \cup Unlisted[reader.tool]
               c == reader.script \/ (reader.tool \in Shells /\ Bundled(word, "c"))
    <2>1. reader' = [reader EXCEPT !.value = v, !.script = c]
      BY DEF Option
    <2>2. v \in BOOLEAN /\ c \in BOOLEAN
      OBVIOUS
    <2>3. reader \in Readers
      BY DEF TypeOK
    <2> HIDE DEF v, c
    <2> QED
      BY <2>1, <2>2, <2>3 DEF Readers
  <1> QED
    BY <1>1, <1>2, <1>3, <1>4, WriteType DEF TypeOK

\* The words that change a flag of the reader and nothing else.
LEMMA ReaderType ==
  ASSUME TypeOK, NEW word \in Words, Write(word), UNCHANGED real, odd' \subseteq Odds,
         NEW o \in BOOLEAN, NEW v \in BOOLEAN, NEW n \in {0, 1},
         reader' = [reader EXCEPT !.open = o, !.value = v, !.operands = n]
  PROVE  TypeOK'
  <1>1. reader' \in Readers
    BY DEF TypeOK, Readers
  <1> QED
    BY <1>1, WriteType DEF TypeOK

LEMMA ValueType ==
  ASSUME TypeOK, NEW word, Value(word) \/ Own(word) \/ Terminator \/ Assignment
  PROVE  TypeOK'
  <1>1. reader \in Readers /\ odd \subseteq Odds
    BY DEF TypeOK
  <1>2. reader.open \in BOOLEAN /\ reader.value \in BOOLEAN /\ reader.operands \in {0, 1}
    BY <1>1 DEF Readers
  <1>3. CASE Value(word)
    <2>1. reader' = [reader EXCEPT !.open = reader.open, !.value = FALSE, !.operands = reader.operands]
      BY <1>1, <1>3 DEF Value, Readers
    <2>2. word \in Words /\ Write(word) /\ UNCHANGED real /\ odd' \subseteq Odds
      BY <1>1, <1>3, WordsHave DEF Value
    <2> QED
      BY <1>2, <2>1, <2>2, ReaderType
  <1>4. CASE Own(word)
    <2>1. reader' = [reader EXCEPT !.open = FALSE, !.value = reader.value, !.operands = 0]
      BY <1>1, <1>4 DEF Own, Readers
    <2>2. word \in Words /\ Write(word) /\ UNCHANGED real /\ odd' \subseteq Odds
      BY <1>1, <1>4, WordsHave DEF Own
    <2> QED
      BY <1>2, <2>1, <2>2, ReaderType
  <1>5. CASE Terminator
    <2>1. reader' = [reader EXCEPT !.open = FALSE, !.value = reader.value, !.operands = reader.operands]
      BY <1>1, <1>5 DEF Terminator, Readers
    <2>2. <<"--">> \in Words /\ Write(<<"--">>) /\ UNCHANGED real /\ odd' \subseteq Odds
      BY <1>1, <1>5, WordsHave DEF Terminator
    <2> QED
      BY <1>2, <2>1, <2>2, ReaderType
  <1>6. CASE Assignment
    <2>1. reader' = [reader EXCEPT !.open = FALSE, !.value = reader.value, !.operands = reader.operands]
      BY <1>1, <1>6 DEF Assignment, Readers
    <2>2. <<"A", "=", "b">> \in Words /\ Write(<<"A", "=", "b">>) /\ UNCHANGED real
      BY <1>6, WordsHave DEF Assignment
    <2>3. odd' \subseteq Odds
      BY <1>1, <1>6 DEF Assignment, Odds
    <2> QED
      BY <1>2, <2>1, <2>2, <2>3, ReaderType
  <1> QED
    BY <1>3, <1>4, <1>5, <1>6

LEMMA ProgramType ==
  ASSUME TypeOK, NEW word \in Programs, Program(word)
  PROVE  TypeOK'
  <1> DEFINE tool == Base(word)
             flags == reader.flags \cup FlagOf(tool)
  <1>1. word \in Words /\ Write(word)
    BY WordsHave DEF Program
  <1>2. flags \in SUBSET Flags /\ tool \in Tools
    BY FlagsOfTools DEF Program, TypeOK, Readers
  <1>3. reader' = Reading(tool, flags) /\ odd' \subseteq Odds
    BY DEF Program, TypeOK, Odds
  <1>4. real' = IF tool \in Others THEN [name |-> tool, args |-> <<>>, flags |-> flags] ELSE real
    BY DEF Program
  <1>5. tool \in {Base(w) : w \in Words} /\ <<>> \in Seq(Words)
    BY <1>1
  <1> HIDE DEF tool, flags
  <1>6. real' \in Commands \cup {None}
    BY <1>2, <1>4, <1>5 DEF Commands, TypeOK
  <1>7. reader' \in Readers
    BY <1>2, <1>3, ReadingType
  <1> QED
    BY <1>1, <1>3, <1>6, <1>7, WriteType DEF TypeOK

\* Something is real once a command that is no wrapper is read.
LEMMA RealType ==
  ASSUME TypeOK, NEW word \in Words, Write(word), reader' \in Readers, odd' \subseteq Odds,
         real' \in Commands \cup {None}
  PROVE  TypeOK'
  BY WriteType DEF TypeOK

LEMMA ScriptType ==
  ASSUME TypeOK, NEW word \in DOMAIN Scripts, Script(word)
  PROVE  TypeOK'
  <1>1. word \in Words /\ Write(word) /\ UNCHANGED <<reader, odd>>
    BY WordsHave DEF Script
  <1>2. Scripts[word] \in Bodies /\ reader.flags \in SUBSET Flags
    BY DEF Bodies, TypeOK, Readers
  <1>3. real' \in Commands
    BY <1>2, BodyType DEF Script
  <1> QED
    BY <1>1, <1>3, RealType DEF TypeOK

\* A script that env splits, and what a shell refuses.
LEMMA SplitType ==
  ASSUME TypeOK, NEW word, Split(word) \/ (word \in OptionsOf(reader.tool) \cup Broken /\ Refused(word))
  PROVE  /\ TypeOK' /\ word \in Words /\ Write(word) /\ odd' # {}
         /\ Split(word) => real' \in Commands
         /\ Refused(word) => reader'.tool = reader.tool /\ real' = real
  <1>1. reader \in Readers /\ odd \subseteq Odds /\ reader.flags \in SUBSET Flags /\ real \in Commands \cup {None}
    BY DEF TypeOK, Readers
  <1>2. CASE Split(word)
    <2>1. word \in Words /\ Write(word) /\ word \in DOMAIN Scripts
      BY <1>2, WordsHave DEF Split
    <2>2. Scripts[word] \in Bodies /\ Base(Head(Scripts[word])) \in Tools
      BY <2>1, BodiesAssumption DEF Bodies, Tools
    <2>3. reader' \in Readers /\ real' \in Commands
      BY <1>1, <1>2, <2>2, ReadingType, BodyType DEF Split
    <2>4. odd' \subseteq Odds /\ odd' # {}
      BY <1>1, <1>2 DEF Split, Odds
    <2>5. ~Refused(word)
      BY <1>2, ToolsAssumption DEF Split, Splitting, Refused
    <2> QED
      BY <2>1, <2>3, <2>4, <2>5, RealType
  <1>3. CASE word \in OptionsOf(reader.tool) \cup Broken /\ Refused(word)
    <2>1. word \in Words /\ Write(word) /\ real' = real
      BY <1>3, WordsHave DEF Refused
    <2>2. reader' \in Readers /\ reader'.tool = reader.tool
      BY <1>1, <1>3 DEF Refused, Readers
    <2>3. odd' \subseteq Odds /\ odd' # {}
      BY <1>1, <1>3 DEF Refused, Odds
    <2>4. ~Split(word)
      BY <1>3, ToolsAssumption DEF Split, Splitting, Refused
    <2> QED
      BY <1>1, <2>1, <2>2, <2>3, <2>4, RealType
  <1> QED
    BY <1>2, <1>3

\* What parsing a script again leaves of the types.
LEMMA EnterType ==
  ASSUME TypeOK, NEW text \in Words, Enter(text)
  PROVE  TypeOK'
  <1>1. context \in SUBSET Flags
    BY DEF TypeOK
  <1>2. CASE text \in Broken
    <2>1. <<text>> \in Seq(Words) /\ {"eval"} \in SUBSET Flags
      BY DEF Flags
    <2>2. [name |-> Unparsed, args |-> <<text>>, flags |-> {"eval"}] \in Commands
      BY <2>1 DEF Commands
    <2>3. Record([name |-> Unparsed, args |-> <<text>>, flags |-> {"eval"}])
      BY <1>2 DEF Enter
    <2> QED
      BY <2>2, <2>3, RecordType
  <1>3. CASE text \notin Broken
    <2>1. /\ rest' = IF text \in DOMAIN Scripts THEN Scripts[text] ELSE <<text>>
          /\ context' = context \cup {"eval"} /\ UNCHANGED <<argv, reader, real, odd, executed, phase>>
      BY <1>3 DEF Enter
    <2>2. text \in DOMAIN Scripts => Scripts[text] \in Seq(Words)
      BY BodiesAssumption DEF Bodies
    <2>3. rest' \in Seq(Words) /\ context' \subseteq Flags
      BY <1>1, <2>1, <2>2 DEF Flags
    <2> QED
      BY <2>1, <2>3 DEF TypeOK
  <1> QED
    BY <1>2, <1>3

LEMMA SearchType ==
  ASSUME TypeOK, NEW word \in Roots \cup Expression, Search(word)
  PROVE  TypeOK'
  <1>1. word \in Words /\ Write(word)
    BY WordsHave DEF Search
  <1>2. reader \in Readers /\ odd \subseteq Odds /\ real \in Commands \cup {None}
    BY DEF TypeOK
  <1>3. reader.roots \in Seq(Roots) /\ reader.flags \in SUBSET Flags
    BY <1>2 DEF Readers
  <1>4. reader' \in Readers
    <2>1. \A root \in Roots : Append(reader.roots, root) \in Seq(Roots)
      BY <1>3, AppendProperties
    <2>2. \/ reader' = reader
          \/ word \in Roots /\ reader' = [reader EXCEPT !.roots = Append(reader.roots, word)]
          \/ reader' = [reader EXCEPT !.open = FALSE]
      BY <1>2 DEF Search, Readers
    <2> QED
      BY <1>2, <2>1, <2>2 DEF Readers
  <1>5. odd' \subseteq Odds
    BY <1>2 DEF Search, Odds
  <1>6. real' \in Commands \cup {None}
    <2>1. AsRm(reader.roots) \in Commands
      BY <1>3, RemovalType
    <2>2. real' = real \/ real' = AsRm(reader.roots)
      BY DEF Search
    <2> QED
      BY <1>2, <2>1, <2>2
  <1> QED
    BY <1>1, <1>4, <1>5, <1>6, RealType

\* A command that is no wrapper runs as soon as its name is read.
OthersRun == reader.tool \in Others => real \in Commands

LEMMA ArgumentType ==
  ASSUME TypeOK, OthersRun, NEW word \in Args, Argument(word)
  PROVE  TypeOK' /\ real' \in Commands
  <1>1. word \in Words /\ Write(word) /\ UNCHANGED <<reader, odd>>
    BY WordsHave DEF Argument
  <1>2. real \in Commands
    BY DEF OthersRun, Argument
  <1>3. PICK n \in {Base(w) : w \in Words} \cup {Unparsed}, a \in Seq(Words), f \in SUBSET Flags :
          real = [name |-> n, args |-> a, flags |-> f]
    BY <1>2 DEF Commands
  <1>4. Append(a, word) \in Seq(Words)
    BY <1>1, AppendProperties
  <1>5. real' = [name |-> n, args |-> Append(a, word), flags |-> f]
    BY <1>3 DEF Argument
  <1>6. real' \in Commands
    BY <1>3, <1>4, <1>5 DEF Commands
  <1> QED
    BY <1>1, <1>6, RealType DEF TypeOK

\* The text behind -c=.
LEMMA EqualsText ==
  ASSUME NEW words \in Seq(Words), words # <<>>, NEW i \in EqualsAt(Tail(words))
  PROVE  LET word == words[i + 1] IN
         Len(words) > 1 /\ SubSeq(word, 4, Len(word)) \in (DOMAIN Scripts) \cup Broken
  <1>1. Tail(words) \in Seq(Words) /\ Len(Tail(words)) = Len(words) - 1 /\ Len(words) \in Nat
    BY HeadTailProperties
  <1>2. i \in 1..Len(Tail(words)) /\ Equated(Tail(words)[i])
    BY DEF EqualsAt
  <1>3. Tail(words)[i] = words[i + 1] /\ Tail(words)[i] \in Words
    BY <1>1, <1>2
  <1> QED
    BY <1>1, <1>2, <1>3, BodiesAssumption

LEMMA LoopType ==
  ASSUME TypeOK, Begin \/ Strip \/ Bare \/ EnvSplit \/ Shell \/ ShellEquals \/ Find \/ Actual
  PROVE  TypeOK'
  <1>1. /\ rest \in Seq(Words) /\ context \in SUBSET Flags /\ argv \in Seq(Words)
        /\ executed # <<>> => phase = "done"
    BY DEF TypeOK
  <1>2. rest # <<>> => /\ Head(rest) \in Words /\ Tail(rest) \in Seq(Words)
                       /\ [name |-> Base(Head(rest)), args |-> Tail(rest), flags |-> context] \in Commands
    <2> SUFFICES ASSUME rest # <<>>
                 PROVE  /\ Head(rest) \in Words /\ Tail(rest) \in Seq(Words)
                        /\ [name |-> Base(Head(rest)), args |-> Tail(rest), flags |-> context] \in Commands
      OBVIOUS
    <2>1. Head(rest) \in Words /\ Tail(rest) \in Seq(Words)
      BY <1>1, HeadTailProperties
    <2> QED
      BY <1>1, <2>1 DEF Commands
  <1>3. CASE Begin
    BY <1>1, <1>3 DEF Begin, TypeOK
  <1>4. CASE Strip
    <2>1. rest # <<>> /\ LayerOf(rest) < Len(rest)
      BY <1>4 DEF Strip
    <2>2. LayerOf(rest) \in Nat /\ LayerOf(rest) >= 1 /\ Len(rest) \in Nat
      BY <1>1, <2>1, LayerType
    <2>3. SubSeq(rest, LayerOf(rest) + 1, Len(rest)) \in Seq(Words)
      <3>1. \A i \in (LayerOf(rest) + 1)..Len(rest) : rest[i] \in Words
        BY <1>1, <2>2
      <3> QED
        BY <1>1, <2>1, <2>2, SubSeqProperties
    <2>4. context' \subseteq Flags
      BY <1>1, <1>4 DEF Strip, ContextOf, Flags
    <2> QED
      BY <1>4, <2>3, <2>4 DEF Strip, TypeOK
  <1>5. CASE Bare
    <2>1. Record(IF Base(Head(rest)) \in {"ssh", "xargs", "eval"} THEN None
                 ELSE [name |-> Base(Head(rest)), args |-> Tail(rest), flags |-> context]) /\ rest # <<>>
      BY <1>5 DEF Bare
    <2> QED
      BY <1>2, <2>1, RecordType
  <1>6. CASE Shell
    <2> DEFINE at == PlaceOfC(Front(rest))
    <2>1. Record(None) \/ (at # 0 /\ Enter(rest[at + 1]))
      BY <1>6 DEF Shell, PlaceOfC
    <2>2. ASSUME at # 0 PROVE rest[at + 1] \in Words
      <3>1. rest # <<>>
        BY <1>6 DEF Shell
      <3>2. Len(rest) \in Nat /\ at \in 1..(Len(rest) - 1)
        BY <1>1, <2>2, <3>1, FrontWords
      <3> QED
        BY <1>1, <3>2
    <2> HIDE DEF at
    <2> QED
      BY <2>1, <2>2, RecordType, EnterType
  <1>7. CASE Find
    <2> DEFINE words == Tail(rest)
               dash == PlaceOfDash(words)
               roots == SubSeq(words, 1, dash - 1)
               command == [name |-> "rm", flags |-> context,
                           args |-> <<<<"-", "rf">>, <<"--">>>> \o (IF roots = <<>> THEN <<<<".">>>> ELSE roots)]
    <2>1. rest # <<>> /\ (Record(None) \/ (dash # 0 /\ Record(command)))
      BY <1>7 DEF Find, PlaceOfDash
    <2>2. ASSUME dash # 0 PROVE command \in Commands
      <3>1. words \in Seq(Words) /\ Len(words) \in Nat
        BY <1>2, <2>1
      <3>2. dash \in 1..Len(words)
        <4>1. PlaceOfDash(words) \in 0..Len(words)
          <5> HIDE DEF words
          <5> QED
            BY <3>1, FirstDash
        <4> QED
          BY <2>2, <3>1, <4>1
      <3>3. roots \in Seq(Words)
        <4>1. \A i \in 1..(dash - 1) : words[i] \in Words
          BY <3>1, <3>2
        <4> QED
          BY <3>1, <3>2, SubSeqProperties
      <3> HIDE DEF roots
      <3>4. <<<<"-", "rf">>, <<"--">>>> \in Seq(Words) /\ <<<<".">>>> \in Seq(Words)
        BY WordsHave
      <3>5. <<<<"-", "rf">>, <<"--">>>> \o (IF roots = <<>> THEN <<<<".">>>> ELSE roots) \in Seq(Words)
        BY <3>3, <3>4, ConcatProperties
      <3>6. "rm" \in {Base(word) : word \in Words}
        BY RmName
      <3> QED
        BY <1>1, <3>5, <3>6 DEF Commands
    <2> HIDE DEF command
    <2> QED
      BY <2>1, <2>2, RecordType
  <1>8. CASE Actual
    <2>1. Record([name |-> Base(Head(rest)), args |-> Tail(rest), flags |-> context]) /\ rest # <<>>
      BY <1>8 DEF Actual
    <2> QED
      BY <1>2, <2>1, RecordType
  <1>9. CASE EnvSplit
    <2>1. /\ Record([name |-> "env", args |-> Tail(rest), flags |-> context]) /\ rest # <<>>
          /\ Base(Head(rest)) = "env"
      BY <1>9 DEF EnvSplit, SplitsAt
    <2> QED
      BY <1>2, <2>1, RecordType
  <1>10. CASE ShellEquals
    <2>1. rest # <<>>
      BY <1>10 DEF ShellEquals
    <2>2. PICK i \in EqualsAt(Tail(rest)) : Enter(SubSeq(rest[i + 1], 4, Len(rest[i + 1])))
      BY <1>10 DEF ShellEquals
    <2>3. SubSeq(rest[i + 1], 4, Len(rest[i + 1])) \in Words
      BY <1>1, <2>1, EqualsText, WordsHave
    <2> QED
      BY <2>2, <2>3, EnterType
  <1> QED
    BY <1>3, <1>4, <1>5, <1>6, <1>7, <1>8, <1>9, <1>10

LEMMA TypeInit == Init => TypeOK /\ OthersRun
  <1> SUFFICES ASSUME Init PROVE TypeOK /\ OthersRun
    OBVIOUS
  <1>1. reader = Reading("start", {}) /\ real = None
    BY DEF Init
  <1>2. "start" \in Tools /\ "start" \notin Others
    BY ToolsAssumption DEF Tools
  <1>3. reader \in Readers
    BY <1>1, <1>2, ReadingType
  <1>4. reader.tool = "start"
    BY <1>1 DEF Reading
  <1>5. <<>> \in Seq(Words) /\ <<>> \in Seq(Commands) /\ Len(<<>>) = 0 /\ 0 <= MaxWords
    BY ToolsAssumption
  <1>6. TypeOK
    BY <1>1, <1>3, <1>5 DEF Init, TypeOK
  <1>7. OthersRun
    BY <1>2, <1>4 DEF OthersRun
  <1> QED
    BY <1>6, <1>7

\* Only a name changes the tool that reads.
LEMMA SameTool ==
  ASSUME TypeOK, OthersRun, [Next]_vars, \A word \in Programs : ~Program(word),
         \A word \in DOMAIN Scripts : ~Split(word)
  PROVE  reader'.tool = reader.tool /\ (real' = real \/ real' \in Commands)
  <1>1. reader \in Readers /\ reader.flags \in SUBSET Flags /\ reader.roots \in Seq(Roots)
    BY DEF TypeOK, Readers
  <1>2. ASSUME NEW word \in OptionsOf(reader.tool), Option(word)
        PROVE  reader'.tool = reader.tool /\ real' = real
    BY <1>1, <1>2 DEF Option, Readers
  <1>3. ASSUME NEW word, Value(word) \/ Own(word)
        PROVE  reader'.tool = reader.tool /\ real' = real
    BY <1>1, <1>3 DEF Value, Own, Readers
  <1>4. CASE Terminator \/ Assignment
    BY <1>1, <1>4 DEF Terminator, Assignment, Readers
  <1>5. ASSUME NEW word \in Args, Argument(word)
        PROVE  reader'.tool = reader.tool /\ real' \in Commands
    BY <1>5, ArgumentType DEF Argument
  <1>6. ASSUME NEW word \in DOMAIN Scripts, Script(word)
        PROVE  reader'.tool = reader.tool /\ real' \in Commands
    <2>1. Scripts[word] \in Bodies
      BY DEF Bodies
    <2> QED
      BY <1>1, <1>6, <2>1, BodyType DEF Script
  <1>7. ASSUME NEW word, Search(word)
        PROVE  reader'.tool = reader.tool /\ (real' = real \/ real' \in Commands)
    <2>1. AsRm(reader.roots) \in Commands
      BY <1>1, RemovalType
    <2>2. real' = real \/ real' = AsRm(reader.roots)
      BY <1>7 DEF Search
    <2>3. \/ reader' = reader
          \/ reader' = [reader EXCEPT !.roots = Append(reader.roots, word)]
          \/ reader' = [reader EXCEPT !.open = FALSE]
      BY <1>1, <1>7 DEF Search, Readers
    <2>4. reader'.tool = reader.tool
      BY <1>1, <2>3 DEF Readers
    <2> QED
      BY <2>1, <2>2, <2>4
  <1>8. CASE Begin \/ Strip \/ Bare \/ EnvSplit \/ Shell \/ ShellEquals \/ Find \/ Actual \/ Finished
             \/ UNCHANGED vars
    BY <1>8 DEF Begin, Strip, Bare, EnvSplit, Shell, ShellEquals, Enter, Find, Actual, Record, Finished, vars
  <1>9. ASSUME NEW word \in OptionsOf(reader.tool) \cup Broken, Refused(word)
        PROVE  reader'.tool = reader.tool /\ real' = real
    BY <1>9, SplitType
  <1> QED
    BY <1>2, <1>3, <1>4, <1>5, <1>6, <1>7, <1>8, <1>9 DEF Next

LEMMA TypeNext == TypeOK /\ OthersRun /\ [Next]_vars => TypeOK' /\ OthersRun'
  <1> SUFFICES ASSUME TypeOK, OthersRun, [Next]_vars PROVE TypeOK' /\ OthersRun'
    OBVIOUS
  <1>1. TypeOK'
    <2>1. CASE UNCHANGED vars
      BY <2>1 DEF vars, TypeOK
    <2>2. CASE Finished
      BY <2>2 DEF Finished, vars, TypeOK
    <2>3. ASSUME NEW word \in OptionsOf(reader.tool), Option(word) PROVE TypeOK'
      BY <2>3, OptionType
    <2>4. ASSUME NEW word, Value(word) \/ Own(word) \/ Terminator \/ Assignment PROVE TypeOK'
      BY <2>4, ValueType
    <2>5. ASSUME NEW word \in Programs, Program(word) PROVE TypeOK'
      BY <2>5, ProgramType
    <2>6. ASSUME NEW word \in Args, Argument(word) PROVE TypeOK'
      BY <2>6, ArgumentType
    <2>7. ASSUME NEW word \in DOMAIN Scripts, Script(word) PROVE TypeOK'
      BY <2>7, ScriptType
    <2>8. ASSUME NEW word \in Roots \cup Expression, Search(word) PROVE TypeOK'
      BY <2>8, SearchType
    <2>9. CASE Begin \/ Strip \/ Bare \/ EnvSplit \/ Shell \/ ShellEquals \/ Find \/ Actual
      BY <2>9, LoopType
    <2>10. ASSUME NEW word, Split(word) \/ (word \in OptionsOf(reader.tool) \cup Broken /\ Refused(word))
           PROVE  TypeOK'
      BY <2>10, SplitType
    <2> QED
      BY <2>1, <2>2, <2>3, <2>4, <2>5, <2>6, <2>7, <2>8, <2>9, <2>10 DEF Next
  <1>2. OthersRun'
    <2>1. ASSUME NEW word \in Programs, Program(word) PROVE OthersRun'
      <3> DEFINE tool == Base(word)
                 flags == reader.flags \cup FlagOf(tool)
      <3>1. /\ reader' = Reading(tool, flags)
            /\ real' = IF tool \in Others THEN [name |-> tool, args |-> <<>>, flags |-> flags] ELSE real
        BY <2>1 DEF Program
      <3>2. reader'.tool = tool
        BY <3>1 DEF Reading
      <3>3. flags \in SUBSET Flags /\ tool \in {Base(w) : w \in Words} /\ <<>> \in Seq(Words)
        BY FlagsOfTools, WordsHave DEF TypeOK, Readers
      <3> HIDE DEF tool, flags
      <3> QED
        BY <3>1, <3>2, <3>3 DEF OthersRun, Commands
    <2>2. ASSUME NEW word, Split(word) PROVE OthersRun'
      BY <2>2, SplitType DEF OthersRun
    <2>3. CASE (\A word \in Programs : ~Program(word)) /\ \A word \in DOMAIN Scripts : ~Split(word)
      BY <2>3, SameTool DEF OthersRun
    <2> QED
      BY <2>1, <2>2, <2>3
  <1> QED
    BY <1>1, <1>2

\* applyUnwrap keeps the words of the command, its flags and what it records
\* apart and well formed, whatever is written.
THEOREM UnwrapTypeCorrect == Spec => []TypeOK
  <1>1. Init => TypeOK /\ OthersRun
    BY TypeInit
  <1>2. TypeOK /\ OthersRun /\ [Next]_vars => (TypeOK /\ OthersRun)'
    BY TypeNext
  <1>3. Spec => [](TypeOK /\ OthersRun)
    BY <1>1, <1>2, PTL DEF Spec
  <1> QED
    BY <1>3, PTL

-----------------------------------------------------------------------------
(* The loop ends.                                                          *)

LEMMA Shrinks ==
  ASSUME TypeOK, [Next]_vars, phase = "strip"
  PROVE  \/ phase' = "done" \/ Len(rest') < Len(rest)
         \/ rest \notin Bodies /\ rest' \in Bodies
         \/ UNCHANGED vars
  <1>1. rest \in Seq(Words)
    BY DEF TypeOK
  <1>2. CASE Strip
    <2>1. rest # <<>> /\ LayerOf(rest) < Len(rest) /\ rest' = SubSeq(rest, LayerOf(rest) + 1, Len(rest))
      BY <1>2 DEF Strip
    <2>2. LayerOf(rest) \in Nat /\ LayerOf(rest) >= 1 /\ Len(rest) \in Nat
      BY <1>1, <2>1, LayerType
    <2>3. \A i \in (LayerOf(rest) + 1)..Len(rest) : rest[i] \in Words
      BY <1>1, <2>2
    <2>4. Len(rest') = Len(rest) - (LayerOf(rest) + 1) + 1
      BY <1>1, <2>1, <2>2, <2>3, SubSeqProperties
    <2> QED
      BY <2>2, <2>4
  <1>3. CASE Shell
    <2> DEFINE at == PlaceOfC(Front(rest))
    <2>1. \/ phase' = "done"
          \/ /\ at # 0
             /\ rest' = IF rest[at + 1] \in DOMAIN Scripts THEN Scripts[rest[at + 1]] ELSE <<rest[at + 1]>>
      BY <1>3 DEF Shell, Enter, PlaceOfC, Record
    <2>2. rest # <<>> /\ Base(Head(rest)) \in Shells
      BY <1>3 DEF Shell
    <2>3. Len(rest) \in Nat /\ at \in 0..(Len(rest) - 1)
      BY <1>1, <2>2, FrontWords
    <2> HIDE DEF at
    <2>4. CASE at # 0 /\ rest' = Scripts[rest[at + 1]] /\ rest[at + 1] \in DOMAIN Scripts
      <3>1. rest' \in Bodies
        BY <2>4 DEF Bodies
      <3>2. rest \notin Bodies
        BY <2>2, BodiesAssumption, ToolsAssumption
      <3> QED
        BY <3>1, <3>2
    <2>5. CASE at # 0 /\ rest' = <<rest[at + 1]>>
      <3>1. Len(rest') = 1 /\ Len(rest) > 1
        BY <2>3, <2>5
      <3> QED
        BY <3>1
    <2> QED
      BY <2>1, <2>4, <2>5
  <1>4. CASE Bare \/ EnvSplit \/ Find \/ Actual
    BY <1>4 DEF Bare, EnvSplit, Find, Actual, Record
  <1>7. CASE ShellEquals
    <2>1. rest # <<>> /\ Base(Head(rest)) \in Shells
      BY <1>7 DEF ShellEquals
    <2>2. PICK i \in EqualsAt(Tail(rest)) : Enter(SubSeq(rest[i + 1], 4, Len(rest[i + 1])))
      BY <1>7 DEF ShellEquals
    <2>3. PICK text : text = SubSeq(rest[i + 1], 4, Len(rest[i + 1]))
      OBVIOUS
    <2>4. text \in (DOMAIN Scripts) \cup Broken
      BY <1>1, <2>1, <2>3, EqualsText
    <2>5. phase' = "done" \/ (text \in DOMAIN Scripts /\ rest' = Scripts[text])
      BY <2>2, <2>3, <2>4 DEF Enter, Record
    <2>6. text \in DOMAIN Scripts => Scripts[text] \in Bodies
      BY DEF Bodies
    <2>7. rest \notin Bodies
      BY <2>1, BodiesAssumption, ToolsAssumption
    <2> QED
      BY <2>5, <2>6, <2>7
  <1>5. CASE Begin \/ Finished
    BY <1>5 DEF Begin, Finished
  <1>6. ASSUME NEW word, Option(word) \/ Value(word) \/ Own(word) \/ Terminator \/ Assignment \/ Program(word)
                 \/ Argument(word) \/ Script(word) \/ Split(word) \/ Refused(word) \/ Search(word)
        PROVE  FALSE
    BY <1>6 DEF Option, Value, Own, Terminator, Assignment, Program, Argument, Script, Split, Refused, Search, Write
  <1> QED
    BY <1>2, <1>3, <1>4, <1>5, <1>6, <1>7 DEF Next

\* applyUnwrap: every turn of the loop makes the command shorter or enters a
\* script from outside, so that the loop ends.
THEOREM LoopAlwaysShrinks == Spec => LoopShrinks
  <1>1. TypeOK /\ [Next]_vars => [phase = "strip" => \/ phase' = "done" \/ Len(rest') < Len(rest)
                                                     \/ rest \notin Bodies /\ rest' \in Bodies]_vars
    BY Shrinks
  <1> QED
    BY <1>1, UnwrapTypeCorrect, PTL DEF Spec, LoopShrinks

-----------------------------------------------------------------------------
(* What words look like.                                                   *)

LEMMA OptionsAreDashed ==
  /\ \A letter : Dashed(Short(letter))
  /\ Dashed(<<"--">>)
  <1>1. ASSUME NEW letter PROVE Dashed(Short(letter))
    BY DEF Dashed, IsPrefix, Short
  <1>2. Dashed(<<"--">>)
    BY DEF Dashed, IsPrefix
  <1> QED
    BY <1>1, <1>2

LEMMA EquatedIsDashed ==
  ASSUME NEW word, Equated(word) \/ IsPrefix(Short("S"), word)
  PROVE  Dashed(word)
  <1>1. Equated(word) => Dashed(word)
    BY DEF Equated, IsPrefix, Dashed
  <1>2. IsPrefix(Short("S"), word) => Dashed(word)
    BY DEF Short, IsPrefix, Dashed
  <1> QED
    BY <1>1, <1>2

\* A word more gives a shell no -c=, unless it is one.
LEMMA NoEquals ==
  ASSUME NEW words \in Seq(Words), NEW word \in Words, EqualsAt(words) = {},
         ~Equated(word) \/ \E j \in 1..Len(words) : words[j] = Short("c")
  PROVE  EqualsAt(Append(words, word)) = {}
  <1> DEFINE more == Append(words, word)
  <1>1. /\ Len(more) = Len(words) + 1 /\ Len(words) \in Nat /\ more[Len(words) + 1] = word
        /\ \A i \in 1..Len(words) : more[i] = words[i]
    OBVIOUS
  <1> HIDE DEF more
  <1> SUFFICES ASSUME NEW i \in EqualsAt(more) PROVE FALSE
    BY DEF more
  <1>2. /\ i \in 1..Len(more) /\ Equated(more[i])
        /\ \A j \in 1..(i - 1) : more[j] # Short("c") /\ ~Equated(more[j])
    BY DEF EqualsAt
  <1>3. CASE i \in 1..Len(words)
    <2>1. Equated(words[i]) /\ \A j \in 1..(i - 1) : words[j] # Short("c") /\ ~Equated(words[j])
      BY <1>1, <1>2, <1>3
    <2>2. i \in EqualsAt(words)
      BY <1>3, <2>1 DEF EqualsAt
    <2> QED
      BY <2>2
  <1>4. CASE i = Len(words) + 1
    <2>1. Equated(word) /\ \A j \in 1..Len(words) : words[j] # Short("c")
      BY <1>1, <1>2, <1>4
    <2> QED
      BY <2>1
  <1> QED
    BY <1>1, <1>2, <1>3, <1>4

\* -c is a bundle with c in it.
LEMMA CIsBundle == Bundled(Short("c"), "c")
  <1>1. Len(<<"-", "c">>) = 2 /\ Head(<<"-", "c">>) = "-" /\ Tail(<<"-", "c">>) = <<"c">>
    OBVIOUS
  <1>2. "c" \in ToSet(<<"c">>)
    BY DEF ToSet
  <1> QED
    BY <1>1, <1>2 DEF Bundled, Short

\* What a wrapper makes of an option that the code knows.
LEMMA KnownOption ==
  ASSUME NEW tool \in Handled \ {"eval"}, NEW word \in OptionsOf(tool), word \notin Unlisted[tool],
         NEW count, NEW words \in Seq(Words), word \in Words,
         Scan(tool, words) = [count |-> count, value |-> FALSE, stop |-> FALSE]
  PROVE  /\ Scan(tool, Append(words, word)).count = count + 1
         /\ Scan(tool, Append(words, word)).value <=> word \in Valued[tool]
         /\ ~Scan(tool, Append(words, word)).stop
  <1>1. word # <<"--">> /\ (word \in WithValue(tool) \/ (word \notin Valued[tool] /\ Skips(tool, word)))
    BY OptionsAssumption
  <1>2. WithValue(tool) \subseteq Valued[tool]
    BY DEF WithValue
  <1>3. Scan(tool, Append(words, word))
          = Past(tool, [count |-> count, value |-> FALSE, stop |-> FALSE], word)
    BY ScanAppend
  <1>4. CASE word \in WithValue(tool)
    <2>1. Past(tool, [count |-> count, value |-> FALSE, stop |-> FALSE], word)
            = [count |-> count + 1, value |-> TRUE, stop |-> FALSE]
      BY <1>1, <1>4 DEF Past
    <2> QED
      BY <1>2, <1>3, <1>4, <2>1
  <1>5. CASE word \notin WithValue(tool)
    <2>1. Past(tool, [count |-> count, value |-> FALSE, stop |-> FALSE], word)
            = [count |-> count + 1, value |-> FALSE, stop |-> FALSE]
      BY <1>1, <1>5 DEF Past
    <2> QED
      BY <1>1, <1>3, <1>5, <2>1
  <1> QED
    BY <1>4, <1>5

\* A name or an operand ends the scan.
LEMMA OperandStops ==
  ASSUME NEW tool \in Handled, NEW word \in Programs \cup Values, NEW words \in Seq(Words),
         ~Scan(tool, words).value
  PROVE  /\ Scan(tool, Append(words, word)).stop /\ ~Scan(tool, Append(words, word)).value
         /\ Scan(tool, Append(words, word)).count = Scan(tool, words).count
  <1>1. word \in Words
    BY WordsHave
  <1>2. word # <<"--">> /\ word \notin WithValue(tool) /\ ~Skips(tool, word)
    BY OperandsAssumption, OptionsAreDashed
  <1>3. Scan(tool, words) \in [count : 0..Len(words), value : BOOLEAN, stop : BOOLEAN]
    BY ScanType
  <1> DEFINE at == Scan(tool, words)
  <1>4. Scan(tool, Append(words, word)) = Past(tool, at, word)
    BY <1>1, ScanAppend
  <1> HIDE DEF at
  <1>5. CASE at.stop
    BY <1>4, <1>5 DEF Past, at
  <1>6. CASE ~at.stop
    <2>1. Past(tool, at, word) = [at EXCEPT !.stop = TRUE]
      BY <1>2, <1>6 DEF Past, at
    <2> QED
      BY <1>3, <1>4, <2>1 DEF at
  <1> QED
    BY <1>5, <1>6

-----------------------------------------------------------------------------
(* A word more for the program that reads.                                 *)

\* The layers that are there stay.
LEMMA SameProgram ==
  ASSUME TypeOK, NEW P, NEW s, Written(P, s), NEW word \in Words, argv' = Append(argv, word)
  PROVE  /\ Tail(From(argv, s)) \in Seq(Words)
         /\ Tail(From(argv', s)) = Append(Tail(From(argv, s)), word)
         /\ Layered(argv', P, s) /\ \A p \in P : argv'[p] = argv[p]
         /\ Around(argv', P, s) = Around(argv, P, s)
  <1>1. argv \in Seq(Words)
    BY DEF TypeOK
  <1>2. Layered(argv, P, s)
    BY DEF Written
  <1>3. /\ Layered(argv', P, s) /\ P \in SUBSET (1..Len(argv)) /\ s \in P
        /\ Around(argv', P, s) = Around(argv, P, s)
    BY <1>1, <1>2, LayeredKept
  <1>4. s \in 1..Len(argv)
    BY <1>3
  <1>5. \A p \in P : argv'[p] = argv[p]
    BY <1>1, <1>3
  <1> QED
    BY <1>1, <1>3, <1>4, <1>5, FromWords, FromMore

\* What the program that reads makes of one word more.
LEMMA OneMore ==
  ASSUME TypeOK, NEW P, NEW s, Written(P, s), NEW word \in Words, argv' = Append(argv, word),
         reader'.tool = reader.tool, reader'.flags = reader.flags,
         NEW more, more = Append(Tail(From(argv, s)), word),
         reader.tool \in Wrappers => ReadsWrapper(more)',
         reader.tool \in Shells => ReadsShell(more)',
         reader.tool \in Others => ReadsOther(more)',
         reader.tool = "find" => ReadsFind(more)'
  PROVE  Written(P, s)'
  <1>1. /\ Tail(From(argv', s)) = more /\ Layered(argv', P, s) /\ \A p \in P : argv'[p] = argv[p]
        /\ Around(argv', P, s) = Around(argv, P, s)
    BY SameProgram
  <1>2. /\ \A p \in P : argv[p] \in Programs
        /\ s \in P /\ reader.tool = Base(argv[s])
        /\ reader.flags = Around(argv, P, s) \cup FlagOf(reader.tool)
        /\ reader.tool # "start"
    BY DEF Written, Layered
  <1> QED
    BY <1>1, <1>2 DEF Written

LEMMA OptionWritten ==
  ASSUME TypeOK, NEW P, NEW s, Written(P, s), NEW word \in OptionsOf(reader.tool), Option(word), odd' = {}
  PROVE  Written(P, s)'
  <1>1. word \in Words /\ argv' = Append(argv, word) /\ real' = real
    BY WordsHave DEF Option, Write
  <1>2. reader.tool \in Wrappers \cup Shells /\ reader.open /\ ~reader.value
    BY DEF Option, OptionsOpen
  <1> DEFINE v == word \in Valued[reader.tool] \cup Unlisted[reader.tool]
             c == reader.script \/ (reader.tool \in Shells /\ Bundled(word, "c"))
  <1>3. /\ reader'.tool = reader.tool /\ reader'.flags = reader.flags /\ reader'.open = reader.open
        /\ reader'.value = v /\ reader'.operands = reader.operands /\ reader'.script = c
    <2>1. reader' = [reader EXCEPT !.value = v, !.script = c]
      BY DEF Option
    <2>2. reader \in Readers
      BY DEF TypeOK
    <2> HIDE DEF v, c
    <2> QED
      BY <2>1, <2>2 DEF Readers
  <1>4. /\ word \notin Unlisted[reader.tool] /\ ~reader.script
        /\ reader.tool \in Shells /\ Bundled(word, "c") => word = Short("c")
    BY DEF Option
  <1> PICK words : words = Tail(From(argv, s))
    OBVIOUS
  <1>5. words \in Seq(Words)
    BY <1>1, SameProgram
  <1> PICK more : more = Append(words, word)
    OBVIOUS
  <1>6. /\ more \in Seq(Words) /\ Len(words) \in Nat /\ Len(more) = Len(words) + 1 /\ more # <<>> /\ more[Len(words) + 1] = word
        /\ \A i \in 1..Len(words) : more[i] = words[i]
    BY <1>1, <1>5
  <1>7. ASSUME reader.tool \in Wrappers PROVE ReadsWrapper(more)'
    <2>1. /\ real = None /\ reader.tool \in Handled \ {"eval"} /\ InOptions(words)
      BY <1>2, <1>7, ToolsAssumption DEF Written, ReadsWrapper, BehindOperand
    <2>2. /\ Scan(reader.tool, words) = [count |-> Len(words), value |-> FALSE, stop |-> FALSE]
          /\ reader.operands = IF reader.tool \in Takers THEN 1 ELSE 0
      <3>1. Scan(reader.tool, words) \in [count : 0..Len(words), value : BOOLEAN, stop : BOOLEAN]
        BY <1>5, ScanType
      <3> QED
        BY <1>2, <2>1, <3>1 DEF InOptions
    <2>3. /\ Scan(reader.tool, more).count = Len(words) + 1
          /\ Scan(reader.tool, more).value <=> word \in Valued[reader.tool]
          /\ ~Scan(reader.tool, more).stop
      <3> PICK tool : tool = reader.tool
        OBVIOUS
      <3>1. tool \in Handled \ {"eval"} /\ word \in OptionsOf(tool) /\ word \notin Unlisted[tool]
        BY <1>4, <2>1
      <3>2. /\ Scan(tool, Append(words, word)).count = Len(words) + 1
            /\ Scan(tool, Append(words, word)).value <=> word \in Valued[tool]
            /\ ~Scan(tool, Append(words, word)).stop
        <4>1. Scan(tool, words) = [count |-> Len(words), value |-> FALSE, stop |-> FALSE]
          BY <2>2
        <4> HIDE DEF v, c
        <4> QED
          BY <1>1, <1>5, <3>1, <4>1, KnownOption
      <3> QED
        BY <3>2
    <2>4. Scan(reader.tool, more).value = v
      <3>1. Scan(reader.tool, more) \in [count : 0..Len(more), value : BOOLEAN, stop : BOOLEAN]
        BY <1>6, ScanType
      <3>2. Scan(reader.tool, more).value \in BOOLEAN
        BY <3>1
      <3> QED
        BY <1>4, <2>3, <3>2
    <2> HIDE DEF v, c
    <2>5. InOptions(more)'
      BY <1>3, <1>6, <2>2, <2>3, <2>4 DEF InOptions
    <2> QED
      BY <1>1, <1>3, <2>1, <2>5 DEF ReadsWrapper
  <1>8. ASSUME reader.tool \in Shells PROVE ReadsShell(more)'
    <2>1. /\ reader.operands = 0 /\ real = None
          /\ \A i \in 1..Len(words) : words[i] # Short("c")
      BY <1>4, <1>8 DEF Written, ReadsShell
    <2>4. EqualsAt(more) = {}
      <3>1. EqualsAt(words) = {}
        BY <1>8 DEF Written, ReadsShell
      <3>2. ~Equated(word)
        BY <1>8 DEF Option
      <3> QED
        BY <1>1, <1>5, <3>1, <3>2, NoEquals
    <2>2. CASE word = Short("c")
      <3>1. c = TRUE /\ v = FALSE
        BY <1>8, <2>2, CIsBundle, BodiesAssumption
      <3> HIDE DEF v, c
      <3> QED
        BY <1>1, <1>3, <1>6, <2>1, <2>2, <2>4, <3>1 DEF ReadsShell
    <2>3. CASE word # Short("c")
      <3>1. c = FALSE
        BY <1>4, <1>8, <2>3
      <3> HIDE DEF v, c
      <3> QED
        BY <1>1, <1>3, <1>6, <2>1, <2>3, <2>4, <3>1 DEF ReadsShell
    <2> QED
      BY <2>2, <2>3
  <1>9. reader.tool \notin Others /\ reader.tool # "find"
    BY <1>2, ToolsAssumption
  <1> HIDE DEF v, c
  <1> QED
    BY <1>1, <1>3, <1>7, <1>8, <1>9, OneMore

\* The scan of a reader that has not met the end of the options.
LEMMA ScanGoesOn ==
  ASSUME TypeOK, NEW words \in Seq(Words), InOptions(words), ~Scan(reader.tool, words).stop
  PROVE  Scan(reader.tool, words) = [count |-> Len(words), value |-> reader.value, stop |-> FALSE]
  <1>1. Scan(reader.tool, words) \in [count : 0..Len(words), value : BOOLEAN, stop : BOOLEAN]
    BY ScanType
  <1> QED
    BY <1>1 DEF InOptions

\* The last word that a program reads is the last word of the command.
LEMMA FromLast ==
  ASSUME NEW words \in Seq(Words), NEW p \in 1..Len(words), Tail(From(words, p)) # <<>>
  PROVE  Last(Tail(From(words, p))) = Last(words)
  <1> PICK tail : tail = Tail(From(words, p))
    OBVIOUS
  <1>1. tail \in Seq(Words) /\ Len(tail) = Len(words) - p /\ \A i \in 1..(Len(words) - p) : tail[i] = words[p + i]
    BY FromWords
  <1>2. Len(tail) \in 1..(Len(words) - p) /\ p + Len(tail) = Len(words)
    BY <1>1, EmptySeq
  <1> QED
    BY <1>1, <1>2 DEF Last

LEMMA ValueWritten ==
  ASSUME TypeOK, NEW P, NEW s, Written(P, s), NEW word \in Values, Value(word)
  PROVE  Written(P, s)'
  <1>1. word \in Words /\ argv' = Append(argv, word) /\ real' = real
    BY WordsHave DEF Value, Write
  <1>2. reader.value /\ reader \in Readers
    BY DEF Value, TypeOK
  <1>3. /\ reader'.tool = reader.tool /\ reader'.flags = reader.flags /\ reader'.open = reader.open
        /\ reader'.value = FALSE /\ reader'.operands = reader.operands /\ reader'.script = reader.script
    BY <1>2 DEF Value, Readers
  <1> PICK words : words = Tail(From(argv, s))
    OBVIOUS
  <1>4. words \in Seq(Words)
    BY <1>1, SameProgram
  <1> PICK more : more = Append(words, word)
    OBVIOUS
  <1>5. /\ more \in Seq(Words) /\ Len(words) \in Nat /\ Len(more) = Len(words) + 1 /\ more # <<>>
        /\ more[Len(words) + 1] = word /\ \A i \in 1..Len(words) : more[i] = words[i]
    BY <1>1, <1>4
  <1>6. ASSUME reader.tool \in Wrappers PROVE ReadsWrapper(more)'
    <2>1. /\ real = None /\ reader.tool \in Handled \ {"eval"} /\ InOptions(words)
      BY <1>2, <1>6 DEF Written, ReadsWrapper, BehindOperand
    <2>2. ~Scan(reader.tool, words).stop /\ reader.operands = IF reader.tool \in Takers THEN 1 ELSE 0
      BY <1>2, <2>1 DEF InOptions
    <2>3. Scan(reader.tool, words) = [count |-> Len(words), value |-> TRUE, stop |-> FALSE]
      <3>1. reader.value = TRUE
        BY <1>2 DEF Readers
      <3> QED
        BY <1>4, <2>1, <2>2, <3>1, ScanGoesOn
    <2>4. Scan(reader.tool, more) = Past(reader.tool, Scan(reader.tool, words), word)
      BY <1>1, <1>4, ScanAppend
    <2>5. Scan(reader.tool, more) = [count |-> Len(words) + 1, value |-> FALSE, stop |-> FALSE]
      <3>1. Past(reader.tool, [count |-> Len(words), value |-> TRUE, stop |-> FALSE], word)
              = [count |-> Len(words) + 1, value |-> FALSE, stop |-> FALSE]
        BY DEF Past
      <3> QED
        BY <2>3, <2>4, <3>1
    <2>6. InOptions(more)'
      <3>1. Scan(reader.tool, more).count = Len(more) /\ Scan(reader.tool, more).value = FALSE
            /\ Scan(reader.tool, more).stop = FALSE
        BY <1>5, <2>5
      <3> QED
        BY <1>3, <2>2, <3>1 DEF InOptions
    <2> QED
      BY <1>1, <1>3, <2>1, <2>6 DEF ReadsWrapper
  <1>7. ASSUME reader.tool \in Shells PROVE ReadsShell(more)'
    <2>1. /\ reader.operands = 0 /\ real = None /\ ~reader.script /\ EqualsAt(words) = {}
          /\ \A i \in 1..Len(words) : words[i] # Short("c")
      BY <1>2, <1>7 DEF Written, ReadsShell
    <2>2. word # Short("c") /\ ~Equated(word)
      BY OperandsAssumption, OptionsAreDashed, EquatedIsDashed
    <2>5. EqualsAt(more) = {}
      BY <1>1, <1>4, <2>1, <2>2, NoEquals
    <2>3. \A i \in 1..Len(more) : more[i] # Short("c")
      BY <1>5, <2>1, <2>2
    <2>4. reader'.operands = 0 /\ real' = None /\ ~reader'.script
      BY <1>1, <1>3, <2>1
    <2> QED
      BY <2>3, <2>4, <2>5 DEF ReadsShell
  <1>8. reader.tool \notin Others /\ reader.tool # "find"
    BY <1>2 DEF Written, ReadsOther, ReadsFind
  <1> QED
    BY <1>1, <1>3, <1>6, <1>7, <1>8, OneMore

LEMMA OwnWritten ==
  ASSUME TypeOK, NEW P, NEW s, Written(P, s), NEW word \in Values, Own(word)
  PROVE  Written(P, s)'
  <1>1. word \in Words /\ argv' = Append(argv, word) /\ real' = real
    BY WordsHave DEF Own, Write
  <1>2. reader.operands # 0 /\ ~reader.value /\ reader \in Readers
    BY DEF Own, TypeOK, Readers
  <1>3. /\ reader'.tool = reader.tool /\ reader'.flags = reader.flags /\ reader'.open = FALSE
        /\ reader'.value = reader.value /\ reader'.operands = 0
    BY <1>2 DEF Own, Readers
  <1>0. PICK words : words = Tail(From(argv, s))
    OBVIOUS
  <1>4. words \in Seq(Words)
    BY <1>1, <1>0, SameProgram
  <1> PICK more : more = Append(words, word)
    OBVIOUS
  <1>5. more \in Seq(Words) /\ Len(words) \in Nat /\ Len(more) = Len(words) + 1
    BY <1>1, <1>4
  <1>6. ASSUME reader.tool \in Wrappers PROVE ReadsWrapper(more)'
    <2>1. /\ real = None /\ reader.tool \in Handled \ {"eval"} /\ InOptions(words)
      BY <1>2, <1>6, <1>0 DEF Written, ReadsWrapper, BehindOperand
    <2>2. /\ Scan(reader.tool, words).count = Len(words) /\ ~Scan(reader.tool, words).value
          /\ reader.tool \in Takers
      BY <1>2, <2>1 DEF InOptions
    <2>3. Scan(reader.tool, more).stop /\ Scan(reader.tool, more).count = Len(words)
      <3>1. ASSUME NEW tool \in Handled, ~Scan(tool, words).value
            PROVE  Scan(tool, more).stop /\ Scan(tool, more).count = Scan(tool, words).count
        <4>1. word \in Programs \cup Values
          OBVIOUS
        <4> QED
          BY <1>4, <3>1, <4>1, OperandStops
      <3> QED
        BY <2>1, <2>2, <3>1
    <2>4. BehindOperand(more)'
      BY <1>2, <1>3, <1>5, <2>2, <2>3 DEF BehindOperand
    <2> QED
      BY <1>1, <1>3, <2>1, <2>4 DEF ReadsWrapper
  <1>7. reader.tool \notin Shells \cup Others /\ reader.tool # "find"
    BY <1>2 DEF Written, ReadsShell, ReadsOther, ReadsFind
  <1> QED
    BY <1>1, <1>3, <1>6, <1>7, <1>0, OneMore

LEMMA TerminatorWritten ==
  ASSUME TypeOK, NEW P, NEW s, Written(P, s), Terminator
  PROVE  Written(P, s)'
  <1> PICK word : word = <<"--">>
    OBVIOUS
  <1>1. word \in Words /\ argv' = Append(argv, word) /\ real' = real
    BY WordsHave DEF Terminator, Write
  <1>2. /\ reader.tool \in Wrappers \ {"eval"} /\ reader.open /\ ~reader.value /\ reader \in Readers
    BY DEF Terminator, OptionsOpen, TypeOK
  <1>3. /\ reader'.tool = reader.tool /\ reader'.flags = reader.flags /\ reader'.open = FALSE
        /\ reader'.value = FALSE /\ reader'.operands = reader.operands
    BY <1>2 DEF Terminator, Readers
  <1> PICK words : words = Tail(From(argv, s))
    OBVIOUS
  <1>4. words \in Seq(Words)
    BY <1>1, SameProgram
  <1> PICK more : more = Append(words, word)
    OBVIOUS
  <1>5. /\ more \in Seq(Words) /\ Len(words) \in Nat /\ Len(more) = Len(words) + 1 /\ more # <<>>
        /\ Last(more) = word
    <2>1. /\ more \in Seq(Words) /\ Len(words) \in Nat /\ Len(more) = Len(words) + 1
          /\ more[Len(words) + 1] = word
      BY <1>1, <1>4, AppendProperties
    <2>2. more # <<>>
      BY <2>1
    <2> QED
      BY <2>1, <2>2 DEF Last
  <1>6. /\ real = None /\ reader.tool \in Handled \ {"eval"} /\ InOptions(words)
    BY <1>2 DEF Written, ReadsWrapper, BehindOperand
  <1>7. ~Scan(reader.tool, words).stop /\ reader.operands = IF reader.tool \in Takers THEN 1 ELSE 0
    BY <1>2, <1>6 DEF InOptions
  <1>8. Scan(reader.tool, words) = [count |-> Len(words), value |-> FALSE, stop |-> FALSE]
    <2>1. reader.value = FALSE
      BY <1>2 DEF Readers
    <2> QED
      BY <1>4, <1>6, <1>7, <2>1, ScanGoesOn
  <1>9. Scan(reader.tool, more) = Past(reader.tool, Scan(reader.tool, words), word)
    BY <1>1, <1>4, ScanAppend
  <1> PICK stop : stop = (reader.tool # "xargs")
    OBVIOUS
  <1>10. Scan(reader.tool, more) = [count |-> Len(words) + 1, value |-> FALSE, stop |-> stop]
    <2>1. Past(reader.tool, [count |-> Len(words), value |-> FALSE, stop |-> FALSE], <<"--">>)
            = [count |-> Len(words) + 1, value |-> FALSE, stop |-> stop]
      BY DEF Past
    <2> QED
      BY <1>8, <1>9, <2>1
  <1>11. InOptions(more)'
    <2>1. Scan(reader.tool, more).count = Len(more) /\ Scan(reader.tool, more).value = FALSE
      BY <1>5, <1>10
    <2> QED
      BY <1>3, <1>5, <1>7, <2>1 DEF InOptions
  <1>12. ReadsWrapper(more)'
    BY <1>1, <1>3, <1>6, <1>11 DEF ReadsWrapper
  <1>13. reader.tool \notin Shells \cup Others /\ reader.tool # "find"
    BY <1>2, ToolsAssumption
  <1> QED
    BY <1>1, <1>3, <1>12, <1>13, OneMore

LEMMA AssignmentWritten ==
  ASSUME TypeOK, NEW P, NEW s, Written(P, s), Assignment, odd' = {}
  PROVE  Written(P, s)'
  <1> PICK word : word = <<"A", "=", "b">>
    OBVIOUS
  <1>1. word \in Words /\ argv' = Append(argv, word) /\ real' = real
    BY WordsHave DEF Assignment, Write
  <1>2. /\ reader.tool = "env" /\ ~reader.value /\ reader \in Readers /\ Last(argv) # <<"--">>
    BY DEF Assignment, TypeOK
  <1>3. /\ reader'.tool = reader.tool /\ reader'.flags = reader.flags /\ reader'.open = FALSE
        /\ reader'.value = FALSE /\ reader'.operands = reader.operands
    BY <1>2 DEF Assignment, Readers
  <1> PICK words : words = Tail(From(argv, s))
    OBVIOUS
  <1>4. words \in Seq(Words)
    BY <1>1, SameProgram
  <1> PICK more : more = Append(words, word)
    OBVIOUS
  <1>5. more \in Seq(Words) /\ Len(words) \in Nat /\ Len(more) = Len(words) + 1
    BY <1>1, <1>4
  <1>6. /\ real = None /\ "env" \in Handled \ {"eval"} /\ InOptions(words) /\ "env" \notin Takers
    BY <1>2, ToolsAssumption DEF Written, ReadsWrapper, BehindOperand
  <1>7. ~Scan("env", words).stop /\ reader.operands = 0
    <2>1. words # <<>> => Last(words) = Last(argv)
      <3>1. argv \in Seq(Words) /\ s \in 1..Len(argv)
        BY DEF TypeOK, Written, Layered
      <3> QED
        BY <3>1, FromLast
    <2> QED
      BY <1>2, <1>6, <2>1 DEF InOptions
  <1>8. Scan("env", words) = [count |-> Len(words), value |-> FALSE, stop |-> FALSE]
    <2>1. reader.value = FALSE
      BY <1>2 DEF Readers
    <2> QED
      BY <1>2, <1>4, <1>6, <1>7, <2>1, ScanGoesOn
  <1>9. Scan("env", more) = Past("env", Scan("env", words), word)
    BY <1>1, <1>4, ScanAppend
  <1>10. word # <<"--">> /\ word \notin WithValue("env") /\ Skips("env", word)
    <2>1. Len(<<"A", "=", "b">>) = 3 /\ <<"A", "=", "b">>[2] = "=" /\ Len(<<"--">>) = 1
      OBVIOUS
    <2> QED
      BY <2>1, OptionsAssumption DEF WithValue, Skips
  <1>11. Scan("env", more) = [count |-> Len(words) + 1, value |-> FALSE, stop |-> FALSE]
    <2>1. Past("env", [count |-> Len(words), value |-> FALSE, stop |-> FALSE], word)
            = [count |-> Len(words) + 1, value |-> FALSE, stop |-> FALSE]
      BY <1>10 DEF Past
    <2> QED
      BY <1>8, <1>9, <2>1
  <1>12. InOptions(more)'
    <2>1. /\ Scan("env", more).count = Len(more) /\ Scan("env", more).value = FALSE
          /\ Scan("env", more).stop = FALSE
      BY <1>5, <1>11
    <2> QED
      BY <1>2, <1>3, <1>6, <1>7, <2>1 DEF InOptions
  <1>13. ReadsWrapper(more)'
    BY <1>1, <1>2, <1>3, <1>6, <1>12 DEF ReadsWrapper
  <1>14. reader.tool \notin Shells \cup Others /\ reader.tool # "find"
    BY <1>2, ToolsAssumption
  <1> QED
    BY <1>1, <1>3, <1>13, <1>14, OneMore

\* A program whose name has just been read.
LEMMA Opened ==
  ASSUME NEW word \in Programs, Program(word), odd' = {}, real = None
  PROVE  /\ reader'.tool = Base(word) /\ reader'.flags = reader.flags \cup FlagOf(Base(word))
         /\ reader'.tool # "start"
         /\ reader'.tool \in Wrappers => ReadsWrapper(<<>>)'
         /\ reader'.tool \in Shells => ReadsShell(<<>>)'
         /\ reader'.tool \in Others => ReadsOther(<<>>)'
         /\ reader'.tool = "find" => ReadsFind(<<>>)'
  <1> DEFINE tool == Base(word)
             flags == reader.flags \cup FlagOf(tool)
  <1>1. /\ reader' = Reading(tool, flags) /\ tool \notin Blind /\ tool # "start"
        /\ real' = IF tool \in Others THEN [name |-> tool, args |-> <<>>, flags |-> flags] ELSE real
    BY OperandsAssumption DEF Program
  <1> HIDE DEF tool, flags
  <1>2. /\ reader'.tool = tool /\ reader'.flags = flags /\ reader'.open = TRUE /\ reader'.value = FALSE
        /\ reader'.operands = (IF tool \in Takers THEN 1 ELSE 0) /\ reader'.script = FALSE
        /\ reader'.roots = <<>>
    BY <1>1 DEF Reading
  <1>3. Len(<<>>) = 0 /\ 1..0 = {}
    OBVIOUS
  <1>4. ASSUME tool \in Wrappers PROVE ReadsWrapper(<<>>)'
    <2>1. real' = None /\ tool \in Handled
      BY <1>1, <1>4, ToolsAssumption DEF Handled
    <2>2. tool = "eval" => reader'.operands = 0
      BY <1>2, ToolsAssumption
    <2>3. Scan(tool, <<>>).count = 0 /\ Scan(tool, <<>>).value = FALSE /\ Scan(tool, <<>>).stop = FALSE
      BY ScanNothing DEF Fresh
    <2>4. InOptions(<<>>)'
      BY <1>2, <1>3, <2>3 DEF InOptions
    <2> QED
      BY <1>2, <2>1, <2>2, <2>4 DEF ReadsWrapper
  <1>5. tool \in Shells \cup Others \cup {"find"} => reader'.operands = 0
    BY <1>2, ToolsAssumption
  <1>6. ASSUME tool \in Shells PROVE ReadsShell(<<>>)'
    <2>1. EqualsAt(<<>>) = {}
      BY <1>3 DEF EqualsAt
    <2> QED
      BY <1>1, <1>2, <1>3, <1>5, <1>6, <2>1, ToolsAssumption DEF ReadsShell
  <1>7. ASSUME tool \in Others PROVE ReadsOther(<<>>)'
    BY <1>1, <1>2, <1>5, <1>7 DEF ReadsOther
  <1>8. ASSUME tool = "find" PROVE ReadsFind(<<>>)'
    BY <1>1, <1>2, <1>3, <1>5, <1>8, ToolsAssumption DEF ReadsFind
  <1> QED
    BY <1>1, <1>2, <1>4, <1>6, <1>7, <1>8 DEF tool, flags

\* The command begins.
LEMMA FirstWritten ==
  ASSUME NothingRead, NEW word \in Programs, Program(word), odd' = {}
  PROVE  Written({1}, 1)'
  <1>1. argv' = <<word>>
    BY DEF NothingRead, Program, Write
  <1>2. word \in Words
    BY WordsHave
  <1>3. argv' \in Seq(Words) /\ Len(argv') = 1 /\ argv'[1] = word
    BY <1>1, <1>2
  <1>4. Tail(From(argv', 1)) = <<>>
    <2> PICK words : words = argv'
      OBVIOUS
    <2>1. words \in Seq(Words) /\ Len(words) = 1
      BY <1>3
    <2>2. 1 \in 1..Len(words) /\ Len(words) - 1 = 0
      BY <2>1
    <2>3. Tail(From(words, 1)) \in Seq(Words) /\ Len(Tail(From(words, 1))) = 0
      BY <2>1, <2>2, FromWords
    <2> QED
      BY <2>3, EmptySeq
  <1>5. Layered(argv', {1}, 1)
    BY <1>3 DEF Layered
  <1>6. Around(argv', {1}, 1) = {}
    <2>1. {q \in {1} : q < 1} = {}
      OBVIOUS
    <2> QED
      BY <2>1 DEF Around
  <1>7. real = None /\ reader.flags = {}
    BY DEF NothingRead, Reading
  <1> QED
    BY <1>3, <1>4, <1>5, <1>6, <1>7, Opened DEF Written

\* The next program begins where its wrapper ends.
LEMMA LayeredPlaces ==
  ASSUME NEW words, NEW P, NEW s, Layered(words, P, s), Len(words) \in Nat
  PROVE  P \in SUBSET (1..Len(words)) /\ s \in P /\ s \in 1..Len(words)
  <1>1. P \subseteq 1..s /\ s \in P /\ s <= Len(words)
    BY DEF Layered
  <1>2. s \in Nat /\ 1 <= s
    BY <1>1
  <1> QED
    BY <1>1, <1>2

LEMMA ProgramWritten ==
  ASSUME TypeOK, NEW P, NEW s, Written(P, s), NEW word \in Programs, Program(word), odd' = {}
  PROVE  \E Q \in SUBSET (1..Len(argv')) : \E t \in Q : Written(Q, t)'
  <1>1. word \in Words /\ argv' = Append(argv, word) /\ argv \in Seq(Words)
    BY WordsHave DEF Program, Write, TypeOK
  <1>2. reader.operands = 0 /\ ~reader.value /\ reader.tool \in Wrappers
    BY DEF Program, Written
  <1>3. /\ Layered(argv, P, s) /\ reader.tool = Base(argv[s])
        /\ reader.flags = Around(argv, P, s) \cup FlagOf(reader.tool)
    BY DEF Written
  <1>4. s \in 1..Len(argv) /\ Len(argv) \in Nat
    <2>1. Len(argv) \in Nat
      BY <1>1
    <2> QED
      BY <1>3, <2>1, LayeredPlaces
  <1>0. PICK words : words = Tail(From(argv, s))
    OBVIOUS
  <1>5. words \in Seq(Words) /\ Len(words) = Len(argv) - s
    BY <1>0, <1>1, <1>4, FromWords
  <1>6. real = None /\ reader.tool \in Handled
        /\ (IF reader.tool = "eval" THEN words = <<>> ELSE InOptions(words) \/ BehindOperand(words))
    BY <1>0, <1>2 DEF Written, ReadsWrapper
  <1>7. /\ Tail(From(Append(argv, word), s)) = Append(words, word) /\ Append(argv, word)[s] = argv[s]
        /\ Append(argv, word) \in Seq(Words) /\ Len(Append(argv, word)) = Len(argv) + 1
    <2>1. Tail(From(Append(argv, word), s)) = Append(Tail(From(argv, s)), word)
      <3>1. argv \in Seq(Words) /\ word \in Words
        BY <1>1
      <3> QED
        BY <1>4, <3>1, FromMore, FromWords
    <2>2. /\ Append(argv, word)[s] = argv[s]
          /\ Append(argv, word) \in Seq(Words) /\ Len(Append(argv, word)) = Len(argv) + 1
      BY <1>1, <1>4, AppendProperties
    <2> QED
      BY <1>0, <2>1, <2>2
  <1>8. Head(From(Append(argv, word), s)) = argv[s]
    <2>1. s \in 1..Len(Append(argv, word))
      BY <1>4, <1>7
    <2> QED
      BY <1>7, <2>1, FromWords
  <1>9. reader.tool # "eval" =>
          /\ Scan(reader.tool, Append(words, word)).stop
          /\ Scan(reader.tool, Append(words, word)).count + (IF reader.tool \in Takers THEN 1 ELSE 0) = Len(words)
    <2>1. CASE reader.tool # "eval" /\ InOptions(words)
      <3>1. /\ Scan(reader.tool, words).count = Len(words) /\ ~Scan(reader.tool, words).value
            /\ reader.tool \notin Takers
        BY <1>2, <2>1 DEF InOptions
      <3>2. ASSUME NEW tool \in Handled, ~Scan(tool, words).value
            PROVE  /\ Scan(tool, Append(words, word)).stop
                   /\ Scan(tool, Append(words, word)).count = Scan(tool, words).count
        <4>1. word \in Programs \cup Values
          OBVIOUS
        <4> QED
          BY <1>5, <3>2, <4>1, OperandStops
      <3>3. /\ Scan(reader.tool, Append(words, word)).stop
            /\ Scan(reader.tool, Append(words, word)).count = Len(words)
        BY <1>6, <3>1, <3>2
      <3> QED
        BY <1>5, <1>4, <3>1, <3>3
    <2>2. CASE reader.tool # "eval" /\ BehindOperand(words)
      <3>1. /\ Scan(reader.tool, words).stop /\ Scan(reader.tool, words).count + 1 = Len(words)
            /\ reader.tool \in Takers
        BY <2>2 DEF BehindOperand
      <3>2. ASSUME NEW tool, Scan(tool, words).stop
            PROVE  Scan(tool, Append(words, word)) = Scan(tool, words)
        BY <1>1, <1>5, <3>2, StopKept
      <3>3. Scan(reader.tool, Append(words, word)) = Scan(reader.tool, words)
        BY <3>1, <3>2
      <3> QED
        BY <3>1, <3>3
    <2> QED
      BY <1>6, <2>1, <2>2
  <1>10. s + LayerOf(From(Append(argv, word), s)) = Len(argv) + 1
    <2>1. CASE reader.tool = "eval"
      <3>1. LayerOf(From(Append(argv, word), s)) = 1
        BY <1>3, <1>8, <2>1 DEF LayerOf
      <3>2. Len(words) = 0
        BY <1>6, <2>1
      <3> QED
        BY <1>4, <1>5, <3>1, <3>2
    <2>2. CASE reader.tool # "eval"
      <3>1. LayerOf(From(Append(argv, word), s))
              = 1 + Scan(reader.tool, Append(words, word)).count + (IF reader.tool \in Takers THEN 1 ELSE 0)
        BY <1>3, <1>7, <1>8, <2>2 DEF LayerOf, Layer
      <3>2. Scan(reader.tool, Append(words, word)).count \in Nat
        <4>1. Append(words, word) \in Seq(Words)
          BY <1>1, <1>5
        <4>2. \A base : Scan(base, Append(words, word)) \in [count : 0..Len(Append(words, word)), value : BOOLEAN, stop : BOOLEAN]
          BY <4>1, ScanType
        <4>3. Len(Append(words, word)) \in Nat
          BY <4>1
        <4> QED
          BY <4>2, <4>3
      <3> QED
        BY <1>4, <1>5, <1>9, <2>2, <3>1, <3>2
    <2> QED
      BY <2>1, <2>2
  <1>11. Base(argv[s]) \in Handled
         /\ (Base(argv[s]) # "eval" => Scan(Base(argv[s]), Tail(From(Append(argv, word), s))).stop)
    BY <1>3, <1>6, <1>7, <1>9
  <1>12. /\ Layered(Append(argv, word), P \cup {Len(argv) + 1}, Len(argv) + 1)
         /\ Around(Append(argv, word), P \cup {Len(argv) + 1}, Len(argv) + 1)
              = Around(argv, P, s) \cup FlagOf(Base(argv[s]))
         /\ Append(argv, word)[Len(argv) + 1] = word
         /\ Tail(From(Append(argv, word), Len(argv) + 1)) = <<>>
    BY <1>1, <1>3, <1>10, <1>11, NextLayer
  <1>13. PICK Q, t : Q = P \cup {Len(argv) + 1} /\ t = Len(argv) + 1
    OBVIOUS
  <1>14. /\ Layered(argv', Q, t) /\ Around(argv', Q, t) = reader.flags
         /\ argv'[t] = word /\ Tail(From(argv', t)) = <<>>
    BY <1>1, <1>3, <1>12, <1>13
  <1>15. real = None
    BY <1>6
  <1>18. \A p \in Q : argv'[p] \in Programs
    <2>1. P \in SUBSET (1..Len(argv))
      BY <1>3, <1>4, LayeredPlaces
    <2>2. \A p \in P : argv'[p] = argv[p] /\ argv[p] \in Programs
      BY <1>1, <2>1 DEF Written
    <2> QED
      BY <1>13, <1>14, <2>2
  <1>16. Written(Q, t)'
    BY <1>14, <1>15, <1>18, Opened DEF Written
  <1>17. Q \in SUBSET (1..Len(argv')) /\ t \in Q
    <2>1. Len(argv') \in Nat
      BY <1>1, <1>7
    <2> QED
      BY <1>14, <2>1, LayeredPlaces
  <1> QED
    BY <1>16, <1>17

LEMMA ArgumentWritten ==
  ASSUME TypeOK, NEW P, NEW s, Written(P, s), NEW word \in Args, Argument(word)
  PROVE  Written(P, s)'
  <1>1. word \in Words /\ argv' = Append(argv, word) /\ reader' = reader
    BY WordsHave DEF Argument, Write
  <1>0. PICK words : words = Tail(From(argv, s))
    OBVIOUS
  <1>2. PICK more : more = Append(words, word)
    OBVIOUS
  <1>3. reader.tool \in Others /\ real' = [real EXCEPT !.args = Append(@, word)]
    BY DEF Argument
  <1>4. ReadsOther(words)
    BY <1>0, <1>3 DEF Written
  <1>5. ReadsOther(more)'
    <2>1. real = [name |-> reader.tool, args |-> words, flags |-> reader.flags]
      BY <1>4 DEF ReadsOther
    <2>2. real' = [name |-> reader.tool, args |-> more, flags |-> reader.flags]
      BY <1>2, <1>3, <2>1
    <2> QED
      BY <1>1, <1>4, <2>2 DEF ReadsOther
  <1>6. reader.tool \notin Wrappers \cup Shells /\ reader.tool # "find"
    BY <1>3, ToolsAssumption
  <1> QED
    BY <1>0, <1>1, <1>2, <1>5, <1>6, OneMore

LEMMA ScriptWritten ==
  ASSUME TypeOK, NEW P, NEW s, Written(P, s), NEW word \in DOMAIN Scripts, Script(word)
  PROVE  Written(P, s)'
  <1>1. word \in Words /\ argv' = Append(argv, word) /\ reader' = reader
    BY WordsHave DEF Script, Write
  <1>0. PICK words : words = Tail(From(argv, s))
    OBVIOUS
  <1>2. words \in Seq(Words)
    BY <1>0, <1>1, SameProgram
  <1>3. PICK more : more = Append(words, word)
    OBVIOUS
  <1>4. /\ more \in Seq(Words) /\ Len(words) \in Nat /\ Len(more) = Len(words) + 1
        /\ more[Len(words) + 1] = word /\ \A i \in 1..Len(words) : more[i] = words[i]
        /\ Last(more) = word
    BY <1>1, <1>2, <1>3 DEF Last
  <1>5. reader.tool \in Shells /\ reader.script /\ ~reader.value /\ real = None
    BY DEF Script
  <1>6. /\ reader.operands = 0 /\ words # <<>>
        /\ \A i \in 1..Len(words) : words[i] = Short("c") <=> i = Len(words)
    BY <1>0, <1>5 DEF Written, ReadsShell
  <1>7. Len(more) > 1 /\ \A i \in 1..(Len(more) - 1) : more[i] = Short("c") <=> i = Len(more) - 1
    <2>1. Len(words) # 0
      BY <1>2, <1>6, EmptySeq
    <2>2. Len(more) - 1 = Len(words)
      BY <1>4
    <2>3. \A i \in 1..Len(words) : more[i] = Short("c") <=> i = Len(words)
      BY <1>4, <1>6
    <2>4. Len(more) > 1
      BY <1>4, <2>1
    <2>5. ASSUME NEW i \in 1..(Len(more) - 1) PROVE more[i] = Short("c") <=> i = Len(more) - 1
      BY <2>2, <2>3
    <2> QED
      BY <2>4, <2>5
  <1>8. /\ real' # None
        /\ real' = [name |-> Base(Head(Scripts[word])), args |-> Tail(Scripts[word]), flags |-> reader.flags]
    <2>1. real' = [name |-> Base(Head(Scripts[word])), args |-> Tail(Scripts[word]), flags |-> reader.flags]
      BY DEF Script
    <2>2. Scripts[word] \in Bodies /\ reader.flags \in SUBSET Flags
      BY DEF Bodies, TypeOK, Readers
    <2>3. real' \in Commands
      BY <2>1, <2>2, BodyType
    <2> QED
      BY <2>1, <2>3, NoneAssumption
  <1>11. EqualsAt(more) = {}
    <2>1. EqualsAt(words) = {}
      BY <1>0, <1>5 DEF Written, ReadsShell
    <2>2. Len(words) \in 1..Len(words) /\ words[Len(words)] = Short("c")
      BY <1>2, <1>6, EmptySeq
    <2> QED
      BY <1>1, <1>2, <1>3, <2>1, <2>2, NoEquals
  <1>9. ReadsShell(more)'
    BY <1>1, <1>4, <1>5, <1>6, <1>7, <1>8, <1>11 DEF ReadsShell
  <1>10. reader.tool \notin Wrappers \cup Others /\ reader.tool # "find"
    BY <1>5, ToolsAssumption
  <1> QED
    BY <1>0, <1>1, <1>3, <1>9, <1>10, OneMore

\* find behind its directories.
LEMMA FindCloses ==
  ASSUME TypeOK, NEW words \in Seq(Words), NEW word \in Words, NEW more, more = Append(words, word),
         ReadsFind(words), ~reader.open \/ Dashed(word),
         reader'.operands = reader.operands, reader'.value = reader.value, reader'.flags = reader.flags,
         reader'.roots = reader.roots, reader'.open = FALSE,
         real' = real \/ (real' = AsRm(reader.roots) /\ Removes(more))
  PROVE  ReadsFind(more)'
  <1>1. /\ more \in Seq(Words) /\ Len(words) \in Nat /\ Len(more) = Len(words) + 1
        /\ more[Len(words) + 1] = word /\ \A i \in 1..Len(words) : more[i] = words[i]
    OBVIOUS
  <1>2. PICK roots : roots = reader.roots
    OBVIOUS
  <1>3. roots \in Seq(Roots) /\ Len(roots) \in Nat
    BY <1>2 DEF TypeOK, Readers
  <1>4. /\ reader.operands = 0 /\ ~reader.value /\ Len(roots) <= Len(words)
        /\ \A i \in 1..Len(roots) : words[i] = roots[i]
    BY <1>2 DEF ReadsFind
  <1>5. Len(more) > Len(roots) /\ Dashed(more[Len(roots) + 1]) /\ \A i \in 1..Len(roots) : more[i] = roots[i]
    <2>1. \A i \in 1..Len(roots) : i \in 1..Len(words)
      BY <1>1, <1>3, <1>4
    <2>2. Dashed(more[Len(roots) + 1])
      <3>1. CASE reader.open
        BY <1>1, <1>2, <3>1 DEF ReadsFind
      <3>2. CASE ~reader.open
        <4>1. Len(words) > Len(roots) /\ Dashed(words[Len(roots) + 1])
          BY <1>2, <3>2 DEF ReadsFind
        <4>2. Len(roots) + 1 \in 1..Len(words)
          BY <1>1, <1>3, <4>1
        <4> QED
          BY <1>1, <4>1, <4>2
      <3> QED
        BY <3>1, <3>2
    <2> QED
      BY <1>1, <1>3, <1>4, <2>1, <2>2
  <1>6. Removes(words) => Removes(more)
    <2>1. ASSUME Short("delete") \in ToSet(words) PROVE Short("delete") \in ToSet(more)
      BY <1>1, <2>1 DEF ToSet
    <2>2. ASSUME NEW i \in 1..(Len(words) - 1), words[i] = Short("exec"), words[i + 1] = <<"/bin/", "rm">>
          PROVE  i \in 1..(Len(more) - 1) /\ more[i] = Short("exec") /\ more[i + 1] = <<"/bin/", "rm">>
      <3>1. i \in 1..Len(words) /\ i + 1 \in 1..Len(words) /\ i \in 1..(Len(more) - 1)
        BY <1>1
      <3> QED
        BY <1>1, <2>2, <3>1
    <2> QED
      BY <2>1, <2>2 DEF Removes
  <1>7. real' = None \/ (real' = AsRm(roots) /\ Removes(more))
    <2>1. real = None \/ (real = AsRm(roots) /\ Removes(words))
      BY <1>2 DEF ReadsFind
    <2> QED
      BY <1>2, <1>6, <2>1
  <1>8. AsRm(roots)' = AsRm(roots)
    BY DEF AsRm
  <1> QED
    BY <1>2, <1>4, <1>5, <1>7, <1>8 DEF ReadsFind

LEMMA SearchWritten ==
  ASSUME TypeOK, NEW P, NEW s, Written(P, s), NEW word \in Roots \cup Expression, Search(word), odd' = {}
  PROVE  Written(P, s)'
  <1>1. word \in Words /\ argv' = Append(argv, word) /\ reader \in Readers /\ reader.tool = "find"
    BY WordsHave DEF Search, Write, TypeOK
  <1>0. PICK words : words = Tail(From(argv, s))
    OBVIOUS
  <1>2. words \in Seq(Words) /\ ReadsFind(words)
    BY <1>0, <1>1, SameProgram DEF Written
  <1>3. PICK more : more = Append(words, word)
    OBVIOUS
  <1>4. /\ more \in Seq(Words) /\ Len(words) \in Nat /\ Len(more) = Len(words) + 1
        /\ more[Len(words) + 1] = word /\ \A i \in 1..Len(words) : more[i] = words[i]
    BY <1>1, <1>2, <1>3
  <1>5. /\ reader.roots \in Seq(Roots) /\ Len(reader.roots) \in Nat /\ reader.open \in BOOLEAN
    BY <1>1 DEF Readers
  <1>6. CASE word \in {Short("H"), Short("L")} /\ odd' = odd \cup {"front"}
    BY <1>6
  <1>7. CASE /\ word \in Roots /\ reader.open
             /\ reader' = [reader EXCEPT !.roots = Append(reader.roots, word)] /\ UNCHANGED real
    <2>1. PICK roots : roots = Append(reader.roots, word)
      OBVIOUS
    <2>2. /\ reader'.tool = reader.tool /\ reader'.flags = reader.flags /\ reader'.open = reader.open
          /\ reader'.value = reader.value /\ reader'.operands = reader.operands /\ reader'.roots = roots
      BY <1>1, <1>7, <2>1 DEF Readers
    <2>3. /\ Len(roots) = Len(reader.roots) + 1 /\ roots[Len(reader.roots) + 1] = word
          /\ \A i \in 1..Len(reader.roots) : roots[i] = reader.roots[i]
      BY <1>5, <1>7, <2>1, AppendProperties
    <2>4. /\ real = None /\ Len(words) = Len(reader.roots) /\ reader.operands = 0 /\ ~reader.value
          /\ \A i \in 1..Len(words) : words[i] = reader.roots[i]
      BY <1>2, <1>7 DEF ReadsFind
    <2>5. Len(more) = Len(roots) /\ \A i \in 1..Len(roots) : more[i] = roots[i]
      BY <1>4, <2>3, <2>4
    <2>6. Len(roots) <= Len(more)
      BY <1>4, <2>5
    <2>7. ReadsFind(more)'
      BY <1>7, <2>2, <2>4, <2>5, <2>6 DEF ReadsFind
    <2> QED
      BY <1>0, <1>1, <1>3, <2>2, <2>7, OneMore, ToolsAssumption
  <1>8. CASE /\ word \in {Short("print"), Short("delete"), Short("exec")}
             /\ reader' = [reader EXCEPT !.open = FALSE]
             /\ real' = real \/ (word = Short("delete") /\ real' = AsRm(reader.roots))
    <2>1. /\ reader'.tool = reader.tool /\ reader'.flags = reader.flags /\ reader'.open = FALSE
          /\ reader'.value = reader.value /\ reader'.operands = reader.operands /\ reader'.roots = reader.roots
      BY <1>1, <1>8 DEF Readers
    <2>2. Dashed(word)
      BY <1>8, OptionsAreDashed
    <2>3. word = Short("delete") => Removes(more)
      <3>1. word \in ToSet(more)
        BY <1>4 DEF ToSet
      <3> QED
        BY <3>1 DEF Removes
    <2>4. real' = real \/ (real' = AsRm(reader.roots) /\ Removes(more))
      BY <1>8, <2>3
    <2>5. ReadsFind(more)'
      BY <1>1, <1>2, <1>3, <2>1, <2>2, <2>4, FindCloses
    <2> QED
      BY <1>0, <1>1, <1>3, <2>1, <2>5, OneMore, ToolsAssumption
  <1>9. CASE /\ word = <<"/bin/", "rm">> /\ Last(argv) = Short("exec")
             /\ real' = AsRm(reader.roots) /\ reader' = reader
    <2>1. argv \in Seq(Words) /\ s \in 1..Len(argv) /\ Base(argv[s]) = "find"
      <3>1. argv \in Seq(Words) /\ Len(argv) \in Nat
        BY DEF TypeOK
      <3>2. Layered(argv, P, s) /\ Base(argv[s]) = "find"
        BY <1>1 DEF Written
      <3> QED
        BY <3>1, <3>2, LayeredPlaces
    <2>2. Len(words) = Len(argv) - s
      BY <1>0, <2>1, FromWords
    <2>3. words # <<>>
      <3> SUFFICES ASSUME words = <<>> PROVE FALSE
        OBVIOUS
      <3>1. s = Len(argv)
        BY <2>1, <2>2
      <3>2. argv[s] = Short("exec")
        BY <1>9, <3>1 DEF Last
      <3>3. Base(Short("exec")) = "exec"
        BY DEF Base, Last, Short
      <3> QED
        BY <2>1, <3>2, <3>3
    <2>4. Last(words) = Short("exec")
      BY <1>0, <1>9, <2>1, <2>3, FromLast
    <2>5. Len(words) # 0 /\ words[Len(words)] = Short("exec")
      BY <1>2, <2>3, <2>4, EmptySeq DEF Last
    <2>6. ~reader.open
      <3> SUFFICES ASSUME reader.open PROVE FALSE
        OBVIOUS
      <3>1. Len(words) = Len(reader.roots) /\ \A i \in 1..Len(words) : words[i] = reader.roots[i]
        BY <1>2 DEF ReadsFind
      <3>2. words[Len(words)] \in Roots
        BY <1>4, <1>5, <2>5, <3>1
      <3> QED
        BY <2>5, <3>2, BodiesAssumption, OptionsAreDashed
    <2>7. Removes(more)
      <3>1. Len(words) \in 1..(Len(more) - 1) /\ Len(words) \in 1..Len(words)
        BY <1>4, <2>5
      <3> QED
        BY <1>4, <1>9, <2>5, <3>1 DEF Removes
    <2>8. reader'.open = FALSE
      BY <1>5, <1>9, <2>6
    <2>9. ReadsFind(more)'
      BY <1>1, <1>2, <1>3, <1>9, <2>6, <2>7, <2>8, FindCloses
    <2> QED
      BY <1>0, <1>1, <1>3, <1>9, <2>9, OneMore, ToolsAssumption
  <1> QED
    BY <1>6, <1>7, <1>8, <1>9 DEF Search

\* The history holds while words are written.
LEMMA WriteKeeps ==
  ASSUME TypeOK, UnwrapInv, Next, phase = "write", ~Begin
  PROVE  UnwrapInv'
  <1>1. argv \in Seq(Words) /\ Len(argv) \in Nat /\ context = {} /\ executed = <<>>
    BY DEF TypeOK, UnwrapInv
  <1>2. PICK word \in Words : Write(word) /\ odd \subseteq odd' /\
          \/ word \in OptionsOf(reader.tool) /\ Option(word)
          \/ word \in Values /\ (Value(word) \/ Own(word))
          \/ Terminator \/ Assignment
          \/ word \in Programs /\ Program(word)
          \/ word \in Args /\ Argument(word)
          \/ word \in DOMAIN Scripts /\ Script(word)
          \/ odd' # {}
          \/ word \in Roots \cup Expression /\ Search(word)
    <2>1. ASSUME NEW word \in OptionsOf(reader.tool), Option(word)
          PROVE  word \in Words /\ Write(word) /\ odd \subseteq odd'
      BY <2>1, WordsHave DEF Option
    <2>2. ASSUME NEW word \in Values, Value(word) \/ Own(word)
          PROVE  word \in Words /\ Write(word) /\ odd \subseteq odd'
      BY <2>2, WordsHave DEF Value, Own
    <2>3. Terminator => <<"--">> \in Words /\ Write(<<"--">>) /\ odd \subseteq odd'
      BY WordsHave DEF Terminator
    <2>4. Assignment => <<"A", "=", "b">> \in Words /\ Write(<<"A", "=", "b">>) /\ odd \subseteq odd'
      BY WordsHave DEF Assignment
    <2>5. ASSUME NEW word \in Programs, Program(word)
          PROVE  word \in Words /\ Write(word) /\ odd \subseteq odd'
      BY <2>5, WordsHave DEF Program
    <2>6. ASSUME NEW word \in Args, Argument(word)
          PROVE  word \in Words /\ Write(word) /\ odd \subseteq odd'
      BY <2>6, WordsHave DEF Argument
    <2>7. ASSUME NEW word \in DOMAIN Scripts, Script(word)
          PROVE  word \in Words /\ Write(word) /\ odd \subseteq odd'
      BY <2>7, WordsHave DEF Script
    <2>8. ASSUME NEW word \in Roots \cup Expression, Search(word)
          PROVE  word \in Words /\ Write(word) /\ odd \subseteq odd'
      BY <2>8, WordsHave DEF Search
    <2>9. ~(Strip \/ Bare \/ EnvSplit \/ Shell \/ ShellEquals \/ Find \/ Actual \/ Finished)
      BY DEF Strip, Bare, EnvSplit, Shell, ShellEquals, Find, Actual, Finished
    <2>10. ASSUME NEW word, Split(word) \/ (word \in OptionsOf(reader.tool) \cup Broken /\ Refused(word))
           PROVE  word \in Words /\ Write(word) /\ odd \subseteq odd' /\ odd' # {}
      BY <2>10, SplitType DEF Split, Refused
    <2> QED
      BY <2>1, <2>2, <2>3, <2>4, <2>5, <2>6, <2>7, <2>8, <2>9, <2>10 DEF Next
  <1>3. /\ argv' = Append(argv, word) /\ Len(argv') = Len(argv) + 1
        /\ phase' = "write" /\ context' = {} /\ executed' = <<>>
    <2>1. argv' = Append(argv, word) /\ UNCHANGED <<phase, context, executed>>
      BY <1>2 DEF Write
    <2>2. Len(Append(argv, word)) = Len(argv) + 1
      BY <1>1, AppendProperties
    <2> QED
      BY <1>1, <2>1, <2>2
  <1>4. ASSUME odd' = {} PROVE \E P \in SUBSET (1..Len(argv')) : \E s \in P : Written(P, s)'
    <2>1. odd = {}
      BY <1>2, <1>4
    <2>2. CASE NothingRead
      <3>1. /\ reader.tool = "start" /\ ~reader.value /\ reader.operands = 0
            /\ "start" \notin Wrappers \cup Shells \cup Others
        BY <2>2, ToolsAssumption DEF NothingRead, Reading
      <3>2. word \in Programs /\ Program(word)
        BY <1>2, <1>4, <3>1
           DEF OptionsOf, Value, Own, Terminator, OptionsOpen, Assignment, Argument, Script, Search
      <3>3. Written({1}, 1)'
        BY <1>4, <2>2, <3>2, FirstWritten
      <3>4. {1} \in SUBSET (1..Len(argv')) /\ 1 \in {1}
        BY <1>1, <1>3
      <3> QED
        BY <3>3, <3>4
    <2>3. ASSUME NEW P \in SUBSET (1..Len(argv)), NEW s \in P, Written(P, s)
          PROVE  \E Q \in SUBSET (1..Len(argv')) : \E t \in Q : Written(Q, t)'
      <3>1. CASE word \in Programs /\ Program(word)
        BY <1>4, <2>3, <3>1, ProgramWritten
      <3>2. CASE ~(word \in Programs /\ Program(word))
        <4>1. Written(P, s)'
          <5>1. word \in OptionsOf(reader.tool) /\ Option(word) => Written(P, s)'
            BY <1>4, <2>3, OptionWritten
          <5>2. word \in Values /\ Value(word) => Written(P, s)'
            BY <2>3, ValueWritten
          <5>3. word \in Values /\ Own(word) => Written(P, s)'
            BY <2>3, OwnWritten
          <5>4. Terminator \/ Assignment => Written(P, s)'
            BY <1>4, <2>3, TerminatorWritten, AssignmentWritten
          <5>5. word \in Args /\ Argument(word) => Written(P, s)'
            BY <2>3, ArgumentWritten
          <5>6. word \in DOMAIN Scripts /\ Script(word) => Written(P, s)'
            BY <2>3, ScriptWritten
          <5>7. word \in Roots \cup Expression /\ Search(word) => Written(P, s)'
            BY <1>4, <2>3, SearchWritten
          <5> QED
            BY <1>2, <1>4, <3>2, <5>1, <5>2, <5>3, <5>4, <5>5, <5>6, <5>7
        <4>2. P \in SUBSET (1..Len(argv'))
          BY <1>1, <1>3
        <4> QED
          BY <4>1, <4>2
      <3> QED
        BY <3>1, <3>2
    <2> QED
      BY <2>1, <2>2, <2>3 DEF UnwrapInv
  <1>5. \A P : Turns(P)'
    BY <1>3 DEF Turns
  <1> QED
    BY <1>3, <1>4, <1>5 DEF UnwrapInv

-----------------------------------------------------------------------------
(* The loop takes the layers off.                                          *)

LEMMA FromFrom ==
  ASSUME NEW W, NEW words \in Seq(W), NEW p \in 1..Len(words), NEW n \in Nat, p + n <= Len(words)
  PROVE  SubSeq(From(words, p), n + 1, Len(From(words, p))) = From(words, p + n)
  <1>1. PICK from : from = From(words, p)
    OBVIOUS
  <1>2. /\ from \in Seq(W) /\ Len(from) = Len(words) - p + 1
        /\ \A i \in 1..(Len(words) - p + 1) : from[i] = words[p + i - 1]
    BY <1>1, FromWords
  <1>3. Len(words) \in Nat /\ p + n \in 1..Len(words) /\ Len(from) \in Nat /\ n + 1 <= Len(from)
    BY <1>2
  <1>4. PICK last : last = SubSeq(from, n + 1, Len(from))
    OBVIOUS
  <1>5. /\ last \in Seq(W) /\ Len(last) = Len(from) - n
        /\ \A i \in 1..(Len(from) - n) : last[i] = from[n + i]
    <2>1. \A i \in (n + 1)..Len(from) : from[i] \in W
      BY <1>2, <1>3
    <2>2. n + 1 \in 1..(Len(from) + 1) /\ Len(from) - (n + 1) + 1 = Len(from) - n
      BY <1>3
    <2>3. /\ last \in Seq(W) /\ Len(last) = Len(from) - (n + 1) + 1
          /\ \A i \in 1..(Len(from) - (n + 1) + 1) : last[i] = from[n + 1 + i - 1]
      BY <1>2, <1>3, <1>4, <2>1, <2>2, SubSeqProperties
    <2>4. \A i \in 1..(Len(from) - n) : n + 1 + i - 1 = n + i
      BY <1>3
    <2> QED
      BY <2>2, <2>3, <2>4
  <1>6. /\ From(words, p + n) \in Seq(W) /\ Len(From(words, p + n)) = Len(words) - (p + n) + 1
        /\ \A i \in 1..(Len(words) - (p + n) + 1) : From(words, p + n)[i] = words[(p + n) + i - 1]
    BY <1>3, FromWords
  <1>7. Len(last) = Len(From(words, p + n))
    BY <1>2, <1>3, <1>5, <1>6
  <1>8. ASSUME NEW i \in 1..Len(last) PROVE last[i] = From(words, p + n)[i]
    <2>1. /\ i \in 1..(Len(from) - n) /\ n + i \in 1..(Len(words) - p + 1)
          /\ i \in 1..(Len(words) - (p + n) + 1) /\ p + (n + i) - 1 = (p + n) + i - 1
      BY <1>2, <1>3, <1>5
    <2> QED
      BY <1>2, <1>5, <1>6, <2>1
  <1>9. last = From(words, p + n)
    BY <1>5, <1>6, <1>7, <1>8, SeqEqual
  <1> QED
    BY <1>1, <1>4, <1>9

\* A turn leaves alone what was written.
LEMMA SameWritten ==
  ASSUME UNCHANGED <<argv, reader, real>>, NEW P, NEW s, Written(P, s)
  PROVE  Written(P, s)'
  BY DEF Written, ReadsWrapper, InOptions, BehindOperand, ReadsShell, ReadsOther, ReadsFind, AsRm

\* At a layer that is not the last there is a wrapper and something behind it.
LEMMA AtWrapper ==
  ASSUME TypeOK, NEW P, NEW s, Written(P, s), NEW p \in P, rest = From(argv, p)
  PROVE  /\ argv \in Seq(Words) /\ P \in SUBSET (1..Len(argv)) /\ Head(rest) = argv[p]
         /\ Len(rest) = Len(argv) - p + 1 /\ rest # <<>>
         /\ p # s => Complete(argv, P, p) /\ Base(Head(rest)) \in Handled /\ LayerOf(rest) < Len(rest)
         /\ p = s => Base(Head(rest)) = reader.tool /\ reader.flags = Around(argv, P, p) \cup FlagOf(reader.tool)
  <1>1. argv \in Seq(Words) /\ Len(argv) \in Nat /\ Layered(argv, P, s)
    BY DEF TypeOK, Written
  <1>2. P \in SUBSET (1..Len(argv))
    BY <1>1, LayeredPlaces
  <1>3. p \in 1..Len(argv)
    BY <1>2
  <1>4. Head(rest) = argv[p] /\ Len(rest) = Len(argv) - p + 1 /\ rest # <<>> /\ rest \in Seq(Words)
    BY <1>1, <1>3, FromWords
  <1>5. ASSUME p # s
        PROVE  Complete(argv, P, p) /\ Base(Head(rest)) \in Handled /\ LayerOf(rest) < Len(rest)
    <2>1. Complete(argv, P, p)
      BY <1>1, <1>5 DEF Layered
    <2>2. Base(argv[p]) \in Handled /\ p + LayerOf(rest) \in P
      <3>1. Base(argv[p]) \in Handled
        BY <2>1 DEF Complete
      <3>2. p + LayerOf(From(argv, p)) \in P
        BY <2>1, Zenon DEF Complete
      <3> QED
        BY <3>1, <3>2
    <2>3. p + LayerOf(rest) <= Len(argv)
      <3>1. \A q \in P : q <= Len(argv)
        BY <1>1, <1>2
      <3> QED
        BY <2>2, <3>1
    <2>4. LayerOf(rest) \in Nat
      BY <1>4, LayerType
    <2>5. LayerOf(rest) < Len(rest)
      BY <1>1, <1>3, <1>4, <2>3, <2>4
    <2> QED
      BY <1>4, <2>1, <2>2, <2>5
  <1>6. p = s => Base(Head(rest)) = reader.tool /\ reader.flags = Around(argv, P, p) \cup FlagOf(reader.tool)
    BY <1>4 DEF Written
  <1> QED
    BY <1>1, <1>2, <1>4, <1>5, <1>6

\* A script that is left to run is no wrapper.
LEMMA ScriptHead ==
  ASSUME InScript
  PROVE  Base(Head(rest)) \in Others /\ Base(Head(rest)) \notin Handled \cup Shells \cup {"find"}
  <1>1. Base(Head(rest)) \in Others
    BY BodiesAssumption DEF InScript
  <1> QED
    BY <1>1, ToolsAssumption DEF Handled

LEMMA BeginTurns ==
  ASSUME TypeOK, NEW P, NEW s, Written(P, s), context = {}, Begin
  PROVE  Turns(P)'
  <1>1. argv \in Seq(Words) /\ argv # <<>> /\ Len(argv) \in Nat /\ Len(argv) > 0
    <2>1. argv \in Seq(Words) /\ argv # <<>>
      BY DEF TypeOK, Begin
    <2> QED
      BY <2>1, EmptySeq
  <1>2. P \in SUBSET (1..Len(argv)) /\ 1 \in P
    BY <1>1, LayeredPlaces DEF Written, Layered
  <1>3. From(argv, 1) = argv
    <2>1. 1 \in 1..Len(argv)
      BY <1>1
    <2>2. /\ From(argv, 1) \in Seq(Words) /\ Len(From(argv, 1)) = Len(argv) - 1 + 1
          /\ \A i \in 1..(Len(argv) - 1 + 1) : From(argv, 1)[i] = argv[1 + i - 1]
      BY <1>1, <2>1, FromWords
    <2>3. Len(From(argv, 1)) = Len(argv)
      BY <1>1, <2>2
    <2>4. ASSUME NEW i \in 1..Len(From(argv, 1)) PROVE From(argv, 1)[i] = argv[i]
      <3>1. i \in 1..(Len(argv) - 1 + 1) /\ 1 + i - 1 = i
        BY <1>1, <2>3
      <3> QED
        BY <2>2, <3>1
    <2> QED
      BY <1>1, <2>2, <2>3, <2>4, SeqEqual
  <1>4. Around(argv, P, 1) = {}
    <2>1. \A q \in P : ~(q < 1)
      BY <1>1, <1>2
    <2> QED
      BY <2>1 DEF Around
  <1>5. rest' = argv /\ context' = {} /\ argv' = argv /\ phase' = "strip"
    BY DEF Begin
  <1>6. AtLayer(P)'
    BY <1>2, <1>3, <1>4, <1>5 DEF AtLayer
  <1> QED
    BY <1>5, <1>6 DEF Turns

LEMMA StripTurns ==
  ASSUME TypeOK, NEW P, NEW s, Written(P, s), Turns(P), Strip
  PROVE  Turns(P)'
  <1>1. /\ phase = "strip" /\ phase' = "strip" /\ real' = real /\ argv' = argv
        /\ Base(Head(rest)) \in Handled
        /\ rest' = SubSeq(rest, LayerOf(rest) + 1, Len(rest))
        /\ context' = context \cup FlagOf(Base(Head(rest)))
    <2>1. ASSUME NEW base \in Handled PROVE ContextOf(base) = FlagOf(base)
      BY ToolsAssumption DEF Handled, ContextOf, FlagOf
    <2> QED
      BY <2>1 DEF Strip
  <1> SUFFICES ASSUME real # None PROVE AtLayer(P)'
    BY <1>1 DEF Turns
  <1>2. PICK p \in P : rest = From(argv, p) /\ context = Around(argv, P, p)
    BY <1>1, ScriptHead DEF Turns, AtLayer
  <1>3. /\ argv \in Seq(Words) /\ P \in SUBSET (1..Len(argv)) /\ Head(rest) = argv[p]
        /\ p # s => Complete(argv, P, p)
        /\ p = s => Base(Head(rest)) = reader.tool
    BY <1>2, AtWrapper
  <1>4. p # s
    <2>1. reader.tool \in Wrappers => real = None
      BY DEF Written, ReadsWrapper
    <2> QED
      BY <1>1, <1>3, <2>1 DEF Handled
  <1>5. PICK n : n = LayerOf(rest)
    OBVIOUS
  <1>6. n \in Nat /\ p \in 1..Len(argv) /\ Len(argv) \in Nat
    <2>1. p \in 1..Len(argv) /\ Len(argv) \in Nat
      BY <1>3
    <2>2. rest \in Seq(Words) /\ rest # <<>>
      BY <1>2, <1>3, <2>1, FromWords
    <2> QED
      BY <1>5, <2>1, <2>2, LayerType
  <1>7. p + n \in P /\ p < p + n /\ \A q \in P : q <= p \/ p + n <= q
    <2>1. LayerOf(From(argv, p)) = n
      BY <1>2, <1>5
    <2> QED
      BY <1>3, <1>4, <2>1 DEF Complete
  <1>8. rest' = From(argv, p + n)
    <2>1. p + n <= Len(argv)
      <3>1. \A q \in P : q <= Len(argv)
        BY <1>3, <1>6
      <3> QED
        BY <1>7, <3>1
    <2>2. SubSeq(From(argv, p), n + 1, Len(From(argv, p))) = From(argv, p + n)
      BY <1>3, <1>6, <2>1, FromFrom
    <2> QED
      BY <1>1, <1>2, <1>5, <2>2
  <1>9. Around(argv, P, p + n) = Around(argv, P, p) \cup FlagOf(Base(argv[p]))
    <2>1. P \in SUBSET Nat /\ p + n \in Nat
      BY <1>3, <1>6
    <2> QED
      BY <1>7, <2>1, AroundNext
  <1> QED
    BY <1>1, <1>2, <1>3, <1>7, <1>8, <1>9 DEF AtLayer

LEMMA BareTurns ==
  ASSUME TypeOK, NEW P, NEW s, Written(P, s), Turns(P), Bare
  PROVE  Turns(P)'
  <1>1. /\ phase = "strip" /\ phase' = "done" /\ real' = real
        /\ Base(Head(rest)) \in Handled /\ LayerOf(rest) >= Len(rest)
    BY DEF Bare, Record
  <1>2. real = None
    <2> SUFFICES ASSUME real # None PROVE FALSE
      OBVIOUS
    <2>1. PICK p \in P : rest = From(argv, p) /\ context = Around(argv, P, p)
      BY <1>1, ScriptHead DEF Turns, AtLayer
    <2>2. /\ p # s => LayerOf(rest) < Len(rest)
          /\ p = s => Base(Head(rest)) = reader.tool
      BY <2>1, AtWrapper
    <2>3. reader.tool \in Wrappers => real = None
      BY DEF Written, ReadsWrapper
    <2>4. LayerOf(rest) < Len(rest)
      BY <1>1, <2>2, <2>3 DEF Handled
    <2>5. LayerOf(rest) \in Nat /\ Len(rest) \in Nat
      <3>1. rest \in Seq(Words) /\ rest # <<>>
        BY DEF TypeOK, Bare
      <3> QED
        BY <3>1, LayerType
    <2> QED
      BY <1>1, <2>4, <2>5
  <1> QED
    BY <1>1, <1>2 DEF Turns

\* The last layer is the one that reads.
LEMMA AtReader ==
  ASSUME TypeOK, NEW P, NEW s, Written(P, s), AtLayer(P), Base(Head(rest)) \notin Handled
  PROVE  /\ rest = From(argv, s) /\ s \in 1..Len(argv) /\ argv \in Seq(Words)
         /\ Base(Head(rest)) = reader.tool /\ Head(rest) = argv[s]
         /\ reader.flags = context \cup FlagOf(reader.tool)
  <1>1. PICK p \in P : rest = From(argv, p) /\ context = Around(argv, P, p)
    BY DEF AtLayer
  <1>2. /\ argv \in Seq(Words) /\ P \in SUBSET (1..Len(argv)) /\ Head(rest) = argv[p]
        /\ p # s => Base(Head(rest)) \in Handled
        /\ p = s => Base(Head(rest)) = reader.tool /\ reader.flags = Around(argv, P, p) \cup FlagOf(reader.tool)
    BY <1>1, AtWrapper
  <1> QED
    BY <1>1, <1>2

\* Where a program is named there is no -S.
LEMMA EnvSplitTurns ==
  ASSUME TypeOK, NEW P, NEW s, Written(P, s), Turns(P), EnvSplit
  PROVE  Turns(P)'
  <1>1. /\ phase = "strip" /\ phase' = "done" /\ real' = real /\ rest # <<>>
        /\ Base(Head(rest)) = "env" /\ Layer(rest) < Len(rest)
        /\ IsPrefix(Short("S"), rest[Layer(rest) + 1])
    BY DEF EnvSplit, SplitsAt, Record
  <1> SUFFICES ASSUME real # None PROVE FALSE
    BY <1>1 DEF Turns
  <1>2. "env" \in Wrappers /\ "env" \notin Others
    BY ToolsAssumption
  <1>3. PICK p \in P : rest = From(argv, p) /\ context = Around(argv, P, p)
    BY <1>1, <1>2, ScriptHead DEF Turns, AtLayer
  <1>4. /\ argv \in Seq(Words) /\ P \in SUBSET (1..Len(argv)) /\ Len(rest) = Len(argv) - p + 1
        /\ p # s => Complete(argv, P, p)
        /\ p = s => Base(Head(rest)) = reader.tool
    BY <1>3, AtWrapper
  <1>5. p # s
    <2>1. reader.tool \in Wrappers => real = None
      BY DEF Written, ReadsWrapper
    <2> QED
      BY <1>1, <1>2, <1>4, <2>1
  <1>6. PICK n : n = LayerOf(rest)
    OBVIOUS
  <1>7. n = Layer(rest)
    BY <1>1, <1>6 DEF LayerOf
  <1>8. n \in Nat /\ n >= 1 /\ p \in 1..Len(argv) /\ Len(argv) \in Nat
    <2>1. p \in 1..Len(argv) /\ Len(argv) \in Nat
      BY <1>4
    <2>2. rest \in Seq(Words)
      BY DEF TypeOK
    <2> QED
      BY <1>1, <1>6, <2>1, <2>2, LayerType
  <1>9. p + n \in P
    <2>1. LayerOf(From(argv, p)) = n
      BY <1>3, <1>6
    <2> QED
      BY <1>4, <1>5, <2>1 DEF Complete
  <1>10. rest[n + 1] = argv[p + n]
    <2>1. n + 1 \in 1..(Len(argv) - p + 1) /\ p + (n + 1) - 1 = p + n
      BY <1>1, <1>4, <1>7, <1>8
    <2>2. \A i \in 1..(Len(argv) - p + 1) : From(argv, p)[i] = argv[p + i - 1]
      BY <1>4, <1>8, FromWords
    <2> QED
      BY <1>3, <2>1, <2>2
  <1>11. argv[p + n] \in Programs
    BY <1>9 DEF Written
  <1>12. ~Dashed(argv[p + n])
    BY <1>11, OperandsAssumption
  <1> QED
    BY <1>1, <1>7, <1>10, <1>12, EquatedIsDashed

LEMMA ShellEqualsTurns ==
  ASSUME TypeOK, NEW P, NEW s, Written(P, s), Turns(P), ShellEquals
  PROVE  Turns(P)' /\ real' = real
  <1>1. /\ phase = "strip" /\ rest # <<>> /\ Base(Head(rest)) \in Shells /\ real' = real
        /\ EqualsAt(Tail(rest)) # {} /\ phase' \in {"strip", "done"}
    BY DEF ShellEquals, Enter, Record
  <1>2. Base(Head(rest)) \notin Handled \cup Others
    BY <1>1, ToolsAssumption DEF Handled
  <1>3. real = None
    <2> SUFFICES ASSUME real # None PROVE FALSE
      OBVIOUS
    <2>1. AtLayer(P)
      BY <1>1, <1>2, ScriptHead DEF Turns
    <2>2. rest = From(argv, s) /\ reader.tool \in Shells
      BY <1>1, <1>2, <2>1, AtReader
    <2>3. EqualsAt(Tail(rest)) = {}
      BY <2>2 DEF Written, ReadsShell
    <2> QED
      BY <1>1, <2>3
  <1> QED
    BY <1>1, <1>3 DEF Turns

LEMMA ShellTurns ==
  ASSUME TypeOK, NEW P, NEW s, Written(P, s), Turns(P), Shell
  PROVE  Turns(P)'
  <1>1. PICK at : at = PlaceOfC(Front(rest))
    OBVIOUS
  <1>2. /\ phase = "strip" /\ real' = real /\ argv' = argv /\ Base(Head(rest)) \in Shells /\ rest # <<>>
        /\ IF at = 0 \/ rest[at + 1] \in Broken THEN phase' = "done"
           ELSE /\ phase' = "strip" /\ context' = context \cup {"eval"}
                /\ rest' = IF rest[at + 1] \in DOMAIN Scripts THEN Scripts[rest[at + 1]] ELSE <<rest[at + 1]>>
    BY <1>1 DEF Shell, Enter, PlaceOfC, Record
  <1> SUFFICES ASSUME real # None PROVE InScript' /\ phase' = "strip"
    BY <1>2 DEF Turns
  <1>3. AtLayer(P) /\ Base(Head(rest)) \notin Handled
    <2>1. Base(Head(rest)) \notin Handled
      BY <1>2, ToolsAssumption DEF Handled
    <2> QED
      BY <1>2, <2>1, ScriptHead DEF Turns
  <1>4. /\ rest = From(argv, s) /\ s \in 1..Len(argv) /\ argv \in Seq(Words)
        /\ reader.tool \in Shells /\ Head(rest) = argv[s]
        /\ reader.flags = context \cup FlagOf(reader.tool)
    BY <1>2, <1>3, AtReader
  <1>5. PICK words : words = Tail(rest)
    OBVIOUS
  <1>6. ReadsShell(words)
    BY <1>4, <1>5 DEF Written
  <1>7. /\ Len(words) > 1 /\ \A i \in 1..(Len(words) - 1) : words[i] = Short("c") <=> i = Len(words) - 1
        /\ Last(words) \in DOMAIN Scripts
        /\ real = [name |-> Base(Head(Scripts[Last(words)])), args |-> Tail(Scripts[Last(words)]),
                   flags |-> reader.flags]
    BY <1>6 DEF ReadsShell
  <1>8. /\ rest \in Seq(Words) /\ words \in Seq(Words) /\ Len(words) \in Nat /\ Len(rest) = Len(words) + 1
        /\ rest[1] = argv[s]
        /\ \A i \in 1..Len(words) : words[i] = rest[i + 1]
    <2>1. rest \in Seq(Words)
      BY DEF TypeOK
    <2> QED
      BY <1>2, <1>4, <1>5, <2>1, HeadTailProperties
  <1>9. rest[1] # Short("c")
    <2>1. argv[s] \in Programs
      BY DEF Written, Layered
    <2> QED
      BY <1>8, <2>1, OperandsAssumption, OptionsAreDashed
  <1>10. PICK front : front = Front(rest)
    OBVIOUS
  <1>11. Len(front) = Len(words) /\ \A i \in 1..Len(words) : front[i] = rest[i]
    <2>1. /\ Len(front) = Len(rest) - 1 /\ \A i \in 1..(Len(rest) - 1) : front[i] = rest[i]
      BY <1>2, <1>8, <1>10, FrontWords
    <2>2. Len(rest) - 1 = Len(words)
      BY <1>8
    <2> QED
      BY <2>1, <2>2
  <1>12. at = Len(words)
    <2>1. /\ at \in 0..Len(front)
          /\ at # 0 => front[at] = Short("c") /\ \A i \in 1..Len(front) : front[i] = Short("c") => at <= i
          /\ at = 0 => \A i \in 1..Len(front) : front[i] # Short("c")
      BY <1>1, <1>8, <1>10, <1>11, FirstC
    <2>2. front[Len(words)] = Short("c")
      <3>1. Len(words) - 1 \in 1..(Len(words) - 1) /\ Len(words) - 1 \in 1..Len(words)
            /\ (Len(words) - 1) + 1 = Len(words) /\ Len(words) \in 1..Len(words)
        BY <1>7, <1>8
      <3> QED
        BY <1>7, <1>8, <1>11, <3>1
    <2>3. at # 0 /\ at <= Len(words)
      BY <1>7, <1>8, <1>11, <2>1, <2>2
    <2>4. ASSUME at < Len(words) PROVE FALSE
      <3>1. at \in 1..Len(words) /\ rest[at] = Short("c")
        BY <1>8, <1>11, <2>1, <2>3
      <3>2. at # 1
        BY <1>9, <3>1
      <3>3. at - 1 \in 1..(Len(words) - 1) /\ at - 1 \in 1..Len(words) /\ (at - 1) + 1 = at
            /\ at - 1 # Len(words) - 1
        BY <1>8, <2>4, <3>1, <3>2
      <3>4. words[at - 1] = Short("c")
        BY <1>8, <3>1, <3>3
      <3> QED
        BY <1>7, <3>3, <3>4
    <2> QED
      BY <1>8, <1>11, <2>1, <2>3, <2>4
  <1>13. at # 0 /\ rest[at + 1] = Last(words)
    BY <1>7, <1>8, <1>12 DEF Last
  <1>14. /\ phase' = "strip" /\ rest' = Scripts[Last(words)] /\ context' = context \cup {"eval"}
    BY <1>2, <1>7, <1>13, BodiesAssumption
  <1>15. FlagOf(reader.tool) = {"eval"}
    BY <1>4, ToolsAssumption DEF FlagOf
  <1>16. Scripts[Last(words)] \in Bodies
    BY <1>7 DEF Bodies
  <1> QED
    BY <1>2, <1>4, <1>7, <1>14, <1>15, <1>16 DEF InScript

LEMMA FindTurns ==
  ASSUME TypeOK, NEW P, NEW s, Written(P, s), Turns(P), Find
  PROVE  Turns(P)'
  <1>1. PICK words : words = Tail(rest)
    OBVIOUS
  <1>2. PICK dash : dash = PlaceOfDash(words)
    OBVIOUS
  <1>3. PICK front : front = SubSeq(words, 1, dash - 1)
    OBVIOUS
  <1> DEFINE executes == \E i \in 1..(Len(words) - 1) :
                           words[i] = Short("exec") /\ Base(words[i + 1]) \in {"rm", "unlink", "rmdir", "shred"}
             Removal(roots) == [name |-> "rm", flags |-> context,
                                args |-> <<<<"-", "rf">>, <<"--">>>> \o (IF roots = <<>> THEN <<<<".">>>> ELSE roots)]
  <1>4. /\ phase = "strip" /\ phase' = "done" /\ real' = real /\ Base(Head(rest)) = "find" /\ rest # <<>>
        /\ (dash # 0 /\ (HasArg(words, {Short("delete")}) \/ executes)) => Record(Removal(front))
    BY <1>1, <1>2, <1>3 DEF Find, PlaceOfDash, Record
  <1> SUFFICES ASSUME real # None PROVE Recorded'
    BY <1>4 DEF Turns
  <1>5. AtLayer(P) /\ Base(Head(rest)) \notin Handled
    <2>1. Base(Head(rest)) \notin Handled
      BY <1>4, ToolsAssumption DEF Handled
    <2> QED
      BY <1>4, <2>1, ScriptHead DEF Turns
  <1>6. /\ rest = From(argv, s) /\ reader.tool = "find" /\ reader.flags = context \cup FlagOf("find")
    BY <1>4, <1>5, AtReader
  <1>7. words \in Seq(Words) /\ Len(words) \in Nat
    <2>1. rest \in Seq(Words)
      BY DEF TypeOK
    <2> QED
      BY <1>1, <1>4, <2>1, HeadTailProperties
  <1>8. PICK roots : roots = reader.roots
    OBVIOUS
  <1>9. roots \in Seq(Roots) /\ Len(roots) \in Nat
    BY <1>8 DEF TypeOK, Readers
  <1>10. /\ \A i \in 1..Len(roots) : words[i] = roots[i]
         /\ Len(words) > Len(roots) /\ Dashed(words[Len(roots) + 1])
         /\ real = AsRm(roots) /\ Removes(words)
    <2>1. ReadsFind(words)
      BY <1>1, <1>6 DEF Written
    <2> QED
      BY <1>8, <2>1 DEF ReadsFind
  <1>11. dash = Len(roots) + 1
    <2>1. /\ dash \in 0..Len(words)
          /\ dash # 0 => Dashed(words[dash]) /\ \A i \in 1..Len(words) : Dashed(words[i]) => dash <= i
          /\ dash = 0 => \A i \in 1..Len(words) : ~Dashed(words[i])
      BY <1>2, <1>7, FirstDash
    <2>2. Len(roots) + 1 \in 1..Len(words)
      BY <1>7, <1>9, <1>10
    <2>3. dash # 0 /\ dash <= Len(roots) + 1
      BY <1>10, <2>1, <2>2
    <2>4. ASSUME dash <= Len(roots) PROVE FALSE
      <3>1. dash \in 1..Len(roots)
        BY <1>9, <2>1, <2>3, <2>4
      <3>2. words[dash] \in Roots
        BY <1>9, <1>10, <3>1
      <3> QED
        BY <2>1, <2>3, <3>2, BodiesAssumption
    <2> QED
      BY <1>9, <2>1, <2>3, <2>4
  <1>12. front = roots
    <2>1. /\ front \in Seq(Words) /\ Len(front) = Len(roots) /\ \A i \in 1..Len(roots) : front[i] = words[i]
      <3>1. PICK n : n = Len(roots)
        OBVIOUS
      <3>2. n \in Nat /\ n < Len(words) /\ front = SubSeq(words, 1, n)
        BY <1>3, <1>9, <1>10, <1>11, <3>1
      <3>3. \A i \in 1..n : words[i] \in Words
        BY <1>7, <3>2
      <3>4. /\ front \in Seq(Words) /\ Len(front) = IF 1 <= n THEN n - 1 + 1 ELSE 0
            /\ \A i \in 1..(n - 1 + 1) : front[i] = words[1 + i - 1]
        BY <3>2, <3>3, SubSeqProperties
      <3>5. Len(front) = n /\ \A i \in 1..n : front[i] = words[i]
        BY <3>2, <3>4
      <3> QED
        BY <3>1, <3>4, <3>5
    <2>2. \A i \in 1..Len(front) : front[i] = roots[i]
      BY <1>10, <2>1
    <2>3. roots \in Seq(Words)
      BY <1>9, WordsHave
    <2> QED
      BY <2>1, <2>2, <2>3, SeqEqual
  <1>13. HasArg(words, {Short("delete")}) \/ executes
    <2>1. Short("delete") \in ToSet(words) => HasArg(words, {Short("delete")})
      BY DEF HasArg
    <2>2. Base(<<"/bin/", "rm">>) = "rm"
      BY DEF Base, Last
    <2> QED
      BY <1>10, <2>1, <2>2 DEF Removes
  <1>14. Record(Removal(roots))
    <2>1. dash # 0
      BY <1>9, <1>11
    <2> HIDE DEF executes, Removal
    <2> QED
      BY <1>4, <1>12, <1>13, <2>1
  <1>15. Removal(roots) = real
    <2>1. FlagOf("find") = {}
      BY ToolsAssumption DEF FlagOf
    <2>2. reader.flags = context
      BY <1>6, <2>1
    <2> QED
      BY <1>10, <2>2 DEF AsRm
  <1> HIDE DEF Removal
  <1>16. executed' = <<real>>
    BY <1>14, <1>15 DEF Record
  <1> QED
    BY <1>4, <1>16 DEF Recorded

LEMMA ActualTurns ==
  ASSUME TypeOK, NEW P, NEW s, Written(P, s), Turns(P), Actual
  PROVE  Turns(P)'
  <1>1. PICK command : command = [name |-> Base(Head(rest)), args |-> Tail(rest), flags |-> context]
    OBVIOUS
  <1>2. /\ phase = "strip" /\ phase' = "done" /\ real' = real /\ Record(command)
        /\ Base(Head(rest)) \notin Handled \cup Shells \cup {"find"}
    BY <1>1 DEF Actual, Record
  <1> SUFFICES ASSUME real # None PROVE Recorded'
    BY <1>2 DEF Turns
  <1>3. command = real
    <2>1. CASE InScript
      BY <1>1, <2>1 DEF InScript
    <2>2. CASE AtLayer(P)
      <3>1. /\ rest = From(argv, s) /\ Base(Head(rest)) = reader.tool
            /\ reader.flags = context \cup FlagOf(reader.tool)
        BY <1>2, <2>2, AtReader
      <3>2. reader.tool \in Others
        <4>1. reader.tool \in Tools /\ reader.tool # "start"
          BY DEF TypeOK, Readers, Written
        <4>2. reader.tool \in Wrappers => reader.tool \in Handled
          BY DEF Written, ReadsWrapper
        <4> QED
          BY <1>2, <3>1, <4>1, <4>2 DEF Tools
      <3>3. FlagOf(reader.tool) = {}
        BY <3>2, ToolsAssumption DEF FlagOf
      <3>4. real = [name |-> reader.tool, args |-> Tail(From(argv, s)), flags |-> reader.flags]
        BY <3>2 DEF Written, ReadsOther
      <3> QED
        BY <1>1, <3>1, <3>3, <3>4
    <2> QED
      BY <1>2, <2>1, <2>2 DEF Turns
  <1>4. executed' = <<real>>
    BY <1>2, <1>3 DEF Record
  <1> QED
    BY <1>2, <1>4 DEF Recorded

LEMMA UnwrapStep ==
  ASSUME TypeOK, UnwrapInv, [Next]_vars
  PROVE  UnwrapInv'
  <1>1. CASE phase = "write" /\ Next /\ ~Begin
    BY <1>1, WriteKeeps
  <1>2. CASE Begin
    <2>1. phase = "write" /\ phase' = "strip" /\ UNCHANGED <<argv, reader, real, odd, context, executed>>
          /\ argv # <<>>
      BY <1>2 DEF Begin
    <2>2. context = {} /\ executed = <<>>
      BY <2>1 DEF UnwrapInv
    <2>3. ASSUME odd = {} PROVE \E P \in SUBSET (1..Len(argv)) : \E s \in P : Written(P, s)' /\ Turns(P)'
      <3>1. PICK P \in SUBSET (1..Len(argv)) : \E s \in P : Written(P, s)
        BY <2>1, <2>3 DEF UnwrapInv, NothingRead
      <3>2. PICK s \in P : Written(P, s)
        BY <3>1
      <3> QED
        BY <1>2, <2>1, <2>2, <3>2, BeginTurns, SameWritten
    <2> QED
      BY <2>1, <2>2, <2>3 DEF UnwrapInv
  <1>3. CASE Strip \/ Bare \/ EnvSplit \/ Shell \/ ShellEquals \/ Find \/ Actual
    <2>1. /\ phase = "strip" /\ phase' \in {"strip", "done"} /\ UNCHANGED <<argv, reader, real, odd>>
          /\ phase' # "done" => executed' = executed
      BY <1>3 DEF Strip, Bare, EnvSplit, Shell, ShellEquals, Enter, Find, Actual, Record
    <2>2. ASSUME odd = {} PROVE \E P \in SUBSET (1..Len(argv)) : \E s \in P : Written(P, s)' /\ Turns(P)'
      <3>1. PICK P \in SUBSET (1..Len(argv)) : \E s \in P : Written(P, s) /\ Turns(P)
        BY <2>1, <2>2 DEF UnwrapInv
      <3>2. PICK s \in P : Written(P, s) /\ Turns(P)
        BY <3>1
      <3>3. Turns(P)'
        BY <1>3, <3>2, StripTurns, BareTurns, EnvSplitTurns, ShellTurns, ShellEqualsTurns, FindTurns, ActualTurns
      <3> QED
        BY <2>1, <3>2, <3>3, SameWritten
    <2> QED
      BY <2>1, <2>2 DEF UnwrapInv
  <1>4. CASE Finished \/ UNCHANGED vars
    <2>1. UNCHANGED vars
      BY <1>4 DEF Finished
    <2>2. \A P : Turns(P) => Turns(P)'
      BY <2>1 DEF vars, Turns, AtLayer, InScript, Recorded
    <2>3. ASSUME NEW P, NEW s, Written(P, s) PROVE Written(P, s)'
      BY <2>1, <2>3, SameWritten DEF vars
    <2>4. NothingRead' = NothingRead
      BY <2>1 DEF vars, NothingRead
    <2> QED
      BY <2>1, <2>2, <2>3, <2>4 DEF vars, UnwrapInv
  <1>5. Next => phase = "write" \/ Begin \/ Strip \/ Bare \/ EnvSplit \/ Shell \/ ShellEquals \/ Find \/ Actual
                 \/ Finished
    BY DEF Next, Option, Value, Own, Terminator, Assignment, Program, Argument, Script, Split, Refused, Search, Write
  <1> QED
    BY <1>1, <1>2, <1>3, <1>4, <1>5

\* unwrap.go:5: behind wrappers nested to any depth, whatever options the
\* code knows stand between them, the command recorded is the one that runs,
\* with all of its arguments and exactly the flags of what is around it.
THEOREM InnerCommandRecorded == Spec => []InnerIsRecorded
  <1> DEFINE Inv == TypeOK /\ OthersRun /\ UnwrapInv
  <1>1. Init => Inv
    BY TypeInit DEF Init, UnwrapInv, NothingRead
  <1>2. Inv /\ [Next]_vars => Inv'
    BY TypeNext, UnwrapStep
  <1>3. Inv => InnerIsRecorded
    <2> SUFFICES ASSUME UnwrapInv, phase = "done", odd = {}, real # None PROVE Recorded
      BY DEF InnerIsRecorded
    <2>1. PICK P : Turns(P)
      BY DEF UnwrapInv
    <2> QED
      BY <2>1 DEF Turns
  <1>4. Spec => []Inv
    BY <1>1, <1>2, PTL DEF Spec
  <1> QED
    BY <1>3, <1>4, PTL

=============================================================================
