--------------------------- MODULE Pipeline_proofs ---------------------------
(***************************************************************************)
(* What holds of the argument rules and of a call for commands of any      *)
(* length, any number of commands and any tables of verbs, hosts and SQL.  *)
(***************************************************************************)
EXTENDS Pipeline, WellFoundedInduction, SequenceTheorems, TLAPS

-----------------------------------------------------------------------------
(* Sequences of words.                                                     *)

\* The first of some places.
LEMMA Least ==
  ASSUME NEW S \in SUBSET Nat, S # {}
  PROVE  /\ Min(S) \in S /\ \A n \in S : Min(S) <= n
         /\ \A m \in S : (\A n \in S : m <= n) => m = Min(S)
  <1> DEFINE R == {pair \in Nat \X Nat : pair[1] < pair[2]}
  <1>1. \A i, j \in Nat : <<i, j>> \in R <=> i < j
    OBVIOUS
  <1>2. IsWellFoundedOn(R, Nat)
    BY NatLessThanWellFounded DEF OpToRel
  <1> HIDE DEF R
  <1>3. PICK m \in S : \A n \in S : ~(<<n, m>> \in R)
    BY <1>2, WFMin
  <1>4. \A n \in S : m <= n
    <2> TAKE n \in S
    <2>1. m \in Nat /\ n \in Nat
      OBVIOUS
    <2>2. ~(n < m)
      BY <1>1, <1>3, <2>1
    <2> QED
      BY <2>1, <2>2
  <1>5. Min(S) \in S /\ \A n \in S : Min(S) <= n
    BY <1>4 DEF Min
  <1>6. ASSUME NEW k \in S, \A n \in S : k <= n PROVE k = Min(S)
    <2>1. k <= Min(S) /\ Min(S) <= k /\ k \in Nat /\ Min(S) \in Nat
      BY <1>5, <1>6
    <2> QED
      BY <2>1
  <1> QED
    BY <1>5, <1>6

\* A word more: what the others are and where they stand.
LEMMA OneMore ==
  ASSUME NEW W, NEW line \in Seq(W), NEW word \in W
  PROVE  /\ Append(line, word) \in Seq(W)
         /\ Len(line) \in Nat /\ Len(Append(line, word)) = Len(line) + 1
         /\ DOMAIN line = 1..Len(line) /\ DOMAIN Append(line, word) = 1..(Len(line) + 1)
         /\ \A i \in 1..Len(line) : Append(line, word)[i] = line[i]
         /\ Append(line, word)[Len(line) + 1] = word
         /\ Last(Append(line, word)) = word
         /\ ToSet(Append(line, word)) = ToSet(line) \cup {word}
  <1>1. /\ Append(line, word) \in Seq(W)
        /\ Len(line) \in Nat /\ Len(Append(line, word)) = Len(line) + 1
        /\ DOMAIN line = 1..Len(line) /\ DOMAIN Append(line, word) = 1..(Len(line) + 1)
        /\ \A i \in 1..Len(line) : Append(line, word)[i] = line[i]
        /\ Append(line, word)[Len(line) + 1] = word
    BY AppendProperties, LenProperties
  <1>2. Last(Append(line, word)) = word
    BY <1>1 DEF Last
  <1>3. ToSet(Append(line, word)) = ToSet(line) \cup {word}
    BY <1>1 DEF ToSet
  <1> QED
    BY <1>1, <1>2, <1>3

\* The places at which words of some kind stand.
LEMMA FirstPlace ==
  ASSUME NEW n \in Nat, NEW m \in Nat, n <= m, NEW I \in SUBSET (1..n), NEW J \in SUBSET (1..m),
         \A i \in 1..n : i \in I <=> i \in J
  PROVE  /\ I # {} => Min(I) \in I /\ Min(I) \in 1..n /\ J # {} /\ Min(J) = Min(I)
         /\ J # {} => Min(J) \in J /\ Min(J) \in 1..m
  <1>1. I \in SUBSET Nat /\ J \in SUBSET Nat
    OBVIOUS
  <1>2. J # {} => Min(J) \in J /\ Min(J) \in 1..m
    BY <1>1, Least
  <1>3. ASSUME I # {} PROVE Min(I) \in I /\ Min(I) \in 1..n /\ J # {} /\ Min(J) = Min(I)
    <2>1. Min(I) \in I /\ (\A i \in I : Min(I) <= i) /\ Min(I) \in 1..n
      BY <1>1, <1>3, Least
    <2>2. Min(I) \in J /\ \A j \in J : Min(I) <= j
      BY <2>1
    <2>3. J # {}
      BY <2>2
    <2>4. \A k \in J : (\A j \in J : k <= j) => k = Min(J)
      BY <1>1, <2>3, Least
    <2> QED
      BY <2>1, <2>2, <2>3, <2>4
  <1> QED
    BY <1>2, <1>3

\* More words do not change the first word that is no flag.
LEMMA FirstNonFlagKept ==
  ASSUME NEW W, NEW line \in Seq(W), NEW word \in W, FirstNonFlag(line) # <<>>
  PROVE  FirstNonFlag(Append(line, word)) = FirstNonFlag(line)
  <1> DEFINE more == Append(line, word)
             I == {i \in 1..Len(line) : ~Dashed(line[i])}
             J == {i \in 1..Len(more) : ~Dashed(more[i])}
  <1>1. /\ Len(line) \in Nat /\ Len(more) = Len(line) + 1
        /\ \A i \in 1..Len(line) : more[i] = line[i]
    BY OneMore
  <1>2. /\ FirstNonFlag(line) = IF (IF I # {} THEN Min(I) ELSE 0) = 0 THEN <<>>
                                ELSE line[IF I # {} THEN Min(I) ELSE 0]
        /\ FirstNonFlag(more) = IF (IF J # {} THEN Min(J) ELSE 0) = 0 THEN <<>>
                                ELSE more[IF J # {} THEN Min(J) ELSE 0]
    BY DEF FirstNonFlag, SelectInSeq
  <1>3. I # {}
    BY <1>2
  <1>4. Min(I) \in 1..Len(line) /\ J # {} /\ Min(J) = Min(I)
    <2>1. Len(more) \in Nat /\ Len(line) <= Len(more) /\ I \in SUBSET (1..Len(line))
          /\ J \in SUBSET (1..Len(more)) /\ \A i \in 1..Len(line) : i \in I <=> i \in J
      BY <1>1
    <2> HIDE DEF I, J, more
    <2> QED
      BY <1>1, <1>3, <2>1, FirstPlace
  <1> HIDE DEF I, J
  <1> QED
    BY <1>1, <1>2, <1>3, <1>4

\* What stands behind the first of some word grows at its end.
LEMMA AfterKept ==
  ASSUME NEW W, NEW line \in Seq(W), NEW word \in W, NEW target, target \in ToSet(line)
  PROVE  /\ After(line, target) \in Seq(W)
         /\ After(Append(line, word), target) = Append(After(line, target), word)
  <1> DEFINE more == Append(line, word)
             I == {i \in 1..Len(line) : line[i] = target}
             J == {i \in 1..Len(more) : more[i] = target}
             k == Min(I)
  <1>1. /\ more \in Seq(W) /\ Len(line) \in Nat /\ Len(more) = Len(line) + 1
        /\ DOMAIN line = 1..Len(line) /\ more[Len(line) + 1] = word
        /\ \A i \in 1..Len(line) : more[i] = line[i]
    BY OneMore
  <1>2. I # {}
    BY <1>1 DEF ToSet
  <1>3. /\ k \in 1..Len(line) /\ J # {} /\ Min(J) = k
    <2>1. Len(more) \in Nat /\ Len(line) <= Len(more) /\ I \in SUBSET (1..Len(line))
          /\ J \in SUBSET (1..Len(more)) /\ \A i \in 1..Len(line) : i \in I <=> i \in J
      BY <1>1
    <2> HIDE DEF I, J, more
    <2> QED
      BY <1>1, <1>2, <2>1, FirstPlace
  <1>4. /\ After(line, target) = SubSeq(line, (IF I # {} THEN Min(I) ELSE 0) + 1, Len(line))
        /\ After(more, target) = SubSeq(more, (IF J # {} THEN Min(J) ELSE 0) + 1, Len(more))
    BY DEF After, SelectInSeq
  <1> HIDE DEF I, J, k
  <1>5. /\ After(line, target) = SubSeq(line, k + 1, Len(line))
        /\ After(more, target) = SubSeq(more, k + 1, Len(line) + 1)
    BY <1>1, <1>2, <1>3, <1>4 DEF k
  <1> HIDE DEF more
  <1>6. /\ SubSeq(line, k + 1, Len(line)) \in Seq(W)
        /\ Len(SubSeq(line, k + 1, Len(line))) = Len(line) - k
        /\ \A i \in 1..(Len(line) - k) : SubSeq(line, k + 1, Len(line))[i] = line[k + i]
    BY <1>1, <1>3, SubSeqProperties
  <1>7. /\ SubSeq(more, k + 1, Len(line) + 1) \in Seq(W)
        /\ Len(SubSeq(more, k + 1, Len(line) + 1)) = Len(line) + 1 - k
        /\ \A i \in 1..(Len(line) + 1 - k) : SubSeq(more, k + 1, Len(line) + 1)[i] = more[k + i]
    BY <1>1, <1>3, SubSeqProperties
  <1> DEFINE a == After(line, target)
             b == After(more, target)
  <1>8. /\ Append(a, word) \in Seq(W) /\ Len(Append(a, word)) = Len(line) - k + 1
        /\ \A i \in 1..(Len(line) - k) : Append(a, word)[i] = line[k + i]
        /\ Append(a, word)[Len(line) - k + 1] = word
    BY <1>5, <1>6, OneMore
  <1>9. Len(b) = Len(Append(a, word)) /\ \A i \in 1..Len(b) : b[i] = Append(a, word)[i]
    <2>1. Len(b) = Len(line) - k + 1 /\ Len(line) \in Nat /\ k \in 1..Len(line)
      BY <1>1, <1>3, <1>5, <1>7
    <2>2. ASSUME NEW i \in 1..(Len(line) - k) PROVE b[i] = Append(a, word)[i]
      BY <1>1, <1>3, <1>5, <1>7, <1>8, <2>2
    <2>3. b[Len(line) - k + 1] = Append(a, word)[Len(line) - k + 1]
      BY <1>1, <1>3, <1>5, <1>7, <1>8
    <2> QED
      BY <1>8, <2>1, <2>2, <2>3
  <1>10. b = Append(a, word)
    BY <1>5, <1>7, <1>8, <1>9, SeqEqual
  <1> QED
    BY <1>5, <1>6, <1>10 DEF more

-----------------------------------------------------------------------------
(* Options with values.                                                    *)

\* What a word begins with that holds the value of the option itself.
Lead(option) == IF Head(option) = "--" THEN Append(option, "=") ELSE option

\* No option is written like another one with its value.
Apart(options) == \A o, p \in options : o # p => ~IsPrefix(Lead(p), o)

LEMMA ValueFacts ==
  ASSUME NEW line, NEW i, NEW option
  PROVE  /\ line[i] = option =>
               ValueAt(line, i, option) = IF i < Len(line) THEN {line[i + 1]} ELSE {}
         /\ line[i] # option =>
               ValueAt(line, i, option) =
                 IF IsPrefix(Lead(option), line[i])
                 THEN {SubSeq(line[i], Len(Lead(option)) + 1, Len(line[i]))} ELSE {}
  <1>1. CASE Head(option) = "--"
    BY <1>1 DEF ValueAt, Lead
  <1>2. CASE Head(option) # "--"
    BY <1>2 DEF ValueAt, Lead
  <1> QED
    BY <1>1, <1>2

LEMMA FirstValueKept ==
  ASSUME NEW W, NEW line \in Seq(W), NEW word \in W, NEW options, Apart(options),
         FirstValue(line, options) # <<>>
  PROVE  FirstValue(Append(line, word), options) = FirstValue(line, options)
  <1> DEFINE more == Append(line, word)
             I == {i \in DOMAIN line : ValuesAt(line, i, options) # {}}
             J == {i \in DOMAIN more : ValuesAt(more, i, options) # {}}
  <1>1. /\ Len(line) \in Nat /\ Len(more) = Len(line) + 1
        /\ DOMAIN line = 1..Len(line) /\ DOMAIN more = 1..Len(more)
        /\ \A i \in 1..Len(line) : more[i] = line[i]
    BY OneMore
  <1>2. I # {}
    BY DEF FirstValue
  <1>3. ASSUME NEW i \in 1..Len(line), i < Len(line) \/ line[i] \notin options, NEW option \in options
        PROVE  ValueAt(more, i, option) = ValueAt(line, i, option)
    <2> HIDE DEF more, I, J
    <2>1. more[i] = line[i] /\ i < Len(more)
      BY <1>1
    <2>2. CASE line[i] = option
      <3>1. i < Len(line) /\ i + 1 \in 1..Len(line)
        BY <1>1, <1>3, <2>2
      <3>2. more[i + 1] = line[i + 1]
        BY <1>1, <3>1
      <3>3. ValueAt(line, i, option) = {line[i + 1]}
        BY <2>2, <3>1, ValueFacts
      <3>4. ValueAt(more, i, option) = {more[i + 1]}
        BY <2>1, <2>2, ValueFacts
      <3> QED
        BY <3>2, <3>3, <3>4
    <2>3. CASE line[i] # option
      <3> DEFINE there(at) == IF IsPrefix(Lead(option), at)
                              THEN {SubSeq(at, Len(Lead(option)) + 1, Len(at))} ELSE {}
      <3>1. ValueAt(line, i, option) = there(line[i])
        BY <2>3, ValueFacts
      <3>2. ValueAt(more, i, option) = there(more[i])
        BY <2>1, <2>3, ValueFacts
      <3> QED
        BY <2>1, <3>1, <3>2
    <2> QED
      BY <2>2, <2>3
  <1>4. ASSUME NEW i \in 1..Len(line), i < Len(line) \/ line[i] \notin options
        PROVE  ValuesAt(more, i, options) = ValuesAt(line, i, options)
    <2>1. {ValueAt(more, i, option) : option \in options} = {ValueAt(line, i, option) : option \in options}
      BY <1>3, <1>4
    <2> QED
      BY <2>1 DEF ValuesAt
  <1>5. ASSUME NEW i \in I PROVE i < Len(line) \/ line[i] \notin options
    <2>0. i \in 1..Len(line) /\ ValuesAt(line, i, options) # {}
      BY <1>1
    <2> HIDE DEF I, J
    <2> SUFFICES ASSUME ~(i < Len(line)), line[i] \in options PROVE FALSE
      OBVIOUS
    <2>1. PICK option \in options : ValueAt(line, i, option) # {}
      BY <2>0 DEF ValuesAt
    <2>2. line[i] # option /\ IsPrefix(Lead(option), line[i])
      BY <2>1, ValueFacts
    <2> QED
      BY <2>2 DEF Apart
  <1> DEFINE k == CHOOSE i \in I : \A j \in I : i <= j
             l == CHOOSE i \in J : \A j \in J : i <= j
  <1>6. I \in SUBSET Nat /\ I \in SUBSET (1..Len(line)) /\ J \in SUBSET Nat /\ J \in SUBSET (1..Len(more))
    BY <1>1
  <1>7. k = Min(I) /\ l = Min(J)
    BY DEF Min
  <1>8. Min(I) \in I /\ (\A i \in I : Min(I) <= i)
    <2> HIDE DEF I
    <2> QED
      BY <1>2, <1>6, Least
  <1>9. Min(I) \in J
    <2>1. Min(I) \in 1..Len(line) /\ ValuesAt(line, Min(I), options) # {}
      BY <1>6, <1>8
    <2>2. ValuesAt(more, Min(I), options) = ValuesAt(line, Min(I), options)
      <3> HIDE DEF I, more
      <3> QED
        BY <1>4, <1>5, <1>8, <2>1
    <2> HIDE DEF I
    <2> QED
      BY <1>1, <2>1, <2>2
  <1>10. ASSUME NEW j \in J PROVE Min(I) <= j
    <2> SUFFICES ASSUME j < Min(I) PROVE FALSE
      BY <1>6, <1>8
    <2>1. j \in 1..Len(line) /\ j < Len(line)
      BY <1>1, <1>6, <1>8
    <2>2. j \in I
      BY <1>1, <1>4, <2>1
    <2> HIDE DEF I, J
    <2>3. Min(I) <= j /\ j \in Nat /\ Min(I) \in Nat
      BY <1>6, <1>8, <2>2
    <2> QED
      BY <2>3
  <1>11. Min(J) = Min(I)
    <2> HIDE DEF I, J
    <2> QED
      BY <1>6, <1>9, <1>10, Least
  <1>12. /\ FirstValue(line, options) = IF I = {} THEN <<>> ELSE CHOOSE value \in ValuesAt(line, k, options) : TRUE
         /\ FirstValue(more, options) = IF J = {} THEN <<>> ELSE CHOOSE value \in ValuesAt(more, l, options) : TRUE
    BY DEF FirstValue
  <1>13. ValuesAt(more, Min(I), options) = ValuesAt(line, Min(I), options)
    BY <1>4, <1>5, <1>6, <1>8
  <1> HIDE DEF I, J, k, l
  <1> QED
    BY <1>2, <1>7, <1>9, <1>11, <1>12, <1>13

LEMMA OptionsApart ==
  Apart({Short("X"), Long("request")}) /\ Apart({Long("command")}) /\ Apart(SqlOptions)
  BY DEF Apart, Lead, Short, Long, SqlOptions, IsPrefix

-----------------------------------------------------------------------------
(* What a word more leaves as it is.                                       *)

LEMMA Grown ==
  ASSUME NEW W, NEW line \in Seq(W), NEW word \in W
  PROVE  /\ ToSet(line) \subseteq ToSet(Append(line, word))
         /\ \A candidates : HasArg(line, candidates) => HasArg(Append(line, word), candidates)
         /\ \A candidates : word \notin candidates /\ HasArg(Append(line, word), candidates)
                              => HasArg(line, candidates)
         /\ \A prefix : HasArgPrefix(line, prefix) => HasArgPrefix(Append(line, word), prefix)
         /\ \A prefix : ~IsPrefix(prefix, word) /\ HasArgPrefix(Append(line, word), prefix)
                          => HasArgPrefix(line, prefix)
         /\ \A first, second : InOrder(line, first, second) => InOrder(Append(line, word), first, second)
         /\ \A pieces : Mentions(line, pieces) => Mentions(Append(line, word), pieces)
  <1>1. ToSet(Append(line, word)) = ToSet(line) \cup {word}
    BY OneMore
  <1>2. ASSUME NEW first, NEW second, InOrder(line, first, second)
        PROVE  InOrder(Append(line, word), first, second)
    BY <1>2, OneMore DEF InOrder
  <1> QED
    BY <1>1, <1>2 DEF HasArg, HasArgPrefix, Mentions

\* A loop over the words that stops at the first of a kind.
LEMMA SomeKept ==
  ASSUME NEW n \in Nat, NEW I \in SUBSET (1..n)
  PROVE  (IF I # {} THEN Min(I) ELSE 0) # 0 <=> I # {}
  BY Least

LEMMA NoPieces == ToSet(<<>>) = {}
  <1>1. DOMAIN <<>> = {}
    OBVIOUS
  <1> QED
    BY <1>1 DEF ToSet

LEMMA PushKept ==
  ASSUME NEW W, NEW line \in Seq(W), NEW word \in W, PushCode(line) # None
  PROVE  PushCode(Append(line, word)) # None
  <1> DEFINE more == Append(line, word)
             I == {i \in 1..Len(line) : Forces(line[i]) \/ DeletesRef(line[i])}
             J == {i \in 1..Len(more) : Forces(more[i]) \/ DeletesRef(more[i])}
             at(S) == IF S # {} THEN Min(S) ELSE 0
  <1>1. /\ Len(line) \in Nat /\ Len(more) = Len(line) + 1
        /\ \A i \in 1..Len(line) : more[i] = line[i]
    BY OneMore
  <1>2. /\ PushCode(line) = IF at(I) = 0 THEN None
                            ELSE IF Forces(line[at(I)]) THEN <<"git", "force_push">> ELSE <<"git", "push_delete">>
        /\ PushCode(more) = IF at(J) = 0 THEN None
                            ELSE IF Forces(more[at(J)]) THEN <<"git", "force_push">> ELSE <<"git", "push_delete">>
    BY DEF PushCode, SelectInSeq
  <1>3. I # {}
    BY <1>2
  <1>4. J # {}
    BY <1>1, <1>3
  <1>5. at(J) # 0
    <2>1. J \in SUBSET (1..Len(more)) /\ Len(more) \in Nat
      BY <1>1
    <2> HIDE DEF J, more
    <2> QED
      BY <1>4, <2>1, SomeKept
  <1> HIDE DEF I, J, at
  <1> QED
    BY <1>2, <1>5 DEF None

LEMMA GcloudKept ==
  ASSUME NEW W, NEW line \in Seq(W), NEW word \in W, GcloudCode(line) # None
  PROVE  GcloudCode(Append(line, word)) # None
  <1> DEFINE more == Append(line, word)
             hit(w, s) == w \in Verbs["gcloud"] \/ (w = <<"storage">> /\ HasArg(s, CopyVerbs))
             I == {i \in 1..Len(line) : hit(line[i], line)}
             J == {i \in 1..Len(more) : hit(more[i], more)}
             at(S) == IF S # {} THEN Min(S) ELSE 0
             code(s, i) == IF i # 0
                           THEN IF s[i] \in Verbs["gcloud"] THEN <<"infra", "gcloud", "destructive">>
                                ELSE <<"infra", "gcs", "storage_mutation">>
                           ELSE IF InOrder(s, <<"compute">>, <<"ssh">>) /\ RemoteMutation(s)
                           THEN <<"infra", "gcloud", "ssh_remote_mutation">> ELSE None
  <1>1. /\ Len(line) \in Nat /\ Len(more) = Len(line) + 1
        /\ \A i \in 1..Len(line) : more[i] = line[i]
    BY OneMore
  <1>2. GcloudCode(line) = code(line, at(I)) /\ GcloudCode(more) = code(more, at(J))
    BY DEF GcloudCode, SelectInSeq
  <1>3. CASE at(I) # 0
    <2>1. I # {}
      BY <1>3
    <2>2. HasArg(line, CopyVerbs) => HasArg(more, CopyVerbs)
      BY Grown
    <2>3. J # {}
      BY <1>1, <2>1, <2>2
    <2>4. J \in SUBSET (1..Len(more)) /\ Len(more) \in Nat
      BY <1>1
    <2>5. at(J) # 0
      <3> HIDE DEF J, more
      <3> QED
        BY <2>3, <2>4, SomeKept
    <2> HIDE DEF I, J, at
    <2> QED
      BY <1>2, <2>5 DEF None
  <1>4. CASE at(I) = 0
    <2> HIDE DEF I, J, at
    <2>1. InOrder(line, <<"compute">>, <<"ssh">>) /\ RemoteMutation(line)
      BY <1>2, <1>4
    <2>2. InOrder(more, <<"compute">>, <<"ssh">>)
      BY <2>1, Grown
    <2>3. FirstValue(line, {Long("command")}) # <<>>
      BY <2>1, NoPieces DEF RemoteMutation
    <2>4. RemoteMutation(more)
      BY <2>1, <2>3, FirstValueKept, OptionsApart DEF RemoteMutation
    <2> QED
      BY <1>2, <2>2, <2>4 DEF None
  <1> QED
    BY <1>3, <1>4

LEMMA FirstNonFlagIn ==
  ASSUME NEW W, NEW line \in Seq(W), FirstNonFlag(line) # <<>>
  PROVE  FirstNonFlag(line) \in ToSet(line)
  <1> DEFINE I == {i \in 1..Len(line) : ~Dashed(line[i])}
  <1>1. Len(line) \in Nat /\ DOMAIN line = 1..Len(line)
    BY LenProperties
  <1>2. FirstNonFlag(line) = IF (IF I # {} THEN Min(I) ELSE 0) = 0 THEN <<>>
                             ELSE line[IF I # {} THEN Min(I) ELSE 0]
    BY DEF FirstNonFlag, SelectInSeq
  <1>3. I # {}
    BY <1>2
  <1>4. Min(I) \in 1..Len(line)
    <2>1. I \in SUBSET Nat /\ I \in SUBSET (1..Len(line))
      BY <1>1
    <2> HIDE DEF I
    <2> QED
      BY <1>3, <2>1, Least
  <1> HIDE DEF I
  <1> QED
    BY <1>1, <1>2, <1>3, <1>4 DEF ToSet

LEMMA VerbsKept ==
  ASSUME NEW W, NEW line \in Seq(W), NEW word \in W
  PROVE  /\ \A tool \in {"kubectl", "helm"} : \A code :
              VerbCode(tool, line, code) # None => VerbCode(tool, Append(line, word), code) # None
         /\ FirstNonFlag(line) \in CopyVerbs => FirstNonFlag(Append(line, word)) \in CopyVerbs
         /\ DockerCode(line) # None => DockerCode(Append(line, word)) # None
         /\ TerraformCode(line) # None => TerraformCode(Append(line, word)) # None
  <1> DEFINE more == Append(line, word)
  <1>1. FirstNonFlag(line) # <<>> => FirstNonFlag(more) = FirstNonFlag(line)
    BY FirstNonFlagKept
  <1>2. \A candidates : HasArg(line, candidates) => HasArg(more, candidates)
    BY Grown
  <1>3. ASSUME NEW tool \in {"kubectl", "helm"}, NEW code, VerbCode(tool, line, code) # None
        PROVE  VerbCode(tool, more, code) # None
    BY <1>1, <1>3, RulesAssumption DEF VerbCode
  <1>4. FirstNonFlag(line) \in CopyVerbs => FirstNonFlag(more) \in CopyVerbs
    BY <1>1, RulesAssumption
  <1>5. ASSUME DockerCode(line) # None PROVE DockerCode(more) # None
    <2>1. FirstNonFlag(line) # <<>>
      BY <1>5, RulesAssumption DEF DockerCode
    <2> HIDE DEF more
    <2> QED
      BY <1>1, <1>2, <1>5, <2>1 DEF DockerCode, None
  <1>6. ASSUME TerraformCode(line) # None PROVE TerraformCode(more) # None
    <2>1. FirstNonFlag(line) # <<>>
      BY <1>6, RulesAssumption DEF TerraformCode
    <2>2. ASSUME FirstNonFlag(line) = <<"state">>, FirstNonFlag(After(line, <<"state">>)) # <<>>
          PROVE  FirstNonFlag(After(more, <<"state">>)) = FirstNonFlag(After(line, <<"state">>))
      <3>1. <<"state">> \in ToSet(line)
        BY <2>1, <2>2, FirstNonFlagIn
      <3> DEFINE rest == After(line, <<"state">>)
      <3>2. rest \in Seq(W) /\ After(more, <<"state">>) = Append(rest, word)
        BY <3>1, AfterKept
      <3>4. FirstNonFlag(rest) # <<>>
        BY <2>2
      <3> HIDE DEF rest
      <3>3. FirstNonFlag(Append(rest, word)) = FirstNonFlag(rest)
        BY <3>2, <3>4, FirstNonFlagKept
      <3> QED
        BY <3>2, <3>3 DEF rest
    <2> HIDE DEF more
    <2> QED
      BY <1>1, <1>6, <2>1, <2>2 DEF TerraformCode, None
  <1> QED
    BY <1>3, <1>4, <1>5, <1>6

LEMMA GitKept ==
  ASSUME NEW W, NEW line \in Seq(W), NEW word \in W, ~Harmless(word), GitCode(line) # None
  PROVE  GitCode(Append(line, word)) # None
  <1> DEFINE more == Append(line, word)
             verb == FirstNonFlag(line)
  <1> SUFFICES GitCode(more) # None
    OBVIOUS
  <1>1. verb # <<>>
    BY DEF GitCode
  <1>2. FirstNonFlag(more) = verb
    BY <1>1, FirstNonFlagKept
  <1>3. /\ ToSet(line) \subseteq ToSet(more)
        /\ \A candidates : HasArg(line, candidates) => HasArg(more, candidates)
        /\ \A candidates : word \notin candidates /\ HasArg(more, candidates) => HasArg(line, candidates)
        /\ HasArgPrefix(more, <<"--", "source", "=">>) => HasArgPrefix(line, <<"--", "source", "=">>)
    BY Grown DEF Harmless
  <1>4. CASE verb = <<"push">>
    <2>1. PushCode(line) # None
      BY <1>4 DEF GitCode
    <2>2. PushCode(more) # None
      BY <2>1, PushKept
    <2> HIDE DEF more
    <2> QED
      BY <1>2, <1>4, <2>2 DEF GitCode
  <1>5. CASE verb = <<"stash">>
    <2>1. FirstNonFlag(After(line, <<"stash">>)) \in {<<"drop">>, <<"clear">>}
      BY <1>5 DEF GitCode
    <2>2. FirstNonFlag(After(more, <<"stash">>)) = FirstNonFlag(After(line, <<"stash">>))
      <3>1. <<"stash">> \in ToSet(line)
        BY <1>5, FirstNonFlagIn
      <3> DEFINE rest == After(line, <<"stash">>)
      <3>2. rest \in Seq(W) /\ After(more, <<"stash">>) = Append(rest, word) /\ FirstNonFlag(rest) # <<>>
        BY <2>1, <3>1, AfterKept
      <3> HIDE DEF rest
      <3>3. FirstNonFlag(Append(rest, word)) = FirstNonFlag(rest)
        BY <3>2, FirstNonFlagKept
      <3> QED
        BY <3>2, <3>3 DEF rest
    <2> HIDE DEF more
    <2> QED
      BY <1>2, <1>5, <2>1, <2>2 DEF GitCode, None
  <1>6. Restores(line) => Restores(more)
    <2>1. word \notin {Long("source"), Short("s"), Long("staged"), Long("cached")}
      BY DEF Harmless
    <2> QED
      BY <1>3, <2>1 DEF Restores
  <1>7. ~HasArg(line, {Long("analyze")}) => ~HasArg(more, {Long("analyze")})
    BY <1>3 DEF Harmless
  <1>8. CASE verb \notin {<<"push">>, <<"stash">>}
    <2> HIDE DEF more
    <2> QED
      BY <1>2, <1>3, <1>6, <1>7, <1>8 DEF GitCode, None
  <1> QED
    BY <1>4, <1>5, <1>8

LEMMA ValuesKept ==
  ASSUME NEW W, NEW line \in Seq(W), NEW word \in W
  PROVE  /\ CurlCode(line) # None => CurlCode(Append(line, word)) # None
         /\ SqlCode(line) # None => SqlCode(Append(line, word)) # None
  <1> DEFINE more == Append(line, word)
  <1>1. ASSUME CurlCode(line) # None PROVE CurlCode(more) # None
    <2> DEFINE method == FirstValue(line, {Short("X"), Long("request")})
    <2>1. Len(method) = 1 /\ Upper(Head(method)) \in {"POST", "PUT", "DELETE", "PATCH"}
      BY <1>1 DEF CurlCode
    <2>2. FirstValue(more, {Short("X"), Long("request")}) = method
      <3>1. method # <<>>
        BY <2>1
      <3> QED
        BY <3>1, FirstValueKept, OptionsApart
    <2>3. \A pieces : Mentions(line, pieces) => Mentions(more, pieces)
      BY Grown
    <2>4. \/ Mentions(line, SearchHosts) \/ Mentions(line, CloudHosts)
          \/ Mentions(line, {"graphql"}) /\ Mentions(line, {"{mutation"})
      BY <1>1 DEF CurlCode
    <2>5. Mentions(more, SearchHosts \cup CloudHosts) => Mentions(more, SearchHosts) \/ Mentions(more, CloudHosts)
      BY DEF Mentions
    <2> HIDE DEF more, method
    <2> QED
      BY <2>1, <2>2, <2>3, <2>4, <2>5 DEF CurlCode, None
  <1>2. ASSUME SqlCode(line) # None PROVE SqlCode(more) # None
    <2>1. FirstValue(line, SqlOptions) # <<>>
      BY <1>2, NoPieces DEF SqlCode
    <2>2. FirstValue(more, SqlOptions) = FirstValue(line, SqlOptions)
      BY <2>1, FirstValueKept, OptionsApart
    <2> QED
      BY <1>2, <2>2 DEF SqlCode, None
  <1> QED
    BY <1>1, <1>2

LEMMA WordsKept ==
  ASSUME NEW W, NEW line \in Seq(W), NEW word \in W
  PROVE  /\ AwsCode(line) # None => AwsCode(Append(line, word)) # None
         /\ \A tool, code : NounVerbCode(tool, line, code) # None => NounVerbCode(tool, Append(line, word), code) # None
         /\ \A tool : PaasCode(tool, line) # None => PaasCode(tool, Append(line, word)) # None
         /\ RedisCode(line) # None => RedisCode(Append(line, word)) # None
         /\ CheckSupabase(line) # None => CheckSupabase(Append(line, word)) # None
         /\ PrismaCode(line) # None => PrismaCode(Append(line, word)) # None
         /\ PythonCode(line) # None => PythonCode(Append(line, word)) # None
         /\ ~Harmless(word) /\ BfgCode(line) # None => BfgCode(Append(line, word)) # None
  <1> DEFINE more == Append(line, word)
  <1>1. /\ ToSet(line) \subseteq ToSet(more)
        /\ \A candidates : HasArg(line, candidates) => HasArg(more, candidates)
        /\ \A candidates : word \notin candidates /\ HasArg(more, candidates) => HasArg(line, candidates)
        /\ \A prefix : HasArgPrefix(line, prefix) => HasArgPrefix(more, prefix)
        /\ \A first, second : InOrder(line, first, second) => InOrder(more, first, second)
    BY Grown
  <1>2. /\ Len(line) \in Nat /\ Len(more) = Len(line) + 1 /\ more \in Seq(W)
        /\ \A i \in 1..Len(line) : more[i] = line[i]
    BY OneMore
  <1> HIDE DEF more
  <1>3. AwsCode(line) # None => AwsCode(more) # None
    BY <1>1 DEF AwsCode, None
  <1>4. ASSUME NEW tool, NEW code, NounVerbCode(tool, line, code) # None
        PROVE  NounVerbCode(tool, more, code) # None
    BY <1>1, <1>4 DEF NounVerbCode
  <1>5. ASSUME NEW tool, PaasCode(tool, line) # None PROVE PaasCode(tool, more) # None
    BY <1>1, <1>5 DEF PaasCode, None
  <1>6. RedisCode(line) # None => RedisCode(more) # None
    BY <1>1 DEF RedisCode, None
  <1>7. ASSUME CheckSupabase(line) # None PROVE CheckSupabase(more) # None
    <2>1. ASSUME NEW i \in 1..(Len(line) - 1), line[i] \in {<<"migration">>, <<"migrations">>},
                 line[i + 1] = <<"repair">>
          PROVE  \E j \in 1..(Len(more) - 1) :
                   more[j] \in {<<"migration">>, <<"migrations">>} /\ more[j + 1] = <<"repair">>
      <3>1. i \in 1..(Len(more) - 1) /\ i \in 1..Len(line) /\ i + 1 \in 1..Len(line)
        BY <1>2
      <3> QED
        BY <1>2, <2>1, <3>1
    <2> QED
      BY <1>1, <1>7, <2>1 DEF CheckSupabase, None
  <1>8. PrismaCode(line) # None => PrismaCode(more) # None
    BY <1>1 DEF PrismaCode, None
  <1>9. ASSUME PythonCode(line) # None PROVE PythonCode(more) # None
    <2>1. Len(line) >= 2 /\ HasArg(Tail(line), {<<"migrate">>})
      BY <1>9 DEF PythonCode
    <2>2. Tail(line) \in Seq(W) /\ Tail(more) = Append(Tail(line), word)
      BY <1>2, <2>1 DEF more
    <2>3. HasArg(Tail(more), {<<"migrate">>})
      <3> DEFINE rest == Tail(line)
      <3>1. rest \in Seq(W) /\ HasArg(rest, {<<"migrate">>})
        BY <2>1, <2>2
      <3> HIDE DEF rest
      <3>2. HasArg(Append(rest, word), {<<"migrate">>})
        BY <3>1, Grown
      <3> QED
        BY <2>2, <3>2 DEF rest
    <2>4. more[1] = line[1] /\ Len(more) >= 2
      BY <1>2, <2>1
    <2> QED
      BY <1>9, <2>3, <2>4 DEF PythonCode, None
  <1>10. ~Harmless(word) /\ BfgCode(line) # None => BfgCode(more) # None
    BY <1>1 DEF BfgCode, Harmless, None
  <1> QED
    BY <1>3, <1>4, <1>5, <1>6, <1>7, <1>8, <1>9, <1>10 DEF more

-----------------------------------------------------------------------------
(* The rules.                                                              *)

LEMMA MigrationNames == DOMAIN MigrationCode = Migrators
  BY DEF MigrationCode

LEMMA CodeKept ==
  ASSUME NEW W, NEW line \in Seq(W), NEW word \in W, NEW tool, ~Harmless(word), CodeOf(tool, line) # None
  PROVE  CodeOf(tool, Append(line, word)) # None
  <1> DEFINE more == Append(line, word)
  <1> SUFFICES CodeOf(tool, more) # None
    OBVIOUS
  <1>1. /\ \A candidates : HasArg(line, candidates) => HasArg(more, candidates)
        /\ \A prefix : HasArgPrefix(line, prefix) => HasArgPrefix(more, prefix)
        /\ \A pieces : Mentions(line, pieces) => Mentions(more, pieces)
    BY Grown
  <1>2. /\ AwsCode(line) # None => AwsCode(more) # None
        /\ \A t, code : NounVerbCode(t, line, code) # None => NounVerbCode(t, more, code) # None
        /\ \A t : PaasCode(t, line) # None => PaasCode(t, more) # None
        /\ RedisCode(line) # None => RedisCode(more) # None
        /\ CheckSupabase(line) # None => CheckSupabase(more) # None
        /\ PrismaCode(line) # None => PrismaCode(more) # None
        /\ PythonCode(line) # None => PythonCode(more) # None
        /\ BfgCode(line) # None => BfgCode(more) # None
    BY WordsKept
  <1>3. /\ \A t \in {"kubectl", "helm"} : \A code :
             VerbCode(t, line, code) # None => VerbCode(t, more, code) # None
        /\ FirstNonFlag(line) \in CopyVerbs => FirstNonFlag(more) \in CopyVerbs
        /\ DockerCode(line) # None => DockerCode(more) # None
        /\ TerraformCode(line) # None => TerraformCode(more) # None
    BY VerbsKept
  <1>4. /\ CurlCode(line) # None => CurlCode(more) # None
        /\ SqlCode(line) # None => SqlCode(more) # None
    BY ValuesKept
  <1>5. GitCode(line) # None => GitCode(more) # None
    BY GitKept
  <1>6. GcloudCode(line) # None => GcloudCode(more) # None
    BY GcloudKept
  <1> HIDE DEF more
  <1>7. CASE tool \in PaasClis
    <2>1. tool \notin Ruled
      BY <1>7, RulesAssumption
    <2>2. \A s : CodeOf(tool, s) = PaasCode(tool, s)
      BY <1>7, <2>1, MigrationNames DEF CodeOf, Ruled
    <2> QED
      BY <1>2, <2>2
  <1>8. CASE tool \in Migrators
    <2>1. tool \in Ruled
      BY <1>8 DEF Ruled
    <2>2. \A s : CodeOf(tool, s) = IF HasArg(s, Verbs[tool]) THEN MigrationCode[tool] ELSE None
      BY <1>8, <2>1, MigrationNames, RulesAssumption DEF CodeOf, Migrators
    <2> QED
      BY <1>1, <2>2
  <1>9. CASE tool \notin PaasClis \cup Migrators
    <2>1. CASE tool \in {"git", "bfg", "kubectl", "helm", "gsutil", "docker", "terraform", "tofu", "gcloud", "curl"}
      BY <1>2, <1>3, <1>4, <1>5, <1>6, <1>9, <2>1, MigrationNames DEF CodeOf, None
    <2>2. CASE tool \in {"mongo", "mongosh", "mongodump", "mongorestore", "aws", "az", "oci", "ibmcloud"}
      BY <1>1, <1>2, <1>9, <2>2, MigrationNames DEF CodeOf, None
    <2>3. CASE tool \in {"psql", "mysql", "mariadb", "redis-cli", "supabase", "python", "python3", "prisma", "knex"}
      BY <1>1, <1>2, <1>4, <1>9, <2>3, MigrationNames DEF CodeOf, None
    <2>4. CASE tool \notin Ruled
      BY <1>9, <2>4, MigrationNames DEF CodeOf, Ruled
    <2> QED
      BY <1>9, <2>1, <2>2, <2>3, <2>4 DEF Ruled
  <1> QED
    BY <1>7, <1>8, <1>9

\* A reason code that intentForReasonCode finds in its tables.
Known(code) ==
  /\ code # None
  /\ code \in ExactIntents \/ \E key \in PrefixIntents : IsPrefix(key, code)

LEMMA Families ==
  /\ <<"supabase">> \in PrefixIntents /\ <<"paas">> \in PrefixIntents
  /\ \A family \in {"kubectl", "gcloud", "gcs", "helm", "docker", "mongo", "terraform", "gsutil", "opensearch",
                    "cloud_api", "graphql", "aws", "azure", "oci", "ibmcloud"} : \A rest :
       <<"infra", family>> \in PrefixIntents /\ IsPrefix(<<"infra", family>>, <<"infra", family, rest>>)
  /\ \A rest : IsPrefix(<<"supabase">>, <<"supabase", rest>>)
  /\ \A rest, last : IsPrefix(<<"paas">>, <<"paas", rest, last>>)
  <1>1. ASSUME NEW family, NEW rest PROVE IsPrefix(<<"infra", family>>, <<"infra", family, rest>>)
    BY DEF IsPrefix
  <1>2. ASSUME NEW rest PROVE IsPrefix(<<"supabase">>, <<"supabase", rest>>)
    BY DEF IsPrefix
  <1>3. ASSUME NEW rest, NEW last PROVE IsPrefix(<<"paas">>, <<"paas", rest, last>>)
    BY DEF IsPrefix
  <1> QED
    BY <1>1, <1>2, <1>3 DEF PrefixIntents

LEMMA CodeKnown ==
  ASSUME NEW tool, NEW line, CodeOf(tool, line) # None
  PROVE  Known(CodeOf(tool, line))
  <1> DEFINE code == CodeOf(tool, line)
  <1>1. ASSUME NEW family \in {"kubectl", "gcloud", "gcs", "helm", "docker", "mongo", "terraform", "gsutil",
                               "opensearch", "cloud_api", "graphql", "aws", "azure", "oci", "ibmcloud"}, NEW last
        PROVE  Known(<<"infra", family, last>>)
    BY Families DEF Known, None
  <1>2. ASSUME NEW last PROVE Known(<<"supabase", last>>)
    BY Families DEF Known, None
  <1>3. ASSUME NEW last PROVE Known(<<"git", last>>) <=> <<"git", last>> \in ExactIntents
                                                         \/ \E key \in PrefixIntents : IsPrefix(key, <<"git", last>>)
    BY DEF Known, None
  <1>4. /\ GitCode(line) # None => Known(GitCode(line))
        /\ BfgCode(line) # None => Known(BfgCode(line))
    BY <1>3 DEF GitCode, PushCode, BfgCode, ExactIntents
  <1>5. /\ SqlCode(line) # None => Known(SqlCode(line))
        /\ RedisCode(line) # None => Known(RedisCode(line))
    BY DEF SqlCode, RedisCode, ExactIntents, Known
  <1>6. /\ DockerCode(line) # None => Known(DockerCode(line))
        /\ TerraformCode(line) # None => Known(TerraformCode(line))
        /\ GcloudCode(line) # None => Known(GcloudCode(line))
        /\ CurlCode(line) # None => Known(CurlCode(line))
        /\ AwsCode(line) # None => Known(AwsCode(line))
    BY <1>1 DEF DockerCode, TerraformCode, GcloudCode, CurlCode, AwsCode
  <1>7. /\ CheckSupabase(line) # None => Known(CheckSupabase(line))
        /\ PythonCode(line) # None => Known(PythonCode(line))
        /\ PrismaCode(line) # None => Known(PrismaCode(line))
    BY <1>2 DEF CheckSupabase, PythonCode, PrismaCode
  <1>8. CASE tool \in PaasClis
    <2>1. tool \notin Ruled
      BY <1>8, RulesAssumption
    <2>2. code = PaasCode(tool, line)
      BY <1>8, <2>1, MigrationNames DEF CodeOf, Ruled
    <2> QED
      BY <2>2, Families DEF PaasCode, Known, None
  <1>9. CASE tool \in Migrators
    <2>1. tool \in Ruled
      BY <1>9 DEF Ruled
    <2>2. code = MigrationCode[tool]
      BY <1>9, <2>1, MigrationNames, RulesAssumption DEF CodeOf, Migrators
    <2>3. \E last : MigrationCode[tool] = <<"supabase", last>>
      BY <1>9 DEF MigrationCode
    <2> QED
      BY <1>2, <2>2, <2>3
  <1>10. CASE tool \notin PaasClis \cup Migrators
    <2>1. CASE tool \in {"git", "bfg", "docker", "terraform", "tofu", "gcloud", "curl", "aws",
                         "psql", "mysql", "mariadb", "redis-cli", "supabase", "python", "python3", "prisma"}
      BY <1>4, <1>5, <1>6, <1>7, <1>10, <2>1, MigrationNames DEF CodeOf
    <2>2. CASE tool \in {"kubectl", "helm", "gsutil", "mongo", "mongosh", "mongodump", "mongorestore",
                         "az", "oci", "ibmcloud"}
      BY <1>1, <1>10, <2>2, MigrationNames DEF CodeOf, VerbCode, NounVerbCode
    <2>3. CASE tool = "knex"
      BY <1>2, <1>10, <2>3, MigrationNames DEF CodeOf
    <2>4. CASE tool \notin Ruled
      BY <1>10, <2>4, MigrationNames DEF CodeOf, Ruled
    <2> QED
      BY <1>10, <2>1, <2>2, <2>3, <2>4 DEF Ruled
  <1> QED
    BY <1>8, <1>9, <1>10

-----------------------------------------------------------------------------
(* What getopt reads, unfolded at the last word.                           *)

\* A set of numbers with 0 and with the successors of its members has all.
LEMMA AllNumbers ==
  ASSUME NEW S \in SUBSET Nat, 0 \in S, \A n \in Nat : n \in S => n + 1 \in S
  PROVE  S = Nat
  <1> SUFFICES ASSUME Nat \ S # {} PROVE FALSE
    OBVIOUS
  <1>1. Nat \ S \in SUBSET Nat
    OBVIOUS
  <1>2. PICK m \in Nat \ S : \A n \in Nat \ S : m <= n
    BY <1>1, Least
  <1>3. m # 0 /\ m - 1 \in Nat /\ m - 1 + 1 = m
    BY <1>2
  <1>4. m - 1 \notin S
    BY <1>3
  <1> QED
    BY <1>2, <1>3, <1>4

LEMMA ReadExists ==
  ASSUME NEW tool, NEW W, NEW line \in Seq(W)
  PROVE  \E f : /\ f = [i \in 0..Len(line) |-> IF i = 0 THEN Fresh ELSE ReadWord(tool, f[i - 1], line[i])]
                /\ Read(tool, line) = f[Len(line)]
  <1> DEFINE Rec(f, n) == f = [i \in 0..n |-> IF i = 0 THEN Fresh ELSE ReadWord(tool, f[i - 1], line[i])]
             S == {n \in Nat : \E f : Rec(f, n)}
  <1>1. 0 \in S
    <2> DEFINE f == [i \in 0..0 |-> Fresh]
    <2>1. Rec(f, 0)
      OBVIOUS
    <2> QED
      BY <2>1
  <1>2. ASSUME NEW n \in Nat, n \in S PROVE n + 1 \in S
    <2>1. PICK f : Rec(f, n)
      BY <1>2
    <2> DEFINE g == [i \in 0..(n + 1) |-> IF i <= n THEN f[i] ELSE ReadWord(tool, f[n], line[n + 1])]
    <2>2. ASSUME NEW i \in 0..(n + 1)
          PROVE  g[i] = IF i = 0 THEN Fresh ELSE ReadWord(tool, g[i - 1], line[i])
      <3>1. CASE i <= n
        BY <2>1, <3>1
      <3>2. CASE i = n + 1
        BY <3>2
      <3> QED
        BY <3>1, <3>2
    <2>3. Rec(g, n + 1)
      BY <2>2
    <2>4. n + 1 \in Nat
      OBVIOUS
    <2> HIDE DEF Rec, g
    <2>5. \E h : Rec(h, n + 1)
      BY <2>3
    <2> QED
      BY <2>4, <2>5
  <1> HIDE DEF S
  <1>3. S = Nat
    BY <1>1, <1>2, AllNumbers DEF S
  <1>4. Len(line) \in S
    BY <1>3, LenProperties
  <1>5. \E f : Rec(f, Len(line))
    BY <1>4 DEF S
  <1> DEFINE f == CHOOSE f : Rec(f, Len(line))
  <1>6. Rec(f, Len(line))
    BY <1>5
  <1>7. Read(tool, line) = f[Len(line)]
    BY DEF Read
  <1> QED
    BY <1>6, <1>7

LEMMA ReadNothing ==
  ASSUME NEW tool
  PROVE  Read(tool, <<>>) = Fresh
  <1>1. <<>> \in Seq({0}) /\ Len(<<>>) = 0
    OBVIOUS
  <1>2. PICK f : /\ f = [i \in 0..Len(<<>>) |-> IF i = 0 THEN Fresh ELSE ReadWord(tool, f[i - 1], <<>>[i])]
                 /\ Read(tool, <<>>) = f[Len(<<>>)]
    BY <1>1, ReadExists
  <1> QED
    BY <1>1, <1>2

LEMMA ReadAppend ==
  ASSUME NEW tool, NEW W, NEW line \in Seq(W), NEW word \in W
  PROVE  Read(tool, Append(line, word)) = ReadWord(tool, Read(tool, line), word)
  <1> DEFINE more == Append(line, word)
  <1>1. /\ more \in Seq(W) /\ Len(line) \in Nat /\ Len(more) = Len(line) + 1
        /\ more[Len(line) + 1] = word
        /\ \A i \in 1..Len(line) : more[i] = line[i]
    BY OneMore
  <1> HIDE DEF more
  <1>2. PICK f : /\ f = [i \in 0..Len(line) |-> IF i = 0 THEN Fresh ELSE ReadWord(tool, f[i - 1], line[i])]
                 /\ Read(tool, line) = f[Len(line)]
    BY ReadExists
  <1>3. PICK g : /\ g = [i \in 0..Len(more) |-> IF i = 0 THEN Fresh ELSE ReadWord(tool, g[i - 1], more[i])]
                 /\ Read(tool, more) = g[Len(more)]
    BY <1>1, ReadExists
  <1> DEFINE S == {n \in Nat : n <= Len(line) => f[n] = g[n]}
  <1>4. 0 \in S
    BY <1>1, <1>2, <1>3
  <1>5. ASSUME NEW n \in Nat, n \in S PROVE n + 1 \in S
    <2> SUFFICES ASSUME n + 1 <= Len(line) PROVE f[n + 1] = g[n + 1]
      OBVIOUS
    <2>1. f[n] = g[n]
      BY <1>1, <1>5
    <2>2. f[n + 1] = ReadWord(tool, f[n], line[n + 1])
      BY <1>1, <1>2
    <2>3. g[n + 1] = ReadWord(tool, g[n], more[n + 1])
      BY <1>1, <1>3
    <2> QED
      BY <1>1, <2>1, <2>2, <2>3
  <1> HIDE DEF S
  <1>6. S = Nat
    BY <1>4, <1>5, AllNumbers DEF S
  <1>7. f[Len(line)] = g[Len(line)]
    BY <1>1, <1>6 DEF S
  <1>8. g[Len(more)] = ReadWord(tool, g[Len(line)], word)
    BY <1>1, <1>3
  <1> QED
    BY <1>2, <1>3, <1>7, <1>8 DEF more

-----------------------------------------------------------------------------
(* The four things that getopt does with a word.                           *)

WellCut(W) ==
  \A word \in W : word \in Seq(STRING) /\ (Len(word) > 2 /\ Head(word) = "--" => word[3] = "=")

Text == STRING \cup {"-"}

Reads(W) ==
  [options : SUBSET Seq(Text), values : Seq([option : Seq(Text), value : Seq(STRING)]),
   wants : SUBSET Seq(Text), literal : BOOLEAN, operands : Seq(W), paths : SUBSET W]

TakesWord(r, s, word) ==
  /\ r.wants # {} /\ s.wants = {}
  /\ s.values = Append(r.values, [option |-> CHOOSE o \in r.wants : TRUE, value |-> word])
  /\ s.options = r.options /\ s.literal = r.literal /\ s.operands = r.operands /\ s.paths = r.paths

EndsOptions(r, s, word) ==
  /\ r.wants = {} /\ ~r.literal /\ word = <<"--">> /\ s.literal = TRUE
  /\ s.wants = {} /\ s.values = r.values /\ s.options = r.options /\ s.operands = r.operands /\ s.paths = r.paths

Takers(tool, r) == IF tool = "git" /\ r.operands # <<>> THEN {} ELSE TakesValue[tool]

OptionsOf(word, takers) ==
  IF Head(word) = "--" THEN {word} ELSE {Short(word[i]) : i \in 2..LastLetter(word, takers)}

GivesOption(tool, r, s, word) ==
  /\ r.wants = {} /\ ~r.literal /\ OptionWord(word)
  /\ s.options = r.options \cup OptionsOf(word, Takers(tool, r))
  /\ s.wants = Awaited(word, Takers(tool, r))
  /\ s.values = Append(r.values, Glued(word, Takers(tool, r)))
  /\ s.literal = r.literal /\ s.operands = r.operands /\ s.paths = r.paths

AddsOperand(r, s, word) ==
  /\ r.wants = {} /\ s.wants = {}
  /\ s.operands = Append(r.operands, word)
  /\ s.paths = IF r.literal THEN r.paths \cup {word} ELSE r.paths
  /\ OptionWord(word) => r.literal
  /\ s.values = r.values /\ s.options = r.options /\ s.literal = r.literal

LEMMA PrefixMeans ==
  ASSUME NEW S, NEW s \in Seq(S), NEW t \in Seq(S)
  PROVE  IsPrefix(s, t) <=> Len(s) <= Len(t) /\ \A i \in 1..Len(s) : s[i] = t[i]
  <1>1. Len(s) \in Nat /\ Len(t) \in Nat
    BY LenProperties
  <1>2. SubSeq(s, 1, Len(s)) = s
    BY SubSeqFull
  <1> SUFFICES ASSUME Len(s) <= Len(t)
               PROVE  s = SubSeq(t, 1, Len(s)) <=> \A i \in 1..Len(s) : s[i] = t[i]
    BY <1>1, <1>2 DEF IsPrefix
  <1> DEFINE u == SubSeq(t, 1, Len(s))
  <1>3. u \in Seq(S) /\ Len(u) = Len(s) /\ \A i \in 1..Len(s) : u[i] = t[i]
    <2>1. /\ u \in Seq(S) /\ Len(u) = IF 1 <= Len(s) THEN Len(s) - 1 + 1 ELSE 0
          /\ \A i \in 1..(Len(s) - 1 + 1) : u[i] = t[1 + i - 1]
      BY <1>1, SubSeqProperties
    <2> HIDE DEF u
    <2> QED
      BY <1>1, <2>1
  <1> HIDE DEF u
  <1>4. (\A i \in 1..Len(s) : s[i] = u[i]) => s = u
    BY <1>3, SeqEqual
  <1> QED
    BY <1>3, <1>4 DEF u

\* A prefix of up to three pieces.
LEMMA PrefixOf ==
  ASSUME NEW word \in Seq(STRING)
  PROVE  /\ Len(word) \in Nat /\ (Len(word) > 0 => Head(word) = word[1] /\ word # <<>>)
         /\ \A a : IsPrefix(<<a>>, word) <=> Len(word) > 0 /\ word[1] = a
         /\ \A a, b : IsPrefix(<<a, b>>, word) <=> Len(word) > 1 /\ word[1] = a /\ word[2] = b
         /\ \A a, b, c : IsPrefix(<<a, b, c>>, word) <=> Len(word) > 2 /\ word[1] = a /\ word[2] = b /\ word[3] = c
  <1>1. Len(word) \in Nat /\ (Len(word) > 0 => Head(word) = word[1] /\ word # <<>>)
    BY LenProperties
  <1>2. ASSUME NEW a, NEW b, NEW c
        PROVE  /\ IsPrefix(<<a>>, word) <=> Len(word) > 0 /\ word[1] = a
               /\ IsPrefix(<<a, b>>, word) <=> Len(word) > 1 /\ word[1] = a /\ word[2] = b
               /\ IsPrefix(<<a, b, c>>, word) <=> Len(word) > 2 /\ word[1] = a /\ word[2] = b /\ word[3] = c
    <2> DEFINE S == STRING \cup {a, b, c}
    <2>1. word \in Seq(S)
      <3>1. STRING \subseteq S
        OBVIOUS
      <3> HIDE DEF S
      <3> QED
        BY <3>1, SeqMonotonic
    <2>2. a \in S /\ b \in S /\ c \in S
      OBVIOUS
    <2> HIDE DEF S
    <2>3. <<a>> \in Seq(S) /\ <<a, b>> \in Seq(S) /\ <<a, b, c>> \in Seq(S)
      BY <2>2
    <2>4. IsPrefix(<<a>>, word) <=> Len(word) > 0 /\ word[1] = a
      <3> DEFINE s == <<a>>
      <3>1. s \in Seq(S) /\ Len(s) = 1 /\ s[1] = a
        BY <2>3
      <3> HIDE DEF s
      <3>0. s \in Seq(S)
        BY <3>1
      <3>2. IsPrefix(s, word) <=> Len(s) <= Len(word) /\ \A i \in 1..Len(s) : s[i] = word[i]
        BY <2>1, <3>0, PrefixMeans
      <3>3. IsPrefix(s, word) <=> 1 <= Len(word) /\ s[1] = word[1]
        BY <3>1, <3>2
      <3> QED
        BY <1>1, <3>1, <3>3 DEF s
    <2>5. IsPrefix(<<a, b>>, word) <=> Len(word) > 1 /\ word[1] = a /\ word[2] = b
      <3> DEFINE s == <<a, b>>
      <3>1. s \in Seq(S) /\ Len(s) = 2 /\ s[1] = a /\ s[2] = b
        BY <2>3
      <3> HIDE DEF s
      <3>0. s \in Seq(S)
        BY <3>1
      <3>2. IsPrefix(s, word) <=> Len(s) <= Len(word) /\ \A i \in 1..Len(s) : s[i] = word[i]
        BY <2>1, <3>0, PrefixMeans
      <3>3. IsPrefix(s, word) <=> 2 <= Len(word) /\ s[1] = word[1] /\ s[2] = word[2]
        BY <3>1, <3>2
      <3> QED
        BY <1>1, <3>1, <3>3 DEF s
    <2>6. IsPrefix(<<a, b, c>>, word) <=> Len(word) > 2 /\ word[1] = a /\ word[2] = b /\ word[3] = c
      <3> DEFINE s == <<a, b, c>>
      <3>1. s \in Seq(S) /\ Len(s) = 3 /\ s[1] = a /\ s[2] = b /\ s[3] = c
        BY <2>3
      <3> HIDE DEF s
      <3>0. s \in Seq(S)
        BY <3>1
      <3>2. IsPrefix(s, word) <=> Len(s) <= Len(word) /\ \A i \in 1..Len(s) : s[i] = word[i]
        BY <2>1, <3>0, PrefixMeans
      <3>3. IsPrefix(s, word) <=> 3 <= Len(word) /\ s[1] = word[1] /\ s[2] = word[2] /\ s[3] = word[3]
        BY <3>1, <3>2
      <3> QED
        BY <1>1, <3>1, <3>3 DEF s
    <2> QED
      BY <2>4, <2>5, <2>6
  <1> QED
    BY <1>1, <1>2

LEMMA DashFacts ==
  ASSUME NEW word \in Seq(STRING)
  PROVE  /\ Dashed(word) <=> Len(word) > 0 /\ word[1] \in {"-", "--"}
         /\ Len(word) \in Nat /\ (Len(word) > 0 => Head(word) = word[1] /\ word # <<>>)
  BY PrefixOf DEF Dashed

\* Where a bundle ends.
LEMMA LetterFacts ==
  ASSUME NEW word \in Seq(STRING), Len(word) > 1, NEW takers
  PROVE  LET last == LastLetter(word, takers) IN
         /\ last \in 2..Len(word) /\ (last = Len(word) \/ Short(word[last]) \in takers)
         /\ \A i \in 2..Len(word) : Short(word[i]) \in takers => last <= i
         /\ Len(word) = 2 => last = 2
  <1> DEFINE S == {i \in 2..Len(word) : i = Len(word) \/ Short(word[i]) \in takers}
  <1>1. Len(word) \in Nat
    BY LenProperties
  <1>2. S \in SUBSET Nat /\ Len(word) \in S
    BY <1>1
  <1>3. Min(S) \in S /\ \A n \in S : Min(S) <= n
    <2> HIDE DEF S
    <2> QED
      BY <1>2, Least
  <1>4. LastLetter(word, takers) = Min(S)
    BY DEF LastLetter
  <1>5. Min(S) \in 2..Len(word) /\ (Min(S) = Len(word) \/ Short(word[Min(S)]) \in takers)
    BY <1>3
  <1>6. \A i \in 2..Len(word) : Short(word[i]) \in takers => Min(S) <= i
    BY <1>3
  <1>7. Len(word) = 2 => Min(S) = 2
    BY <1>5
  <1> HIDE DEF S
  <1> QED
    BY <1>4, <1>5, <1>6, <1>7

\* What a word of options may be.
LEMMA OptionTypes ==
  ASSUME NEW word \in Seq(STRING), OptionWord(word), NEW takers
  PROVE  /\ OptionsOf(word, takers) \in SUBSET Seq(Text)
         /\ Awaited(word, takers) \in SUBSET (Seq(Text) \cap takers)
         /\ Glued(word, takers) \in [option : Seq(Text), value : Seq(STRING)]
  <1> DEFINE last == LastLetter(word, takers)
  <1>1. Len(word) \in Nat /\ 1 < Len(word) /\ last \in 2..Len(word)
    BY LetterFacts, LenProperties DEF OptionWord
  <1> HIDE DEF last
  <1>2. STRING \subseteq Text /\ "-" \in Text
    BY DEF Text
  <1>3. word \in Seq(Text) /\ SubSeq(word, 1, 2) \in Seq(Text)
    <2> HIDE DEF Text
    <2>1. word \in Seq(Text)
      BY <1>2, SeqMonotonic
    <2> QED
      BY <1>1, <2>1, SubSeqProperties
  <1>4. \A i \in 2..Len(word) : Short(word[i]) \in Seq(Text)
    <2> TAKE i \in 2..Len(word)
    <2>1. i \in 1..Len(word)
      BY <1>1
    <2>2. word[i] \in STRING
      BY <2>1, ElementOfSeq
    <2>3. word[i] \in Text
      BY <1>2, <2>2
    <2> QED
      BY <1>2, <2>3 DEF Short
  <1>5. SubSeq(word, 4, Len(word)) \in Seq(STRING)
    BY <1>1, SubSeqProperties
  <1>6. SubSeq(word, last + 1, Len(word)) \in Seq(STRING)
    BY <1>1, SubSeqProperties
  <1>7. OptionsOf(word, takers) \in SUBSET Seq(Text)
    BY <1>1, <1>3, <1>4 DEF OptionsOf, last
  <1>8. Awaited(word, takers) \in SUBSET (Seq(Text) \cap takers)
    BY <1>1, <1>3, <1>4 DEF Awaited
  <1>9. Glued(word, takers) \in [option : Seq(Text), value : Seq(STRING)]
    <2>1. Short(word[last]) \in Seq(Text)
      BY <1>1, <1>4
    <2>2. Glued(word, takers) =
            IF Head(word) = "--" THEN [option |-> SubSeq(word, 1, 2), value |-> SubSeq(word, 4, Len(word))]
            ELSE [option |-> Short(word[last]), value |-> SubSeq(word, last + 1, Len(word))]
      BY DEF Glued, last
    <2> QED
      BY <1>3, <1>5, <1>6, <2>1, <2>2
  <1> QED
    BY <1>7, <1>8, <1>9

LEMMA ReadSteps ==
  ASSUME NEW tool, NEW W, WellCut(W), NEW r \in Reads(W), NEW word \in W
  PROVE  LET s == ReadWord(tool, r, word) IN
         /\ s \in Reads(W)
         /\ TakesWord(r, s, word) \/ EndsOptions(r, s, word) \/ GivesOption(tool, r, s, word) \/ AddsOperand(r, s, word)
  <1> DEFINE s == ReadWord(tool, r, word)
  <1> SUFFICES /\ s \in Reads(W)
               /\ TakesWord(r, s, word) \/ EndsOptions(r, s, word) \/ GivesOption(tool, r, s, word) \/ AddsOperand(r, s, word)
    OBVIOUS
  <1>0. word \in Seq(STRING) /\ \A o \in W : o \in Seq(STRING)
    BY DEF WellCut
  <1>1. CASE r.wants # {}
    <2> DEFINE v == [option |-> CHOOSE o \in r.wants : TRUE, value |-> word]
    <2>1. s = [r EXCEPT !.wants = {}, !.values = Append(r.values, v)]
      BY <1>1 DEF ReadWord
    <2>2. v \in [option : Seq(Text), value : Seq(STRING)]
      BY <1>0, <1>1 DEF Reads
    <2> HIDE DEF v, s
    <2>3. Append(r.values, v) \in Seq([option : Seq(Text), value : Seq(STRING)])
      BY <2>2 DEF Reads
    <2>4. TakesWord(r, s, word)
      BY <1>1, <2>1 DEF TakesWord, Reads, v
    <2> QED
      BY <2>1, <2>3, <2>4 DEF Reads
  <1>2. CASE r.wants = {} /\ ~r.literal /\ word = <<"--">>
    <2>1. s = [r EXCEPT !.literal = TRUE]
      BY <1>2 DEF ReadWord
    <2> HIDE DEF s
    <2> QED
      BY <1>2, <2>1 DEF Reads, EndsOptions
  <1>3. CASE r.wants = {} /\ ~r.literal /\ word # <<"--">> /\ OptionWord(word)
    <2> DEFINE takers == Takers(tool, r)
               options == r.options \cup OptionsOf(word, takers)
               wants == Awaited(word, takers)
               v == Glued(word, takers)
    <2>1. s = [r EXCEPT !.options = options, !.wants = wants, !.values = Append(r.values, v)]
      BY <1>3 DEF ReadWord, Takers, OptionsOf
    <2>2. /\ OptionsOf(word, takers) \in SUBSET Seq(Text) /\ wants \in SUBSET Seq(Text)
          /\ v \in [option : Seq(Text), value : Seq(STRING)]
      <3> HIDE DEF takers
      <3> QED
        BY <1>0, <1>3, OptionTypes
    <2> HIDE DEF s, takers, wants, v
    <2>3. options \in SUBSET Seq(Text)
      BY <2>2 DEF Reads
    <2> HIDE DEF options
    <2>4. Append(r.values, v) \in Seq([option : Seq(Text), value : Seq(STRING)])
      BY <2>2 DEF Reads
    <2>5. s.options = options /\ s.wants = wants /\ s.values = Append(r.values, v)
          /\ s.literal = r.literal /\ s.operands = r.operands /\ s.paths = r.paths
      BY <2>1 DEF Reads
    <2>6. GivesOption(tool, r, s, word)
      BY <1>3, <2>5 DEF GivesOption, options, wants, v, takers
    <2> QED
      BY <2>1, <2>2, <2>3, <2>4, <2>6 DEF Reads
  <1>4. CASE r.wants = {} /\ (r.literal \/ (word # <<"--">> /\ ~OptionWord(word)))
    <2>1. s = [r EXCEPT !.operands = Append(r.operands, word),
                        !.paths = IF r.literal THEN r.paths \cup {word} ELSE r.paths]
      BY <1>4 DEF ReadWord
    <2> HIDE DEF s
    <2>2. Append(r.operands, word) \in Seq(W)
      BY DEF Reads
    <2>3. AddsOperand(r, s, word)
      BY <1>4, <2>1 DEF AddsOperand, Reads
    <2> QED
      BY <2>1, <2>2, <2>3 DEF Reads
  <1>5. r.literal \in BOOLEAN
    BY DEF Reads
  <1> QED
    BY <1>1, <1>2, <1>3, <1>4, <1>5

-----------------------------------------------------------------------------
(* What has been read of a command, word by word.                          *)

Step(tool, r, s, word) ==
  TakesWord(r, s, word) \/ EndsOptions(r, s, word) \/ GivesOption(tool, r, s, word) \/ AddsOperand(r, s, word)

\* A word that awaits a value.
Waits(tool, word) == OptionWord(word) /\ Awaited(word, TakesValue[tool]) # {}

LEMMA WaitsMean ==
  ASSUME NEW tool, NEW r, NEW s, NEW word, Step(tool, r, s, word), s.wants # {}
  PROVE  /\ Waits(tool, word) /\ Dashed(word) /\ s.wants = Awaited(word, TakesValue[tool])
         /\ tool = "git" => r.operands = <<>>
  <1>1. GivesOption(tool, r, s, word)
    BY DEF Step, TakesWord, EndsOptions, AddsOperand
  <1>2. s.wants = Awaited(word, Takers(tool, r)) /\ OptionWord(word) /\ Dashed(word)
    BY <1>1 DEF GivesOption, OptionWord
  <1>3. Takers(tool, r) # {}
    BY <1>2 DEF Awaited
  <1>4. Takers(tool, r) = TakesValue[tool] /\ (tool = "git" => r.operands = <<>>)
    BY <1>3 DEF Takers
  <1> QED
    BY <1>2, <1>4 DEF Waits

\* A value is awaited by the last word only.
Awaits(tool, line, r) ==
  r.wants # {} =>
    /\ line # <<>> /\ Waits(tool, line[Len(line)])
    /\ r.wants = Awaited(line[Len(line)], TakesValue[tool])

LEMMA AwaitsMore ==
  ASSUME NEW tool, NEW W, NEW line \in Seq(W), NEW word \in W, NEW r, NEW s, Step(tool, r, s, word)
  PROVE  Awaits(tool, Append(line, word), s)
  <1>1. /\ Append(line, word) # <<>> /\ Append(line, word)[Len(Append(line, word))] = word
    BY OneMore
  <1>2. s.wants # {} => Waits(tool, word) /\ s.wants = Awaited(word, TakesValue[tool])
    BY WaitsMean
  <1> QED
    BY <1>1, <1>2 DEF Awaits

\* Options are words, or letters of a bundle.
OptionsRead(line, r) ==
  \A o \in r.options :
    \/ o \in ToSet(line) /\ Head(o) = "--"
    \/ \E word \in ToSet(line) : \E letter \in ToSet(Tail(word)) :
         o = Short(letter) /\ Len(word) > 1 /\ Head(word) = "-"

LEMMA OptionsMore ==
  ASSUME NEW tool, NEW W, WellCut(W), NEW line \in Seq(W), NEW word \in W, NEW r, NEW s,
         Step(tool, r, s, word), OptionsRead(line, r)
  PROVE  OptionsRead(Append(line, word), s)
  <1>1. ToSet(Append(line, word)) = ToSet(line) \cup {word}
    BY OneMore
  <1>2. CASE s.options = r.options
    BY <1>1, <1>2 DEF OptionsRead
  <1>3. CASE GivesOption(tool, r, s, word)
    <2> DEFINE last == LastLetter(word, Takers(tool, r))
    <2>1. word \in Seq(STRING) /\ Len(word) \in Nat /\ Len(word) > 1 /\ Head(word) \in {"-", "--"}
      BY <1>3, DashFacts DEF GivesOption, WellCut, OptionWord
    <2>2. s.options = r.options \cup OptionsOf(word, Takers(tool, r))
      BY <1>3 DEF GivesOption
    <2>3. last \in 2..Len(word)
      BY <2>1, LetterFacts
    <2> HIDE DEF last
    <2>4. \A i \in 2..last : word[i] \in ToSet(Tail(word))
      <3> TAKE i \in 2..last
      <3>1. i - 1 \in 1..Len(Tail(word)) /\ Tail(word)[i - 1] = word[i] /\ DOMAIN Tail(word) = 1..Len(Tail(word))
        BY <2>1, <2>3
      <3> QED
        BY <3>1 DEF ToSet
    <2>5. \A o \in OptionsOf(word, Takers(tool, r)) :
            (o = word /\ Head(o) = "--") \/ \E letter \in ToSet(Tail(word)) : o = Short(letter) /\ Head(word) = "-"
      <3>1. CASE Head(word) = "--"
        BY <3>1 DEF OptionsOf
      <3>2. CASE Head(word) = "-"
        BY <2>4, <3>2 DEF OptionsOf, last
      <3> QED
        BY <2>1, <3>1, <3>2
    <2> QED
      BY <1>1, <2>1, <2>2, <2>5 DEF OptionsRead
  <1> QED
    BY <1>2, <1>3 DEF Step, TakesWord, EndsOptions, AddsOperand

\* Operands are words, in their order.
OperandsRead(line, r) ==
  /\ \A i \in 1..Len(r.operands) : r.operands[i] \in ToSet(line)
  /\ \A i, j \in 1..Len(r.operands) : i < j => InOrder(line, r.operands[i], r.operands[j])
  /\ r.paths # {} => r.literal
  /\ r.literal => <<"--">> \in ToSet(line)

LEMMA OperandsMore ==
  ASSUME NEW tool, NEW W, NEW line \in Seq(W), NEW word \in W, NEW r \in Reads(W), NEW s \in Reads(W),
         Step(tool, r, s, word), OperandsRead(line, r)
  PROVE  OperandsRead(Append(line, word), s)
  <1> DEFINE more == Append(line, word)
  <1>1. /\ ToSet(more) = ToSet(line) \cup {word}
        /\ \A first, second : InOrder(line, first, second) => InOrder(more, first, second)
    BY OneMore, Grown
  <1>2. \A first \in ToSet(line) : InOrder(more, first, word)
    <2> TAKE first \in ToSet(line)
    <2>1. /\ Len(line) \in Nat /\ DOMAIN line = 1..Len(line) /\ DOMAIN more = 1..(Len(line) + 1)
          /\ more[Len(line) + 1] = word /\ \A i \in 1..Len(line) : more[i] = line[i]
      BY OneMore
    <2>2. PICK i \in 1..Len(line) : line[i] = first
      BY <2>1 DEF ToSet
    <2> HIDE DEF more
    <2>3. i \in DOMAIN more /\ Len(line) + 1 \in DOMAIN more /\ i < Len(line) + 1
      BY <2>1
    <2> QED
      BY <2>1, <2>2, <2>3 DEF InOrder
  <1> HIDE DEF more
  <1>3. CASE s.operands = r.operands
    <2>1. s.paths = r.paths /\ (s.literal = r.literal \/ (s.literal /\ word = <<"--">>))
      <3>1. ~AddsOperand(r, s, word)
        <4> SUFFICES ASSUME s.operands = Append(r.operands, word) PROVE FALSE
          BY DEF AddsOperand
        <4>1. r.operands \in Seq(W)
          BY DEF Reads
        <4>2. Len(Append(r.operands, word)) = Len(r.operands) + 1 /\ Len(r.operands) \in Nat
          BY <4>1, OneMore
        <4> QED
          BY <1>3, <4>2
      <3> QED
        BY <3>1 DEF Step, TakesWord, EndsOptions, GivesOption
    <2> QED
      BY <1>1, <1>3, <2>1 DEF OperandsRead, more
  <1>4. CASE AddsOperand(r, s, word)
    <2>1. /\ s.operands = Append(r.operands, word) /\ s.literal = r.literal
          /\ s.paths = (IF r.literal THEN r.paths \cup {word} ELSE r.paths)
      BY <1>4 DEF AddsOperand
    <2>2. r.operands \in Seq(W)
      BY DEF Reads
    <2> DEFINE n == Len(r.operands)
    <2>3. /\ n \in Nat /\ Len(s.operands) = n + 1 /\ s.operands[n + 1] = word
          /\ \A i \in 1..n : s.operands[i] = r.operands[i]
      BY <2>1, <2>2, OneMore
    <2> HIDE DEF n
    <2>4. /\ \A i \in 1..n : r.operands[i] \in ToSet(line)
          /\ \A i, j \in 1..n : i < j => InOrder(line, r.operands[i], r.operands[j])
      BY DEF OperandsRead, n
    <2>5. \A i \in 1..(n + 1) : s.operands[i] \in ToSet(more)
      <3> TAKE i \in 1..(n + 1)
      <3>1. i \in 1..n \/ i = n + 1
        BY <2>3
      <3> QED
        BY <1>1, <2>3, <2>4, <3>1
    <2>6. ASSUME NEW i \in 1..(n + 1), NEW j \in 1..(n + 1), i < j
          PROVE  InOrder(more, s.operands[i], s.operands[j])
      <3>1. i \in 1..n /\ (j \in 1..n \/ j = n + 1)
        BY <2>3, <2>6
      <3>2. CASE j \in 1..n
        BY <1>1, <2>3, <2>4, <2>6, <3>1, <3>2
      <3>3. CASE j = n + 1
        BY <1>2, <2>3, <2>4, <3>1, <3>3
      <3> QED
        BY <3>1, <3>2, <3>3
    <2>7. /\ s.paths # {} => s.literal
          /\ s.literal => <<"--">> \in ToSet(more)
      BY <1>1, <2>1 DEF OperandsRead
    <2> QED
      BY <2>3, <2>5, <2>6, <2>7 DEF OperandsRead, more
  <1> QED
    BY <1>3, <1>4 DEF Step, TakesWord, EndsOptions, GivesOption

\* The options of which rules look for the value.
Asked == SqlOptions \cup {Short("X"), Long("request")}

\* One of some options is the last of several letters.
Hidden(tool, word, options) ==
  LET last == LastLetter(word, TakesValue[tool]) IN
  OptionWord(word) /\ Head(word) = "-" /\ last > 2 /\ Short(word[last]) \in options

\* A value is one that the code finds at the place of its option, or the
\* option is hidden in a bundle.
ValuesRead(tool, line, r) ==
  \A k \in 1..Len(r.values) :
    r.values[k].option \in Asked /\ r.values[k].value # <<>> =>
      \/ \E i \in 1..Len(line) : r.values[k].value \in ValueAt(line, i, r.values[k].option)
      \/ \E word \in ToSet(line) : Hidden(tool, word, {r.values[k].option})

\* And it is all or a part of a word.
PiecesRead(line, r) ==
  \A k \in 1..Len(r.values) :
    r.values[k].value # <<>> => \E word \in ToSet(line) : ToSet(r.values[k].value) \subseteq ToSet(word)

LEMMA ValueAtMore ==
  ASSUME NEW W, NEW line \in Seq(W), NEW word \in W, NEW option, NEW i \in 1..Len(line)
  PROVE  /\ ValueAt(line, i, option) \subseteq ValueAt(Append(line, word), i, option)
         /\ i = Len(line) /\ line[i] = option => ValueAt(Append(line, word), i, option) = {word}
  <1> DEFINE more == Append(line, word)
  <1>1. /\ Len(line) \in Nat /\ Len(more) = Len(line) + 1 /\ more[Len(line) + 1] = word
        /\ \A j \in 1..Len(line) : more[j] = line[j]
    BY OneMore
  <1> HIDE DEF more
  <1>2. more[i] = line[i] /\ i < Len(more) /\ i \in Nat
    BY <1>1
  <1>3. CASE line[i] = option
    <2>1. ValueAt(more, i, option) = {more[i + 1]}
      BY <1>2, <1>3, ValueFacts
    <2>2. ValueAt(line, i, option) = IF i < Len(line) THEN {line[i + 1]} ELSE {}
      BY <1>3, ValueFacts
    <2>3. i < Len(line) => more[i + 1] = line[i + 1]
      BY <1>1
    <2>4. i = Len(line) => more[i + 1] = word
      BY <1>1
    <2> QED
      BY <2>1, <2>2, <2>3, <2>4 DEF more
  <1>4. CASE line[i] # option
    <2> DEFINE there(at) == IF IsPrefix(Lead(option), at)
                            THEN {SubSeq(at, Len(Lead(option)) + 1, Len(at))} ELSE {}
    <2>1. ValueAt(line, i, option) = there(line[i])
      BY <1>4, ValueFacts
    <2>2. ValueAt(more, i, option) = there(more[i])
      BY <1>2, <1>4, ValueFacts
    <2> QED
      BY <1>2, <1>4, <2>1, <2>2 DEF more
  <1> QED
    BY <1>3, <1>4

LEMMA ThreePieces ==
  ASSUME NEW S, NEW a \in S, NEW b \in S, NEW c \in S
  PROVE  Append(<<a, b>>, c) = <<a, b, c>>
  <1> DEFINE s == <<a, b>>
             t == <<a, b, c>>
             u == Append(s, c)
  <1>1. s \in Seq(S) /\ t \in Seq(S) /\ Len(s) = 2 /\ Len(t) = 3 /\ s[1] = t[1] /\ s[2] = t[2] /\ t[3] = c
    OBVIOUS
  <1> HIDE DEF s, t
  <1>2. u \in Seq(S) /\ Len(u) = Len(s) + 1 /\ (\A i \in 1..Len(s) : u[i] = s[i]) /\ u[Len(s) + 1] = c
    <2>1. s \in Seq(S)
      BY <1>1
    <2> QED
      BY <2>1, AppendProperties
  <1> HIDE DEF u
  <1>3. Len(u) = 3 /\ u[1] = t[1] /\ u[2] = t[2] /\ u[3] = t[3]
    BY <1>1, <1>2
  <1>4. \A i \in 1..3 : u[i] = t[i]
    BY <1>3
  <1>5. u = t
    BY <1>1, <1>2, <1>3, <1>4, SeqEqual
  <1> QED
    BY <1>5 DEF s, t, u

LEMMA AskedFacts ==
  ASSUME NEW option \in Asked
  PROVE  /\ Len(option) = 2 /\ Head(option) = option[1] /\ option = <<option[1], option[2]>>
         /\ option[1] \in {"-", "--"}
         /\ Lead(option) = IF option[1] = "--" THEN <<option[1], option[2], "=">> ELSE <<option[1], option[2]>>
  <1>1. ASSUME NEW dash \in {"-", "--"}, NEW letters, option = <<dash, letters>>
        PROVE  /\ Len(option) = 2 /\ Head(option) = option[1] /\ option = <<option[1], option[2]>>
               /\ option[1] \in {"-", "--"}
               /\ Lead(option) = IF option[1] = "--" THEN <<option[1], option[2], "=">> ELSE <<option[1], option[2]>>
    <2>1. option[1] = dash /\ option[2] = letters /\ Len(option) = 2 /\ Head(option) = dash
      BY <1>1
    <2>2. Append(<<dash, letters>>, "=") = <<dash, letters, "=">>
      <3> DEFINE S == {dash, letters, "="}
      <3>1. dash \in S /\ letters \in S /\ "=" \in S
        OBVIOUS
      <3> HIDE DEF S
      <3> QED
        BY <3>1, ThreePieces
    <2> QED
      BY <1>1, <2>1, <2>2 DEF Lead
  <1>2. \E dash \in {"-", "--"} : \E letters : option = <<dash, letters>>
    BY DEF Asked, SqlOptions, Short, Long
  <1> QED
    BY <1>1, <1>2

\* A value that is glued to its option.
LEMMA GluedValue ==
  ASSUME NEW W, WellCut(W), NEW line \in Seq(W), NEW i \in 1..Len(line), NEW option \in Asked,
         LET word == line[i] IN
           /\ Len(word) > 1 /\ option[1] = word[1] /\ option[2] = word[2]
           /\ SubSeq(word, IF Head(word) = "--" THEN 4 ELSE 3, Len(word)) # <<>>
  PROVE  SubSeq(line[i], IF Head(line[i]) = "--" THEN 4 ELSE 3, Len(line[i])) \in ValueAt(line, i, option)
  <1> DEFINE word == line[i]
             from == IF Head(word) = "--" THEN 4 ELSE 3
             lead == Lead(option)
  <1>1. /\ word \in W /\ word \in Seq(STRING) /\ Len(word) \in Nat /\ Len(word) > 1 /\ Head(word) = word[1]
        /\ (Len(word) > 2 /\ Head(word) = "--" => word[3] = "=")
    <2>1. word \in W
      OBVIOUS
    <2> HIDE DEF word
    <2>2. word \in Seq(STRING) /\ (Len(word) > 2 /\ Head(word) = "--" => word[3] = "=")
      BY <2>1 DEF WellCut
    <2> QED
      BY <2>1, <2>2, PrefixOf DEF word
  <1>2. option[1] = word[1] /\ option[2] = word[2]
    OBVIOUS
  <1>3. Len(word) >= from
    <2>1. SubSeq(word, from, Len(word)) # <<>>
      OBVIOUS
    <2> SUFFICES ASSUME Len(word) < from PROVE FALSE
      BY <1>1
    <2> HIDE DEF word, from
    <2>2. from \in Int /\ Len(word) \in Int
      BY <1>1 DEF from
    <2> QED
      BY <2>1, <2>2, SubSeqEmpty
  <1> HIDE DEF word
  <1>4. /\ Len(option) = 2 /\ option = <<option[1], option[2]>> /\ option[1] \in {"-", "--"}
        /\ lead = IF option[1] = "--" THEN <<option[1], option[2], "=">> ELSE <<option[1], option[2]>>
    BY AskedFacts
  <1>5. Len(lead) + 1 = from /\ Len(word) > 2
    BY <1>1, <1>2, <1>3, <1>4
  <1>6. IsPrefix(lead, word)
    <2>1. CASE option[1] = "--"
      <3>1. IsPrefix(<<option[1], option[2], "=">>, word)
        BY <1>1, <1>2, <1>5, <2>1, PrefixOf
      <3> QED
        BY <1>4, <2>1, <3>1
    <2>2. CASE option[1] # "--"
      <3>1. IsPrefix(<<option[1], option[2]>>, word)
        BY <1>1, <1>2, <1>5, PrefixOf
      <3> QED
        BY <1>4, <2>2, <3>1
    <2> QED
      BY <2>1, <2>2
  <1>7. line[i] # option
    <2> SUFFICES ASSUME word = option PROVE FALSE
      BY DEF word
    <2>1. Len(word) = 2
      BY <1>4
    <2> QED
      BY <1>5, <2>1
  <1> HIDE DEF lead
  <1>8. ValueAt(line, i, option) = {SubSeq(word, Len(lead) + 1, Len(word))}
    <2>1. ValueAt(line, i, option) =
            IF IsPrefix(lead, line[i]) THEN {SubSeq(line[i], Len(lead) + 1, Len(line[i]))} ELSE {}
      BY <1>7, ValueFacts DEF lead
    <2> QED
      BY <1>6, <2>1 DEF word
  <1> QED
    BY <1>5, <1>8 DEF word

\* What an option word gives itself.
LEMMA GivenValue ==
  ASSUME NEW tool, NEW W, WellCut(W), NEW line \in Seq(W), NEW i \in 1..Len(line), OptionWord(line[i]),
         NEW takers \in {{}, TakesValue[tool]},
         NEW option \in Asked, NEW value, value # <<>>, Glued(line[i], takers) = [option |-> option, value |-> value]
  PROVE  value \in ValueAt(line, i, option) \/ Hidden(tool, line[i], {option})
  <1> DEFINE word == line[i]
             last == LastLetter(word, takers)
  <1>1. /\ word \in Seq(STRING) /\ Len(word) \in Nat /\ Len(word) > 1
        /\ Head(word) = word[1] /\ word[1] \in {"-", "--"}
    <2>1. word \in W
      OBVIOUS
    <2>2. word \in Seq(STRING)
      BY <2>1 DEF WellCut
    <2> QED
      BY <2>2, DashFacts DEF OptionWord
  <1> HIDE DEF word
  <1>2. /\ last \in 2..Len(word) /\ (last = Len(word) \/ Short(word[last]) \in takers)
    BY <1>1, LetterFacts
  <1> HIDE DEF last
  <1>3. Glued(word, takers) =
          IF Head(word) = "--" THEN [option |-> SubSeq(word, 1, 2), value |-> SubSeq(word, 4, Len(word))]
          ELSE [option |-> Short(word[last]), value |-> SubSeq(word, last + 1, Len(word))]
    BY DEF Glued, last
  <1>4. Glued(word, takers) = [option |-> option, value |-> value] /\ OptionWord(word)
    BY DEF word
  <1>5. CASE Head(word) = "--"
    <2>1. option = SubSeq(word, 1, 2) /\ value = SubSeq(word, 4, Len(word))
      BY <1>3, <1>4, <1>5
    <2>2. SubSeq(word, 1, 2)[1] = word[1] /\ SubSeq(word, 1, 2)[2] = word[2]
      BY <1>1
    <2>3. option[1] = word[1] /\ option[2] = word[2]
      BY <2>1, <2>2
    <2> QED
      BY <1>1, <1>5, <2>1, <2>3, GluedValue DEF word
  <1>6. CASE Head(word) = "-"
    <2>1. option = Short(word[last]) /\ value = SubSeq(word, last + 1, Len(word))
      BY <1>3, <1>4, <1>6
    <2>2. last # Len(word)
      <3> SUFFICES ASSUME last = Len(word) PROVE FALSE
        OBVIOUS
      <3>1. last + 1 \in Int /\ Len(word) \in Int /\ Len(word) < last + 1
        BY <1>1
      <3> QED
        BY <2>1, <3>1, SubSeqEmpty
    <2>3. takers = TakesValue[tool]
      BY <1>2, <2>2
    <2>4. CASE last = 2
      <3>1. option[1] = word[1] /\ option[2] = word[2]
        BY <1>1, <1>6, <2>1, <2>4 DEF Short
      <3>2. value = SubSeq(word, 3, Len(word))
        BY <2>1, <2>4
      <3> QED
        BY <1>1, <1>6, <3>1, <3>2, GluedValue DEF word
    <2>5. CASE last # 2
      <3>1. last > 2
        BY <1>2, <2>5
      <3> QED
        BY <1>4, <1>6, <2>1, <2>3, <3>1 DEF Hidden, last, word
    <2> QED
      BY <2>4, <2>5
  <1> QED
    BY <1>1, <1>5, <1>6

\* What an option word takes of the next word.
LEMMA AwaitedValue ==
  ASSUME NEW tool, NEW W, WellCut(W), NEW line \in Seq(W), line # <<>>, NEW word \in W,
         Waits(tool, line[Len(line)]), NEW o \in Awaited(line[Len(line)], TakesValue[tool])
  PROVE  /\ Len(line) \in 1..Len(line)
         /\ ValueAt(Append(line, word), Len(line), o) = {word} \/ Hidden(tool, line[Len(line)], {o})
  <1> DEFINE n == Len(line)
             at == line[n]
             last == LastLetter(at, TakesValue[tool])
  <1>1. n \in 1..n
    BY EmptySeq, LenProperties
  <1>2. at = o => ValueAt(Append(line, word), n, o) = {word}
    <2>1. n = Len(line) /\ n \in 1..Len(line)
      BY <1>1
    <2> HIDE DEF n
    <2> QED
      BY <2>1, ValueAtMore
  <1>3. at \in W
    BY <1>1
  <1> HIDE DEF at, n
  <1>4. at \in Seq(STRING) /\ Len(at) \in Nat /\ Len(at) > 1 /\ Head(at) = at[1] /\ at[1] \in {"-", "--"}
    <2>1. at \in Seq(STRING)
      BY <1>3 DEF WellCut
    <2> QED
      BY <2>1, DashFacts DEF Waits, OptionWord, at, n
  <1>5. last \in 2..Len(at)
    BY <1>4, LetterFacts
  <1>6. CASE Head(at) = "--"
    BY <1>1, <1>2, <1>6 DEF Awaited, at, n
  <1>7. CASE Head(at) = "-"
    <2>1. last = Len(at) /\ o = Short(at[Len(at)])
      BY <1>7 DEF Awaited, at, n
    <2>2. CASE Len(at) = 2
      <3>1. o = <<"-", at[2]>>
        BY <2>1, <2>2 DEF Short
      <3>2. at \in Seq(Text) /\ "-" \in Text /\ at[2] \in Text
        <4>1. STRING \subseteq Text /\ "-" \in Text
          BY DEF Text
        <4>2. at \in Seq(Text)
          BY <1>4, <4>1, SeqMonotonic
        <4>3. 2 \in 1..Len(at)
          BY <2>2
        <4> HIDE DEF at, n
        <4>4. at[2] \in STRING
          BY <1>4, <4>3, ElementOfSeq
        <4> QED
          BY <4>1, <4>2, <4>4
      <3>3. at = <<"-", at[2]>>
        <4> DEFINE t == <<"-", at[2]>>
        <4>1. t \in Seq(Text) /\ Len(t) = 2 /\ t[1] = "-" /\ t[2] = at[2]
          BY <3>2
        <4> HIDE DEF t
        <4>2. \A i \in 1..2 : at[i] = t[i]
          BY <1>4, <1>7, <4>1
        <4>3. at = t
          BY <2>2, <3>2, <4>1, <4>2, SeqEqual
        <4> QED
          BY <4>3 DEF t
      <3> QED
        BY <1>1, <1>2, <3>1, <3>3 DEF n
    <2>3. CASE Len(at) # 2
      <3>1. last > 2
        BY <1>4, <1>5, <2>1, <2>3
      <3>2. OptionWord(at)
        BY DEF Waits, at, n
      <3>3. Hidden(tool, at, {o})
        BY <1>7, <2>1, <3>1, <3>2 DEF Hidden
      <3> QED
        BY <1>1, <3>3 DEF at, n
    <2> QED
      BY <2>2, <2>3
  <1> QED
    BY <1>4, <1>6, <1>7

\* The value that a word adds.
Added(tool, line, word, r, s, v) ==
  /\ s.values = Append(r.values, v)
  /\ v.value # <<>> => ToSet(v.value) \subseteq ToSet(word)
  /\ v.option \in Asked /\ v.value # <<>> =>
       \/ \E i \in 1..Len(Append(line, word)) : v.value \in ValueAt(Append(line, word), i, v.option)
       \/ \E w \in ToSet(Append(line, word)) : Hidden(tool, w, {v.option})

LEMMA ValueAdded ==
  ASSUME NEW tool, NEW W, WellCut(W), NEW line \in Seq(W), NEW word \in W, NEW r \in Reads(W), NEW s \in Reads(W),
         Step(tool, r, s, word), Awaits(tool, line, r), s.values # r.values
  PROVE  \E v : Added(tool, line, word, r, s, v)
  <1> DEFINE more == Append(line, word)
  <1>1. /\ more \in Seq(W) /\ Len(line) \in Nat /\ Len(more) = Len(line) + 1 /\ more[Len(line) + 1] = word
        /\ DOMAIN line = 1..Len(line) /\ ToSet(more) = ToSet(line) \cup {word}
    BY OneMore
  <1> HIDE DEF more
  <1>2. CASE TakesWord(r, s, word)
    <2> DEFINE o == CHOOSE o \in r.wants : TRUE
               v == [option |-> o, value |-> word]
    <2>1. s.values = Append(r.values, v) /\ o \in r.wants
      BY <1>2 DEF TakesWord
    <2> HIDE DEF o
    <2>2. line # <<>> /\ Waits(tool, line[Len(line)]) /\ r.wants = Awaited(line[Len(line)], TakesValue[tool])
      BY <2>1 DEF Awaits
    <2>3. Len(line) \in 1..Len(line)
      BY <2>1, <2>2, AwaitedValue
    <2>4. ValueAt(more, Len(line), o) = {word} \/ Hidden(tool, line[Len(line)], {o})
      <3>1. o \in Awaited(line[Len(line)], TakesValue[tool]) /\ line # <<>> /\ Waits(tool, line[Len(line)])
        BY <2>1, <2>2
      <3> QED
        BY <3>1, AwaitedValue DEF more
    <2>5. Len(line) \in 1..Len(more) /\ line[Len(line)] \in ToSet(more)
      <3> DEFINE n == Len(line)
      <3>1. n \in Nat /\ Len(more) = n + 1 /\ n \in 1..n /\ n \in DOMAIN line
        BY <1>1, <2>3
      <3>2. line[n] \in ToSet(line)
        BY <3>1 DEF ToSet
      <3> HIDE DEF n
      <3>3. n \in 1..Len(more)
        BY <3>1
      <3> QED
        BY <1>1, <3>2, <3>3 DEF n
    <2>6. \/ \E i \in 1..Len(more) : v.value \in ValueAt(more, i, v.option)
          \/ \E w \in ToSet(more) : Hidden(tool, w, {v.option})
      BY <2>4, <2>5
    <2>7. ToSet(v.value) \subseteq ToSet(word)
      OBVIOUS
    <2> HIDE DEF v
    <2>8. Added(tool, line, word, r, s, v)
      BY <2>1, <2>6, <2>7 DEF more, Added
    <2> QED
      BY <2>8
  <1>3. CASE GivesOption(tool, r, s, word)
    <2> DEFINE takers == Takers(tool, r)
               v == Glued(word, takers)
               n == Len(line) + 1
    <2>1. s.values = Append(r.values, v) /\ OptionWord(word) /\ takers \in {{}, TakesValue[tool]}
      BY <1>3 DEF GivesOption, Takers
    <2> HIDE DEF takers
    <2>2. word \in Seq(STRING)
      BY DEF WellCut
    <2>3. v \in [option : Seq(Text), value : Seq(STRING)]
      BY <2>1, <2>2, OptionTypes
    <2>4. v = [option |-> v.option, value |-> v.value]
      BY <2>3
    <2>5. n \in 1..Len(more) /\ more[n] = word
      BY <1>1
    <2>6. ASSUME v.option \in Asked, v.value # <<>>
          PROVE  v.value \in ValueAt(more, n, v.option) \/ Hidden(tool, word, {v.option})
      <3> DEFINE option == v.option
                 value == v.value
      <3>1. Glued(more[n], takers) = [option |-> option, value |-> value] /\ option \in Asked /\ value # <<>>
        BY <2>4, <2>5, <2>6
      <3>2. OptionWord(more[n])
        BY <2>1, <2>5
      <3> HIDE DEF option, value, n
      <3>3. value \in ValueAt(more, n, option) \/ Hidden(tool, more[n], {option})
        BY <1>1, <2>1, <2>5, <3>1, <3>2, GivenValue
      <3> QED
        BY <2>5, <3>3 DEF option, value
    <2>7. ToSet(v.value) \subseteq ToSet(word)
      <3>1. \E from \in Nat \ {0} : v.value = SubSeq(word, from, Len(word))
        <4>1. Len(word) \in Nat /\ LastLetter(word, takers) \in 2..Len(word)
          BY <2>1, <2>2, LetterFacts, LenProperties DEF OptionWord
        <4>2. LastLetter(word, takers) + 1 \in Nat \ {0} /\ 4 \in Nat \ {0}
          BY <4>1
        <4> QED
          BY <4>2 DEF Glued
      <3>2. PICK from \in Nat \ {0} : v.value = SubSeq(word, from, Len(word))
        BY <3>1
      <3> HIDE DEF v
      <3>3. ASSUME NEW i \in DOMAIN v.value PROVE v.value[i] \in ToSet(word)
        <4> DEFINE m == Len(word)
        <4>1. m \in Nat /\ DOMAIN word = 1..m
          BY <2>2, LenProperties
        <4>2. /\ Len(v.value) = (IF from <= m THEN m - from + 1 ELSE 0)
              /\ \A k \in 1..(m - from + 1) : v.value[k] = word[from + k - 1]
              /\ v.value \in Seq(STRING)
          <5>1. CASE from <= m
            <6>1. from \in 1..m /\ m \in 1..m
              BY <4>1, <5>1
            <6>2. \A k \in from..m : word[k] \in STRING
              BY <2>2, <4>1
            <6> QED
              BY <2>2, <3>2, <4>1, <5>1, <6>1, <6>2, SubSeqProperties
          <5>2. CASE m < from
            <6>1. v.value = <<>>
              BY <3>2, <4>1, <5>2, SubSeqEmpty
            <6>2. DOMAIN <<>> = {}
              OBVIOUS
            <6> QED
              BY <3>3, <6>1, <6>2
          <5> QED
            BY <4>1, <5>1, <5>2
        <4>3. DOMAIN v.value = 1..Len(v.value)
          BY <4>2, LenProperties
        <4> HIDE DEF m
        <4>4. i \in 1..(m - from + 1)
          BY <3>3, <4>1, <4>2, <4>3
        <4>5. from + i - 1 \in 1..m /\ v.value[i] = word[from + i - 1]
          BY <4>1, <4>2, <4>4
        <4> QED
          BY <4>1, <4>5 DEF ToSet
      <3> QED
        BY <3>3 DEF ToSet
    <2> HIDE DEF v, n
    <2>8. word \in ToSet(more)
      BY <1>1
    <2>9. Added(tool, line, word, r, s, v)
      BY <2>1, <2>5, <2>6, <2>7, <2>8 DEF more, Added
    <2> QED
      BY <2>9
  <1> QED
    BY <1>2, <1>3 DEF Step, EndsOptions, AddsOperand

LEMMA ValuesMore ==
  ASSUME NEW tool, NEW W, WellCut(W), NEW line \in Seq(W), NEW word \in W, NEW r \in Reads(W), NEW s \in Reads(W),
         Step(tool, r, s, word), Awaits(tool, line, r), ValuesRead(tool, line, r), PiecesRead(line, r)
  PROVE  ValuesRead(tool, Append(line, word), s) /\ PiecesRead(Append(line, word), s)
  <1> DEFINE more == Append(line, word)
             n == Len(r.values)
             found(v) == v.option \in Asked /\ v.value # <<>> =>
                           \/ \E i \in 1..Len(more) : v.value \in ValueAt(more, i, v.option)
                           \/ \E w \in ToSet(more) : Hidden(tool, w, {v.option})
             cut(v) == v.value # <<>> => \E w \in ToSet(more) : ToSet(v.value) \subseteq ToSet(w)
  <1>1. /\ Len(line) \in Nat /\ Len(more) = Len(line) + 1 /\ ToSet(more) = ToSet(line) \cup {word}
    BY OneMore
  <1>2. ASSUME NEW k \in 1..n PROVE found(r.values[k]) /\ cut(r.values[k])
    <2>1. \A i \in 1..Len(line) : i \in 1..Len(more) /\
            ValueAt(line, i, r.values[k].option) \subseteq ValueAt(more, i, r.values[k].option)
      <3> HIDE DEF more
      <3> QED
        BY <1>1, ValueAtMore DEF more
    <2> HIDE DEF more
    <2>2. found(r.values[k])
      BY <1>1, <2>1 DEF ValuesRead
    <2>3. cut(r.values[k])
      BY <1>1 DEF PiecesRead
    <2> QED
      BY <2>2, <2>3
  <1> HIDE DEF found, cut, more
  <1>3. (\A k \in 1..Len(s.values) : found(s.values[k]) /\ cut(s.values[k]))
          => ValuesRead(tool, more, s) /\ PiecesRead(more, s)
    BY DEF found, cut, ValuesRead, PiecesRead
  <1>4. CASE s.values = r.values
    BY <1>2, <1>3, <1>4 DEF more
  <1>5. CASE s.values # r.values
    <2>1. PICK v : /\ s.values = Append(r.values, v)
                   /\ v.value # <<>> => ToSet(v.value) \subseteq ToSet(word)
                   /\ found(v)
      <3>1. PICK v : Added(tool, line, word, r, s, v)
        BY <1>5, ValueAdded
      <3> QED
        BY <3>1 DEF Added, found, more
    <2>2. cut(v)
      BY <1>1, <2>1 DEF cut
    <2>3. /\ n \in Nat /\ Len(s.values) = n + 1 /\ s.values[n + 1] = v
          /\ \A k \in 1..n : s.values[k] = r.values[k]
      <3>1. r.values \in Seq([option : Seq(Text), value : Seq(STRING)])
            /\ s.values \in Seq([option : Seq(Text), value : Seq(STRING)])
        BY DEF Reads
      <3>2. n \in Nat
        BY <3>1, LenProperties
      <3> QED
        BY <2>1, <3>1, <3>2
    <2> HIDE DEF n
    <2>4. \A k \in 1..(n + 1) : found(s.values[k]) /\ cut(s.values[k])
      <3> TAKE k \in 1..(n + 1)
      <3>1. k \in 1..n \/ k = n + 1
        BY <2>3
      <3> QED
        BY <1>2, <2>1, <2>2, <2>3, <3>1
    <2> QED
      BY <1>3, <2>3, <2>4 DEF more
  <1> QED
    BY <1>4, <1>5

-----------------------------------------------------------------------------
(* Where the rules find the first operand, and the second.                 *)

\* An option with its value stands before the first operand.
Early(tool, line) ==
  \E i \in 1..Len(line) : Waits(tool, line[i]) /\ \A j \in 1..i : Dashed(line[j])

\* One stands before the second, of which the first is target; but git has
\* no such options behind its verb.
Late(tool, line, target) ==
  \E i \in 1..Len(line) :
    Waits(tool, line[i]) /\ \A j \in 1..i : Dashed(line[j]) \/ (line[j] = target /\ tool # "git")

LEMMA EarlyMore ==
  ASSUME NEW tool, NEW W, NEW line \in Seq(W), NEW word \in W, NEW target
  PROVE  /\ Early(tool, line) => Early(tool, Append(line, word)) /\ Late(tool, line, target)
         /\ Late(tool, line, target) => Late(tool, Append(line, word), target)
         /\ Waits(tool, word) /\ Dashed(word) =>
              /\ (\A j \in 1..Len(line) : Dashed(line[j])) => Early(tool, Append(line, word))
              /\ (\A j \in 1..Len(line) : Dashed(line[j]) \/ (line[j] = target /\ tool # "git"))
                   => Late(tool, Append(line, word), target)
  <1> DEFINE more == Append(line, word)
             n == Len(line)
  <1>1. /\ n \in Nat /\ Len(more) = n + 1 /\ more[n + 1] = word
        /\ \A i \in 1..n : more[i] = line[i]
    BY OneMore
  <1> HIDE DEF more, n
  <1>2. \A i \in 1..n : i \in 1..Len(more) /\ \A j \in 1..i : j \in 1..n
    BY <1>1
  <1>3. Early(tool, line) => Early(tool, more) /\ Late(tool, line, target)
    BY <1>1, <1>2 DEF Early, Late, n
  <1>4. Late(tool, line, target) => Late(tool, more, target)
    BY <1>1, <1>2 DEF Late, n
  <1>5. ASSUME Waits(tool, word), Dashed(word)
        PROVE  /\ (\A j \in 1..n : Dashed(line[j])) => Early(tool, more)
               /\ (\A j \in 1..n : Dashed(line[j]) \/ (line[j] = target /\ tool # "git"))
                    => Late(tool, more, target)
    <2>1. n + 1 \in 1..Len(more) /\ \A j \in 1..(n + 1) : j \in 1..n \/ j = n + 1
      BY <1>1
    <2>2. Waits(tool, more[n + 1]) /\ Dashed(more[n + 1])
      BY <1>1, <1>5
    <2>3. ASSUME \A j \in 1..n : Dashed(line[j]) PROVE Early(tool, more)
      <3>1. \A j \in 1..(n + 1) : Dashed(more[j])
        BY <1>1, <2>1, <2>2, <2>3
      <3> QED
        BY <2>1, <2>2, <3>1 DEF Early
    <2>4. ASSUME \A j \in 1..n : Dashed(line[j]) \/ (line[j] = target /\ tool # "git")
          PROVE  Late(tool, more, target)
      <3>1. \A j \in 1..(n + 1) : Dashed(more[j]) \/ (more[j] = target /\ tool # "git")
        BY <1>1, <2>1, <2>2, <2>4
      <3> QED
        BY <2>1, <2>2, <3>1 DEF Late
    <2> QED
      BY <2>3, <2>4
  <1> QED
    BY <1>3, <1>4, <1>5 DEF more, n

\* The first word that is no option, behind options only.
LEMMA FirstAdded ==
  ASSUME NEW W, NEW line \in Seq(W), NEW word \in W, \A i \in 1..Len(line) : Dashed(line[i]), ~Dashed(word)
  PROVE  FirstNonFlag(Append(line, word)) = word
  <1> DEFINE more == Append(line, word)
             n == Len(line)
             J == {i \in 1..Len(more) : ~Dashed(more[i])}
  <1>1. /\ n \in Nat /\ Len(more) = n + 1 /\ more[n + 1] = word
        /\ \A i \in 1..n : more[i] = line[i]
    BY OneMore
  <1>2. FirstNonFlag(more) = IF (IF J # {} THEN Min(J) ELSE 0) = 0 THEN <<>>
                             ELSE more[IF J # {} THEN Min(J) ELSE 0]
    BY DEF FirstNonFlag, SelectInSeq
  <1>3. J = {n + 1}
    <2> HIDE DEF more
    <2>1. \A i \in 1..Len(more) : i \in 1..n \/ i = n + 1
      BY <1>1
    <2>2. n + 1 \in 1..Len(more)
      BY <1>1
    <2> QED
      BY <1>1, <2>1, <2>2
  <1>4. Min(J) = n + 1
    <2>1. J \in SUBSET Nat /\ J # {}
      BY <1>1, <1>3
    <2>2. Min(J) \in J
      BY <2>1, Least
    <2> QED
      BY <1>3, <2>2
  <1> HIDE DEF J, more, n
  <1> QED
    BY <1>1, <1>2, <1>3, <1>4 DEF more, n

\* Behind the first of some word, if there was none before.
LEMMA AfterAdded ==
  ASSUME NEW W, NEW line \in Seq(W), NEW word \in W, word \notin ToSet(line)
  PROVE  After(Append(line, word), word) = <<>> /\ word \in ToSet(Append(line, word))
  <1> DEFINE more == Append(line, word)
             n == Len(line)
             J == {i \in 1..Len(more) : more[i] = word}
  <1>1. /\ n \in Nat /\ Len(more) = n + 1 /\ more[n + 1] = word
        /\ DOMAIN line = 1..n /\ \A i \in 1..n : more[i] = line[i]
        /\ word \in ToSet(more)
    BY OneMore
  <1>2. After(more, word) = SubSeq(more, (IF J # {} THEN Min(J) ELSE 0) + 1, Len(more))
    BY DEF After, SelectInSeq
  <1>3. J = {n + 1}
    <2> HIDE DEF more
    <2>1. \A i \in 1..Len(more) : i \in 1..n \/ i = n + 1
      BY <1>1
    <2>2. n + 1 \in 1..Len(more)
      BY <1>1
    <2>3. \A i \in 1..n : more[i] # word
      BY <1>1 DEF ToSet
    <2> QED
      BY <1>1, <2>1, <2>2, <2>3
  <1>4. Min(J) = n + 1
    <2>1. J \in SUBSET Nat /\ J # {}
      BY <1>1, <1>3
    <2>2. Min(J) \in J
      BY <2>1, Least
    <2> QED
      BY <1>3, <2>2
  <1> HIDE DEF J, more, n
  <1>5. After(more, word) = SubSeq(more, n + 2, n + 1)
    <2>1. J # {} /\ Min(J) + 1 = n + 2
      BY <1>1, <1>3, <1>4
    <2>2. After(more, word) = SubSeq(more, Min(J) + 1, Len(more))
      BY <1>2, <1>4, <2>1
    <2> QED
      BY <1>1, <2>1, <2>2
  <1>6. SubSeq(more, n + 2, n + 1) = <<>>
    BY <1>1, SubSeqEmpty
  <1> QED
    BY <1>1, <1>5, <1>6 DEF more, n

FirstRead(tool, line, r) ==
  \/ Early(tool, line)
  \/ r.operands = <<>> /\ r.wants = {} /\ \A i \in 1..Len(line) : Dashed(line[i])
  \/ /\ r.operands # <<>>
     /\ tool = "git" => r.wants = {}
     /\ r.operands[1] = <<>> \/ Dashed(r.operands[1]) \/ FirstNonFlag(line) = r.operands[1]

\* Only an operand changes the operands.
LEMMA OperandsKept ==
  ASSUME NEW tool, NEW r, NEW s, NEW word, Step(tool, r, s, word), ~AddsOperand(r, s, word)
  PROVE  s.operands = r.operands
  BY DEF Step, TakesWord, EndsOptions, GivesOption

LEMMA FirstMore ==
  ASSUME NEW tool, NEW W, NEW line \in Seq(W), NEW word \in W, NEW r \in Reads(W), NEW s \in Reads(W),
         Step(tool, r, s, word), FirstRead(tool, line, r)
  PROVE  FirstRead(tool, Append(line, word), s)
  <1> DEFINE more == Append(line, word)
             n == Len(line)
  <1>1. /\ n \in Nat /\ Len(more) = n + 1 /\ more[n + 1] = word
        /\ \A i \in 1..n : more[i] = line[i]
    BY OneMore
  <1>2. r.operands \in Seq(W)
    BY DEF Reads
  <1> HIDE DEF more
  <1>3. CASE Early(tool, line)
    BY <1>3, EarlyMore DEF FirstRead, more
  <1>4. CASE r.operands = <<>> /\ r.wants = {} /\ \A i \in 1..Len(line) : Dashed(line[i])
    <2>1. CASE AddsOperand(r, s, word)
      <3>1. s.operands = Append(<<>>, word) /\ s.wants = {}
        BY <1>4, <2>1 DEF AddsOperand
      <3>2. s.operands # <<>> /\ s.operands[1] = word
        BY <3>1
      <3>3. ~Dashed(word) => FirstNonFlag(more) = word
        BY <1>4, FirstAdded DEF more
      <3> QED
        BY <3>1, <3>2, <3>3 DEF FirstRead, more
    <2>2. CASE ~AddsOperand(r, s, word)
      <3>1. s.operands = <<>>
        BY <1>4, <2>2, OperandsKept
      <3>2. Dashed(word) /\ (s.wants # {} => Waits(tool, word))
        <4>1. Dashed(<<"--">>)
          BY DEF Dashed, IsPrefix
        <4>2. s.wants # {} => Waits(tool, word)
          BY WaitsMean
        <4> QED
          BY <1>4, <2>2, <4>1, <4>2 DEF Step, TakesWord, EndsOptions, GivesOption, OptionWord
      <3>3. \A i \in 1..(n + 1) : Dashed(more[i])
        <4> TAKE i \in 1..(n + 1)
        <4>1. i \in 1..n \/ i = n + 1
          BY <1>1
        <4> QED
          BY <1>1, <1>4, <3>2, <4>1
      <3>4. s.wants # {} => Early(tool, more)
        BY <1>4, <3>2, EarlyMore DEF more
      <3> QED
        BY <1>1, <3>1, <3>3, <3>4 DEF FirstRead, more
    <2> QED
      BY <2>1, <2>2
  <1>5. CASE /\ r.operands # <<>>
             /\ tool = "git" => r.wants = {}
             /\ r.operands[1] = <<>> \/ Dashed(r.operands[1]) \/ FirstNonFlag(line) = r.operands[1]
    <2>1. s.operands # <<>> /\ s.operands[1] = r.operands[1]
      <3>1. CASE AddsOperand(r, s, word)
        <4>1. s.operands = Append(r.operands, word)
          BY <3>1 DEF AddsOperand
        <4>2. 1 \in 1..Len(r.operands)
          BY <1>2, <1>5, EmptySeq
        <4> QED
          BY <1>2, <4>1, <4>2, AppendProperties
      <3>2. CASE ~AddsOperand(r, s, word)
        BY <1>5, <3>2, OperandsKept
      <3> QED
        BY <3>1, <3>2
    <2>2. tool = "git" => s.wants = {}
      BY <1>5, WaitsMean
    <2>3. r.operands[1] # <<>> /\ FirstNonFlag(line) = r.operands[1] => FirstNonFlag(more) = r.operands[1]
      BY FirstNonFlagKept DEF more
    <2> QED
      BY <1>5, <2>1, <2>2, <2>3 DEF FirstRead, more
  <1> QED
    BY <1>3, <1>4, <1>5 DEF FirstRead

SecondRead(tool, line, r, target) ==
  \/ Late(tool, line, target)
  \/ r.operands = <<>>
  \/ r.operands[1] # target
  \/ /\ target \in ToSet(line)
     /\ LET after == After(line, target) IN
        \/ /\ Len(r.operands) = 1 /\ r.wants = {}
           /\ \A i \in 1..Len(line) : Dashed(line[i]) \/ line[i] = target
           /\ \A i \in 1..Len(after) : Dashed(after[i])
        \/ /\ Len(r.operands) > 1
           /\ r.operands[2] \in {<<>>, target} \/ Dashed(r.operands[2]) \/ FirstNonFlag(after) = r.operands[2]

LEMMA SecondMore ==
  ASSUME NEW tool, NEW W, NEW line \in Seq(W), NEW word \in W, NEW r \in Reads(W), NEW s \in Reads(W),
         Step(tool, r, s, word), FirstRead(tool, line, r),
         NEW target, ~Dashed(target), SecondRead(tool, line, r, target)
  PROVE  SecondRead(tool, Append(line, word), s, target)
  <1> DEFINE more == Append(line, word)
             n == Len(line)
             after == After(line, target)
  <1>1. /\ n \in Nat /\ Len(more) = n + 1 /\ more[n + 1] = word
        /\ \A i \in 1..n : more[i] = line[i]
        /\ DOMAIN line = 1..n /\ ToSet(more) = ToSet(line) \cup {word}
    BY OneMore
  <1>2. r.operands \in Seq(W) /\ Len(r.operands) \in Nat
    BY LenProperties DEF Reads
  <1>3. Dashed(<<"--">>)
    BY DEF Dashed, IsPrefix
  <1>4. AddsOperand(r, s, word) =>
          /\ s.operands = Append(r.operands, word) /\ Len(s.operands) = Len(r.operands) + 1 /\ s.operands # <<>>
          /\ s.operands[Len(r.operands) + 1] = word
          /\ \A i \in 1..Len(r.operands) : s.operands[i] = r.operands[i]
    BY <1>2, AppendProperties DEF AddsOperand
  <1>5. ~AddsOperand(r, s, word) => s.operands = r.operands
    BY OperandsKept
  <1> HIDE DEF more, n, after
  <1>6. CASE Late(tool, line, target)
    BY <1>6, EarlyMore DEF SecondRead, more
  <1>7. CASE r.operands = <<>> /\ ~Late(tool, line, target)
    <2>1. CASE ~AddsOperand(r, s, word)
      BY <1>5, <1>7, <2>1 DEF SecondRead
    <2>2. CASE AddsOperand(r, s, word) /\ word # target
      <3>1. s.operands[1] = word
        BY <1>4, <1>7, <2>2
      <3> QED
        BY <2>2, <3>1 DEF SecondRead
    <2>3. CASE AddsOperand(r, s, word) /\ word = target
      <3>1. ~Early(tool, line)
        BY <1>7, EarlyMore
      <3>2. r.wants = {} /\ \A i \in 1..n : Dashed(line[i])
        BY <1>7, <3>1 DEF FirstRead, n
      <3>3. target \notin ToSet(line)
        BY <1>1, <3>2 DEF ToSet
      <3>4. After(more, target) = <<>> /\ target \in ToSet(more)
        BY <2>3, <3>3, AfterAdded DEF more
      <3>5. s.wants = {} /\ Len(s.operands) = 1
        BY <1>4, <1>7, <2>3 DEF AddsOperand
      <3>6. \A i \in 1..(n + 1) : Dashed(more[i]) \/ more[i] = target
        <4> TAKE i \in 1..(n + 1)
        <4>1. i \in 1..n \/ i = n + 1
          BY <1>1
        <4> QED
          BY <1>1, <2>3, <3>2, <4>1
      <3> QED
        BY <1>1, <3>4, <3>5, <3>6 DEF SecondRead, more
    <2> QED
      BY <2>1, <2>2, <2>3
  <1>8. ASSUME r.operands # <<>>, ~Late(tool, line, target) PROVE s.operands # <<>> /\ s.operands[1] = r.operands[1]
    <2>1. 1 \in 1..Len(r.operands)
      BY <1>2, <1>8, EmptySeq
    <2> QED
      BY <1>4, <1>5, <1>8, <2>1
  <1>9. CASE r.operands # <<>> /\ r.operands[1] # target
    BY <1>6, <1>8, <1>9 DEF SecondRead, more
  <1>10. ASSUME target \in ToSet(line)
         PROVE  /\ target \in ToSet(more) /\ after \in Seq(W) /\ After(more, target) = Append(after, word)
                /\ Len(after) \in Nat /\ Len(Append(after, word)) = Len(after) + 1
                /\ Append(after, word)[Len(after) + 1] = word
                /\ \A i \in 1..Len(after) : Append(after, word)[i] = after[i]
    <2>1. after \in Seq(W) /\ After(more, target) = Append(after, word)
      BY <1>10, AfterKept DEF more, after
    <2> QED
      BY <1>1, <1>10, <2>1, OneMore
  <1>11. CASE /\ ~Late(tool, line, target) /\ r.operands # <<>> /\ r.operands[1] = target
              /\ target \in ToSet(line) /\ Len(r.operands) = 1 /\ r.wants = {}
              /\ \A i \in 1..n : Dashed(line[i]) \/ line[i] = target
              /\ \A i \in 1..Len(after) : Dashed(after[i])
    <2>1. CASE AddsOperand(r, s, word)
      <3>1. Len(s.operands) > 1 /\ s.operands[2] = word
        BY <1>4, <1>11, <2>1
      <3>2. ASSUME ~Dashed(word) PROVE FirstNonFlag(After(more, target)) = word
        BY <1>10, <1>11, <3>2, FirstAdded
      <3> QED
        BY <1>10, <1>11, <3>1, <3>2 DEF SecondRead, more
    <2>2. CASE ~AddsOperand(r, s, word)
      <3>1. Dashed(word) /\ (s.wants # {} => Waits(tool, word) /\ tool # "git")
        <4>1. s.wants # {} => Waits(tool, word) /\ tool # "git"
          BY <1>11, WaitsMean
        <4> QED
          BY <1>3, <1>11, <2>2, <4>1 DEF Step, TakesWord, EndsOptions, GivesOption, OptionWord
      <3>2. s.wants # {} => Late(tool, more, target)
        BY <1>11, <3>1, EarlyMore DEF more, n
      <3>3. \A i \in 1..(n + 1) : Dashed(more[i]) \/ more[i] = target
        <4> TAKE i \in 1..(n + 1)
        <4>1. i \in 1..n \/ i = n + 1
          BY <1>1
        <4> QED
          BY <1>1, <1>11, <3>1, <4>1
      <3>4. \A i \in 1..Len(After(more, target)) : Dashed(After(more, target)[i])
        <4>1. \A i \in 1..(Len(after) + 1) : Dashed(Append(after, word)[i])
          <5> TAKE i \in 1..(Len(after) + 1)
          <5>1. i \in 1..Len(after) \/ i = Len(after) + 1
            BY <1>10, <1>11
          <5> QED
            BY <1>10, <1>11, <3>1, <5>1
        <4> QED
          BY <1>10, <1>11, <4>1
      <3>5. Len(s.operands) = 1 /\ target \in ToSet(more)
        BY <1>5, <1>10, <1>11, <2>2
      <3> QED
        BY <1>1, <3>2, <3>3, <3>4, <3>5 DEF SecondRead, more
    <2> QED
      BY <2>1, <2>2
  <1>12. CASE /\ ~Late(tool, line, target) /\ r.operands # <<>> /\ r.operands[1] = target
              /\ target \in ToSet(line) /\ Len(r.operands) > 1
              /\ r.operands[2] \in {<<>>, target} \/ Dashed(r.operands[2]) \/ FirstNonFlag(after) = r.operands[2]
    <2>1. Len(s.operands) > 1 /\ s.operands[2] = r.operands[2]
      <3>1. 2 \in 1..Len(r.operands)
        BY <1>2, <1>12
      <3> QED
        BY <1>2, <1>4, <1>5, <1>12, <3>1
    <2>2. r.operands[2] # <<>> /\ FirstNonFlag(after) = r.operands[2] => FirstNonFlag(After(more, target)) = r.operands[2]
      <3> HAVE r.operands[2] # <<>> /\ FirstNonFlag(after) = r.operands[2]
      <3>1. after \in Seq(W) /\ FirstNonFlag(after) # <<>>
        BY <1>10, <1>12
      <3>2. FirstNonFlag(Append(after, word)) = FirstNonFlag(after)
        BY <3>1, FirstNonFlagKept
      <3> QED
        BY <1>10, <1>12, <3>2
    <2> QED
      BY <1>10, <1>12, <2>1, <2>2 DEF SecondRead, more
  <1>13. ASSUME ~Late(tool, line, target), r.operands # <<>>, r.operands[1] = target
         PROVE  \/ /\ target \in ToSet(line) /\ Len(r.operands) = 1 /\ r.wants = {}
                   /\ \A i \in 1..n : Dashed(line[i]) \/ line[i] = target
                   /\ \A i \in 1..Len(after) : Dashed(after[i])
                \/ /\ target \in ToSet(line) /\ Len(r.operands) > 1
                   /\ r.operands[2] \in {<<>>, target} \/ Dashed(r.operands[2]) \/ FirstNonFlag(after) = r.operands[2]
    BY <1>13 DEF SecondRead, n, after
  <1> QED
    BY <1>6, <1>7, <1>9, <1>11, <1>12, <1>13

\* All options that git is given have been read, if no option has a value.
GitRead(tool, line, r) ==
  tool = "git" =>
    \/ Early(tool, line)
    \/ \A word \in ToSet(line) :
         Dashed(word) /\ Len(word) > 1 =>
           \/ word \in r.paths
           \/ IF Head(word) = "--" THEN word \in r.options
              ELSE Len(word) = 2 => Short(word[2]) \in r.options

LEMMA GitMore ==
  ASSUME NEW tool, NEW W, WellCut(W), NEW line \in Seq(W), NEW word \in W, NEW r, NEW s,
         Step(tool, r, s, word), Awaits(tool, line, r), FirstRead(tool, line, r), GitRead(tool, line, r)
  PROVE  GitRead(tool, Append(line, word), s)
  <1> SUFFICES ASSUME tool = "git" PROVE GitRead(tool, Append(line, word), s)
    BY DEF GitRead
  <1>1. CASE Early(tool, line)
    BY <1>1, EarlyMore DEF GitRead
  <1>2. CASE ~Early(tool, line)
    <2>1. ToSet(Append(line, word)) = ToSet(line) \cup {word}
      BY OneMore
    <2>2. r.wants = {}
      BY <1>2 DEF FirstRead
    <2>3. r.options \subseteq s.options /\ r.paths \subseteq s.paths
      BY DEF Step, TakesWord, EndsOptions, GivesOption, AddsOperand
    <2>4. Dashed(word) /\ Len(word) > 1 =>
            \/ word \in s.paths
            \/ IF Head(word) = "--" THEN word \in s.options
               ELSE Len(word) = 2 => Short(word[2]) \in s.options
      <3>1. CASE GivesOption(tool, r, s, word)
        <4> DEFINE last == LastLetter(word, Takers(tool, r))
        <4>0. word \in Seq(STRING)
          BY DEF WellCut
        <4>1. Len(word) = 2 => last = 2
          <5> HAVE Len(word) = 2
          <5>1. Len(word) > 1
            OBVIOUS
          <5> QED
            BY <4>0, <5>1, LetterFacts
        <4> HIDE DEF last
        <4>2. Len(word) = 2 => 2 \in 2..last
          BY <4>1
        <4>3. s.options = r.options \cup OptionsOf(word, Takers(tool, r))
          BY <3>1 DEF GivesOption
        <4> QED
          BY <4>2, <4>3 DEF OptionsOf, last
      <3>2. CASE AddsOperand(r, s, word)
        BY <3>2 DEF AddsOperand, OptionWord
      <3>3. CASE EndsOptions(r, s, word)
        <4>1. Len(word) = 1
          BY <3>3 DEF EndsOptions
        <4> QED
          BY <4>1
      <3> QED
        BY <2>2, <3>1, <3>2, <3>3 DEF Step, TakesWord
    <2> QED
      BY <1>2, <2>1, <2>3, <2>4 DEF GitRead
  <1> QED
    BY <1>1, <1>2

-----------------------------------------------------------------------------
(* All of it.                                                              *)

LineRead(tool, line, r) ==
  /\ Awaits(tool, line, r) /\ OptionsRead(line, r) /\ OperandsRead(line, r)
  /\ ValuesRead(tool, line, r) /\ PiecesRead(line, r)
  /\ FirstRead(tool, line, r) /\ GitRead(tool, line, r)
  /\ SecondRead(tool, line, r, <<"state">>) /\ SecondRead(tool, line, r, <<"stash">>)

LEMMA NothingYet ==
  ASSUME NEW tool, NEW W
  PROVE  Fresh \in Reads(W) /\ LineRead(tool, <<>>, Fresh)
  <1>1. /\ Fresh.wants = {} /\ Fresh.options = {} /\ Fresh.operands = <<>> /\ Fresh.values = <<>>
        /\ Fresh.paths = {} /\ Fresh.literal = FALSE /\ Len(<<>>) = 0 /\ ToSet(<<>>) = {}
    BY NoPieces DEF Fresh
  <1>2. Fresh \in Reads(W)
    <2>1. <<>> \in Seq(W) /\ <<>> \in Seq([option : Seq(Text), value : Seq(STRING)])
      OBVIOUS
    <2> QED
      BY <2>1 DEF Fresh, Reads
  <1> HIDE DEF Fresh
  <1>3. 1..Len(<<>>) = {}
    OBVIOUS
  <1> QED
    BY <1>1, <1>2, <1>3 DEF LineRead, Awaits, OptionsRead, OperandsRead, ValuesRead, PiecesRead, FirstRead, GitRead,
                                SecondRead

LEMMA WordRead ==
  ASSUME NEW tool, NEW W, WellCut(W), NEW line \in Seq(W), NEW word \in W,
         Read(tool, line) \in Reads(W), LineRead(tool, line, Read(tool, line))
  PROVE  LET more == Append(line, word) IN
         Read(tool, more) \in Reads(W) /\ LineRead(tool, more, Read(tool, more))
  <1> DEFINE more == Append(line, word)
             r == Read(tool, line)
             s == Read(tool, more)
  <1>1. s = ReadWord(tool, r, word)
    BY ReadAppend
  <1> HIDE DEF r, s
  <1>2. r \in Reads(W) /\ LineRead(tool, line, r)
    BY DEF r
  <1>3. s \in Reads(W) /\ Step(tool, r, s, word)
    BY <1>1, <1>2, ReadSteps DEF Step
  <1>4. ~Dashed(<<"state">>) /\ ~Dashed(<<"stash">>)
    BY DEF Dashed, IsPrefix
  <1>5. Awaits(tool, more, s) /\ OptionsRead(more, s) /\ OperandsRead(more, s)
    BY <1>2, <1>3, AwaitsMore, OptionsMore, OperandsMore DEF LineRead
  <1>6. ValuesRead(tool, more, s) /\ PiecesRead(more, s)
    BY <1>2, <1>3, ValuesMore DEF LineRead
  <1>7. FirstRead(tool, more, s) /\ GitRead(tool, more, s)
    BY <1>2, <1>3, FirstMore, GitMore DEF LineRead
  <1>8. SecondRead(tool, more, s, <<"state">>) /\ SecondRead(tool, more, s, <<"stash">>)
    BY <1>2, <1>3, <1>4, SecondMore DEF LineRead
  <1> QED
    BY <1>3, <1>5, <1>6, <1>7, <1>8 DEF LineRead, s

-----------------------------------------------------------------------------
(* What a tool destroys is asked about.                                    *)

\* What holds of a command of which everything has been read.
LineOf(tool, W, line, r) ==
  WellCut(W) /\ line \in Seq(W) /\ r = Read(tool, line) /\ r \in Reads(W) /\ LineRead(tool, line, r)

LEMMA OperandsFound ==
  ASSUME NEW tool, NEW W, NEW line, NEW r, LineOf(tool, W, line, r)
  PROVE  /\ \A i \in Nat \ {0} : Operand(r, i) # <<>> =>
              i <= Len(r.operands) /\ Operand(r, i) = r.operands[i] /\ Operand(r, i) \in ToSet(line)
         /\ Operand(r, 2) # <<>> => InOrder(line, Operand(r, 1), Operand(r, 2)) /\ Operand(r, 1) = r.operands[1]
         /\ ToSet(r.operands) \subseteq ToSet(line)
  <1>1. /\ r.operands \in Seq(W) /\ Len(r.operands) \in Nat /\ DOMAIN r.operands = 1..Len(r.operands)
        /\ OperandsRead(line, r)
    BY LenProperties DEF LineOf, Reads, LineRead
  <1>2. ASSUME NEW i \in Nat \ {0}, Operand(r, i) # <<>>
        PROVE  i <= Len(r.operands) /\ Operand(r, i) = r.operands[i] /\ Operand(r, i) \in ToSet(line)
    <2>1. i <= Len(r.operands) /\ Operand(r, i) = r.operands[i]
      BY <1>2 DEF Operand
    <2>2. i \in 1..Len(r.operands)
      BY <1>1, <2>1
    <2> QED
      BY <1>1, <2>1, <2>2 DEF OperandsRead
  <1>3. ASSUME Operand(r, 2) # <<>>
        PROVE  InOrder(line, Operand(r, 1), Operand(r, 2)) /\ Operand(r, 1) = r.operands[1]
    <2>1. 2 <= Len(r.operands) /\ Operand(r, 2) = r.operands[2]
      BY <1>2, <1>3
    <2>2. Operand(r, 1) = r.operands[1] /\ 1 \in 1..Len(r.operands) /\ 2 \in 1..Len(r.operands)
      BY <1>1, <2>1 DEF Operand
    <2> QED
      BY <1>1, <2>1, <2>2 DEF OperandsRead
  <1> QED
    BY <1>1, <1>2, <1>3 DEF OperandsRead, ToSet

Sought(tool, line) ==
  LET read == Read(tool, line) IN
  IF tool = "terraform" /\ Operand(read, 1) = <<"state">> THEN Operand(read, 2) ELSE Operand(read, 1)

\* What it means that the tool is told in the form that the rules cover.
LEMMA PlainForm ==
  ASSUME NEW tool, NEW W, NEW line \in Seq(W), Kind(tool, line) = "plain"
  PROVE  /\ tool \in VerbFirst \cup {"git", "gsutil"} =>
              \A i \in 1..Len(line) : Waits(tool, line[i]) =>
                \E j \in 1..i : line[j] = Sought(tool, line)
         /\ tool = "python" => line[1] = Operand(Read(tool, line), 1)
         /\ tool \in {"psql", "mysql", "gcloud", "curl"} =>
              /\ \A i, j \in 1..Len(line) :
                   ValuesAt(line, i, Looked(tool)) # {} /\ ValuesAt(line, j, Looked(tool)) # {} => i = j
              /\ \A word \in ToSet(line) : ~Hidden(tool, word, Deciding(tool))
         /\ tool = "curl" => Given(Read(tool, line), Deciding(tool)) # {}
  <1>1. Len(line) \in Nat /\ DOMAIN line = 1..Len(line)
    BY LenProperties
  <1>2. ASSUME tool \in VerbFirst \cup {"git", "gsutil"}, NEW i \in 1..Len(line), Waits(tool, line[i])
        PROVE  \E j \in 1..i : line[j] = Sought(tool, line)
    <2>1. Sought(tool, line) \in ToSet(SubSeq(line, 1, i))
      <3> SUFFICES ASSUME Sought(tool, line) \notin ToSet(SubSeq(line, 1, i)) PROVE FALSE
        OBVIOUS
      <3> DEFINE behind_value ==
                   \E k \in DOMAIN line : /\ OptionWord(line[k]) /\ Awaited(line[k], TakesValue[tool]) # {}
                                         /\ Sought(tool, line) \notin ToSet(SubSeq(line, 1, k))
      <3>0. tool \notin {"python", "psql", "mysql", "gcloud", "curl"}
        BY <1>2 DEF VerbFirst
      <3>1. Kind(tool, line) = IF behind_value THEN "behind_value" ELSE "plain"
        BY <1>2, <3>0 DEF Kind, Sought
      <3>2. behind_value
        BY <1>1, <1>2 DEF Waits
      <3> HIDE DEF behind_value
      <3> QED
        BY <3>1, <3>2
    <2>2. /\ SubSeq(line, 1, i) \in Seq(W) /\ Len(SubSeq(line, 1, i)) = i
          /\ \A j \in 1..i : SubSeq(line, 1, i)[j] = line[j]
      <3>1. i \in Nat /\ 1 <= i /\ \A j \in 1..i : line[j] \in W
        BY <1>1
      <3>2. /\ SubSeq(line, 1, i) \in Seq(W)
            /\ Len(SubSeq(line, 1, i)) = IF 1 <= i THEN i - 1 + 1 ELSE 0
            /\ \A j \in 1..(i - 1 + 1) : SubSeq(line, 1, i)[j] = line[1 + j - 1]
        BY <3>1, SubSeqProperties
      <3> QED
        BY <3>1, <3>2
    <2>3. DOMAIN SubSeq(line, 1, i) = 1..i
      BY <2>2, LenProperties
    <2> QED
      BY <2>1, <2>2, <2>3 DEF ToSet
  <1>3. tool = "python" => line[1] = Operand(Read(tool, line), 1)
    BY DEF Kind, VerbFirst
  <1>4. ASSUME tool \in {"psql", "mysql", "gcloud", "curl"}
        PROVE  /\ \A word \in ToSet(line) : ~Hidden(tool, word, Deciding(tool))
               /\ ~\E i, j \in {i \in DOMAIN line : ValuesAt(line, i, Looked(tool)) # {}} : i # j
               /\ tool = "curl" => Given(Read(tool, line), Deciding(tool)) # {}
    <2> DEFINE in_bundle ==
                 \E word \in ToSet(line) :
                   /\ OptionWord(word) /\ Head(word) = "-" /\ LastLetter(word, TakesValue[tool]) > 2
                   /\ Short(word[LastLetter(word, TakesValue[tool])]) \in Deciding(tool)
               repeated == Cardinality(Given(Read(tool, line), Deciding(tool))) > 1
               misread == \E i, j \in {i \in DOMAIN line : ValuesAt(line, i, Looked(tool)) # {}} : i # j
               implied == tool = "curl" /\ Given(Read(tool, line), Deciding(tool)) = {}
    <2>1. tool \notin VerbFirst \cup {"git", "gsutil"} /\ tool # "python"
      BY <1>4 DEF VerbFirst
    <2>2. Kind(tool, line) =
            IF in_bundle THEN "in_bundle" ELSE IF repeated THEN "repeated" ELSE IF misread THEN "misread"
            ELSE IF implied THEN "implied" ELSE "plain"
      BY <1>4, <2>1 DEF Kind
    <2>3. in_bundle <=> \E word \in ToSet(line) : Hidden(tool, word, Deciding(tool))
      BY DEF Hidden
    <2> HIDE DEF in_bundle, repeated, misread, implied
    <2>4. ~in_bundle /\ ~misread /\ ~implied
      BY <2>2
    <2> QED
      BY <2>3, <2>4 DEF misread, implied
  <1> QED
    BY <1>2, <1>3, <1>4

\* The first word that is no option is the verb.
LEMMA VerbFound ==
  ASSUME NEW tool \in VerbFirst \cup {"git", "gsutil"}, NEW W, NEW line, NEW r, LineOf(tool, W, line, r),
         Kind(tool, line) = "plain", Operand(r, 1) # <<>>, ~Dashed(Operand(r, 1)),
         tool # "terraform" \/ Operand(r, 1) # <<"state">>
  PROVE  ~Early(tool, line) /\ FirstNonFlag(line) = Operand(r, 1)
  <1>1. line \in Seq(W) /\ Len(line) \in Nat /\ r = Read(tool, line) /\ FirstRead(tool, line, r)
    BY LenProperties DEF LineOf, LineRead
  <1>2. ~Early(tool, line)
    <2> SUFFICES ASSUME NEW i \in 1..Len(line), Waits(tool, line[i]), \A j \in 1..i : Dashed(line[j])
                 PROVE  FALSE
      BY DEF Early
    <2>1. PICK j \in 1..i : line[j] = Sought(tool, line)
      BY <1>1, PlainForm
    <2>2. Sought(tool, line) = Operand(r, 1)
      BY <1>1 DEF Sought
    <2> QED
      BY <2>1, <2>2
  <1>3. 1 <= Len(r.operands) /\ Operand(r, 1) = r.operands[1]
    BY OperandsFound
  <1>4. r.operands # <<>>
    BY <1>3
  <1> QED
    BY <1>1, <1>2, <1>3, <1>4 DEF FirstRead

\* And the first behind it is the second operand.
LEMMA PairFound ==
  ASSUME NEW tool, NEW target, <<tool, target>> \in {<<"terraform", <<"state">>>>, <<"git", <<"stash">>>>},
         NEW W, NEW line, NEW r, LineOf(tool, W, line, r),
         Kind(tool, line) = "plain", Operand(r, 1) = target,
         Operand(r, 2) \notin {<<>>, target}, ~Dashed(Operand(r, 2))
  PROVE  FirstNonFlag(line) = target /\ FirstNonFlag(After(line, target)) = Operand(r, 2)
  <1>1. /\ line \in Seq(W) /\ Len(line) \in Nat /\ r = Read(tool, line) /\ FirstRead(tool, line, r)
        /\ SecondRead(tool, line, r, target)
    BY LenProperties DEF LineOf, LineRead
  <1>2. ~Dashed(target) /\ target # <<>> /\ tool \in VerbFirst \cup {"git", "gsutil"}
    BY DEF Dashed, IsPrefix, VerbFirst
  <1>3. ~Late(tool, line, target)
    <2> SUFFICES ASSUME NEW i \in 1..Len(line), Waits(tool, line[i]),
                        \A j \in 1..i : Dashed(line[j]) \/ (line[j] = target /\ tool # "git")
                 PROVE  FALSE
      BY DEF Late
    <2>1. PICK j \in 1..i : line[j] = Sought(tool, line)
      BY <1>1, <1>2, PlainForm
    <2>2. CASE tool = "git"
      <3>1. Sought(tool, line) = target
        BY <1>1, <2>2 DEF Sought
      <3> QED
        BY <1>2, <2>1, <2>2, <3>1
    <2>3. CASE tool = "terraform" /\ target = <<"state">>
      <3>1. Sought(tool, line) = Operand(r, 2)
        BY <1>1, <2>3 DEF Sought
      <3> QED
        BY <2>1, <3>1
    <2> QED
      BY <2>2, <2>3
  <1>4. ~Early(tool, line)
    BY <1>3 DEF Early, Late
  <1>5. /\ 2 <= Len(r.operands) /\ Operand(r, 2) = r.operands[2]
        /\ r.operands # <<>> /\ r.operands[1] = target
    <2>1. 2 <= Len(r.operands) /\ Operand(r, 2) = r.operands[2] /\ Operand(r, 1) = r.operands[1]
      BY OperandsFound
    <2> QED
      BY <2>1
  <1>6. FirstNonFlag(line) = target
    BY <1>1, <1>2, <1>4, <1>5 DEF FirstRead
  <1>7. Len(r.operands) # 1
    BY <1>5
  <1> QED
    BY <1>1, <1>3, <1>5, <1>6, <1>7 DEF SecondRead


\* The value of an option that is given once is the one the code takes.
LEMMA ValueFound ==
  ASSUME NEW tool \in {"psql", "mysql", "gcloud", "curl"}, NEW W, NEW line, NEW r, LineOf(tool, W, line, r),
         Kind(tool, line) = "plain",
         NEW k \in Given(r, Deciding(tool))
  PROVE  FirstValue(line, Looked(tool)) = r.values[k].value
  <1> DEFINE v == r.values[k].value
             o == r.values[k].option
             sought == Looked(tool)
  <1>0. Deciding(tool) \subseteq sought /\ sought \subseteq Asked /\ Apart(sought)
    BY OptionsApart DEF Deciding, Looked, SqlOptions, Asked
  <1>1. line \in Seq(W) /\ Len(line) \in Nat /\ DOMAIN line = 1..Len(line) /\ WellCut(W) /\ ValuesRead(tool, line, r)
    BY LenProperties DEF LineOf, LineRead
  <1> HIDE DEF sought
  <1>2. k \in 1..Len(r.values) /\ o \in Deciding(tool) /\ o \in sought /\ o \in Asked /\ v # <<>>
    <2>1. r.values \in Seq([option : Seq(Text), value : Seq(STRING)])
      BY DEF LineOf, Reads
    <2>2. DOMAIN r.values = 1..Len(r.values)
      BY <2>1, LenProperties
    <2> QED
      BY <1>0, <2>2 DEF Given
  <1> HIDE DEF v, o
  <1>3. \E i \in 1..Len(line) : v \in ValueAt(line, i, o)
    <2>1. ASSUME NEW word \in ToSet(line) PROVE ~Hidden(tool, word, {o})
      <3>1. ~Hidden(tool, word, Deciding(tool))
        BY <1>1, PlainForm
      <3> QED
        BY <1>2, <3>1 DEF Hidden
    <2> QED
      BY <1>1, <1>2, <2>1 DEF ValuesRead, v, o
  <1>3a. PICK i \in 1..Len(line) : v \in ValueAt(line, i, o)
    BY <1>3
  <1>4. v \in ValuesAt(line, i, sought)
    BY <1>2, <1>3a DEF ValuesAt
  <1>5. ASSUME NEW j \in 1..Len(line), ValuesAt(line, j, sought) # {} PROVE j = i
    BY <1>1, <1>4, <1>5, PlainForm DEF sought
  <1>6. {j \in DOMAIN line : ValuesAt(line, j, sought) # {}} = {i}
    BY <1>1, <1>4, <1>5
  <1>7. ASSUME NEW p \in sought, NEW u \in ValueAt(line, i, p) PROVE p = o
    <2>1. line[i] = p \/ IsPrefix(Lead(p), line[i])
      BY <1>7, ValueFacts
    <2>2. line[i] = o \/ IsPrefix(Lead(o), line[i])
      BY <1>3a, ValueFacts
    <2>3. line[i] = p => ~IsPrefix(Lead(o), line[i]) \/ p = o
      BY <1>0, <1>2 DEF Apart
    <2>4. line[i] = o => ~IsPrefix(Lead(p), line[i]) \/ p = o
      BY <1>0, <1>2 DEF Apart
    <2>5. IsPrefix(Lead(p), line[i]) /\ IsPrefix(Lead(o), line[i]) => p = o
      <3> HAVE IsPrefix(Lead(p), line[i]) /\ IsPrefix(Lead(o), line[i])
      <3>1. line[i] \in Seq(STRING)
        BY <1>1 DEF WellCut
      <3>2. ASSUME NEW q \in Asked, IsPrefix(Lead(q), line[i]) PROVE q = <<line[i][1], line[i][2]>>
        <4>1. q = <<q[1], q[2]>>
              /\ Lead(q) = IF q[1] = "--" THEN <<q[1], q[2], "=">> ELSE <<q[1], q[2]>>
          BY AskedFacts
        <4>2. CASE q[1] = "--"
          BY <3>1, <3>2, <4>1, <4>2, PrefixOf
        <4>3. CASE q[1] # "--"
          BY <3>1, <3>2, <4>1, <4>3, PrefixOf
        <4> QED
          BY <4>2, <4>3
      <3> QED
        BY <1>0, <1>2, <3>2
    <2> QED
      BY <2>1, <2>2, <2>3, <2>4, <2>5
  <1>8. \A u \in ValueAt(line, i, o) : u = v
    <2> DEFINE next == line[i + 1]
               glued == SubSeq(line[i], Len(Lead(o)) + 1, Len(line[i]))
    <2>1. CASE line[i] = o
      <3>1. ValueAt(line, i, o) = IF i < Len(line) THEN {next} ELSE {}
        BY <2>1, ValueFacts
      <3> HIDE DEF next
      <3> QED
        BY <1>3a, <3>1
    <2>2. CASE line[i] # o
      <3>1. ValueAt(line, i, o) = IF IsPrefix(Lead(o), line[i]) THEN {glued} ELSE {}
        BY <2>2, ValueFacts
      <3> HIDE DEF glued
      <3> QED
        BY <1>3a, <3>1
    <2> QED
      BY <2>1, <2>2
  <1>9. ValuesAt(line, i, sought) = {v}
    <2>1. \A u \in ValuesAt(line, i, sought) : u = v
      BY <1>7, <1>8 DEF ValuesAt
    <2> QED
      BY <1>4, <2>1
  <1>10. (CHOOSE j \in {i} : \A l \in {i} : j <= l) = i
    BY <1>1
  <1>11. FirstValue(line, sought) = CHOOSE value \in {v} : TRUE
    <2> DEFINE given == {j \in DOMAIN line : ValuesAt(line, j, sought) # {}}
    <2>1. given = {i}
      BY <1>6
    <2>2. FirstValue(line, sought) =
            IF given = {} THEN <<>>
            ELSE CHOOSE value \in ValuesAt(line, CHOOSE j \in given : \A l \in given : j <= l, sought) : TRUE
      BY DEF FirstValue
    <2> HIDE DEF given
    <2> QED
      BY <1>9, <1>10, <2>1, <2>2
  <1> QED
    BY <1>11 DEF v, sought

\* The last of some places.
LEMMA Greatest ==
  ASSUME NEW n \in Nat, NEW S \in SUBSET (1..n), S # {}
  PROVE  Max(S) \in S
  <1> DEFINE T == {n - m : m \in S}
  <1>1. T \in SUBSET Nat /\ T # {}
    <2>1. \A m \in S : n - m \in Nat
      OBVIOUS
    <2> QED
      BY <2>1
  <1>2. Min(T) \in T /\ \A k \in T : Min(T) <= k
    <2> HIDE DEF T
    <2> QED
      BY <1>1, Least
  <1>3. PICK m \in S : Min(T) = n - m /\ \A i \in S : n - m <= n - i
    BY <1>2
  <1>4. \A i \in S : m >= i
    <2> TAKE i \in S
    <2>1. n - m <= n - i /\ m \in Nat /\ i \in Nat
      BY <1>3
    <2> QED
      BY <2>1
  <1> QED
    BY <1>4 DEF Max

\* What the options that were read say of the words.
LEMMA OptionsFound ==
  ASSUME NEW tool, NEW W, NEW line, NEW r, LineOf(tool, W, line, r)
  PROVE  /\ \A long : Long(long) \in r.options => Long(long) \in ToSet(line)
         /\ \A letter : Short(letter) \in r.options => \E word \in ToSet(line) : Bundled(word, letter)
         /\ \A a, b : \A option \in r.options :
              /\ IsPrefix(<<"--", a, b>>, option) => option \in ToSet(line)
              /\ IsPrefix(<<"--", a>>, option) => option \in ToSet(line)
  <1>1. OptionsRead(line, r)
    BY DEF LineOf, LineRead
  <1>2. \A long, letter : Long(long) # Short(letter)
    BY DEF Long, Short
  <1>3. \A letter, other : Short(letter) = Short(other) => letter = other
    BY DEF Short
  <1>4. \A letter : Head(Short(letter)) # "--"
    BY DEF Short
  <1>5. \A a, b, letter : ~IsPrefix(<<"--", a, b>>, Short(letter)) /\ ~IsPrefix(<<"--", a>>, Short(letter))
    BY DEF Short, IsPrefix
  <1> QED
    BY <1>1, <1>2, <1>3, <1>4, <1>5 DEF OptionsRead, Bundled

\* The words of git that the rule looks for.
LEMMA GitWords ==
  ASSUME NEW W, NEW line, NEW r, LineOf("git", W, line, r), ~Early("git", line),
         \A path \in r.paths : ~Dashed(path)
  PROVE  /\ \A long : Long(long) \in ToSet(line) => Long(long) \in r.options
         /\ \A letter : Short(letter) \in ToSet(line) => Short(letter) \in r.options
         /\ \A a, b : \A word \in ToSet(line) : IsPrefix(<<"--", a, b>>, word) => word \in r.options
  <1>1. \A word \in ToSet(line) :
          Dashed(word) /\ Len(word) > 1 =>
            IF Head(word) = "--" THEN word \in r.options
            ELSE Len(word) = 2 => Short(word[2]) \in r.options
    BY DEF LineOf, LineRead, GitRead
  <1>2. \A long : Dashed(Long(long)) /\ Len(Long(long)) > 1 /\ Head(Long(long)) = "--"
    BY DEF Long, Dashed, IsPrefix
  <1>3. ASSUME NEW letter
        PROVE  /\ Dashed(Short(letter)) /\ Len(Short(letter)) > 1 /\ Head(Short(letter)) # "--"
               /\ Len(Short(letter)) = 2 /\ Short(letter)[2] = letter
    BY DEF Short, Dashed, IsPrefix
  <1>4. ASSUME NEW a, NEW b, NEW word \in ToSet(line), IsPrefix(<<"--", a, b>>, word)
        PROVE  Dashed(word) /\ Len(word) > 1 /\ Head(word) = "--"
    <2>1. word \in Seq(STRING)
      BY DEF LineOf, WellCut, ToSet
    <2> QED
      BY <1>4, <2>1, PrefixOf, DashFacts
  <1> QED
    BY <1>1, <1>2, <1>3, <1>4

LEMMA PushFound ==
  ASSUME NEW W, NEW line \in Seq(W), NEW word \in ToSet(line), Forces(word) \/ DeletesRef(word)
  PROVE  PushCode(line) # None
  <1> DEFINE I == {i \in 1..Len(line) : Forces(line[i]) \/ DeletesRef(line[i])}
             at == IF I # {} THEN Min(I) ELSE 0
  <1>1. Len(line) \in Nat /\ DOMAIN line = 1..Len(line)
    BY LenProperties
  <1>2. PushCode(line) = IF at = 0 THEN None
                         ELSE IF Forces(line[at]) THEN <<"git", "force_push">> ELSE <<"git", "push_delete">>
    BY DEF PushCode, SelectInSeq
  <1>3. I # {}
    BY <1>1 DEF ToSet
  <1>4. at # 0
    <2>1. I \in SUBSET (1..Len(line))
      OBVIOUS
    <2> HIDE DEF I
    <2> QED
      BY <1>1, <1>3, <2>1, SomeKept
  <1> HIDE DEF at, I
  <1> QED
    BY <1>2, <1>4 DEF None

LEMMA GitLoss ==
  ASSUME NEW W, NEW line, NEW r, LineOf("git", W, line, r), Kind("git", line) = "plain", GitDestroys(r)
  PROVE  GitCode(line) # None
  <1> DEFINE verb == Operand(r, 1)
             rest == {Operand(r, i) : i \in 2..Len(r.operands)}
             options == r.options
  <1>1. /\ \A path \in r.paths : ~Dashed(path)
        /\ line \in Seq(W) /\ r.operands \in Seq(W) /\ Len(r.operands) \in Nat
    BY LenProperties DEF GitDestroys, LineOf, Reads
  <1>2. ASSUME NEW w, verb = <<w>>, w \notin {"-", "--"} PROVE ~Early("git", line) /\ FirstNonFlag(line) = <<w>>
    <2>1. ~Dashed(<<w>>)
      BY <1>2 DEF Dashed, IsPrefix
    <2> QED
      BY <1>2, <2>1, VerbFound
  <1>0. \A word \in ToSet(line) : word \in Seq(STRING)
    BY DEF LineOf, WellCut, ToSet
  <1>3. rest \subseteq ToSet(line)
    <2> SUFFICES ASSUME NEW i \in 2..Len(r.operands) PROVE Operand(r, i) \in ToSet(line)
      OBVIOUS
    <2>1. i \in 1..Len(r.operands) /\ i <= Len(r.operands)
      BY <1>1
    <2> QED
      BY <2>1 DEF LineOf, LineRead, OperandsRead, Operand
  <1>4. /\ \A long : Long(long) \in options => Long(long) \in ToSet(line)
        /\ \A letter : Short(letter) \in options => \E word \in ToSet(line) : Bundled(word, letter)
        /\ \A option \in options : IsPrefix(<<"--", "force-with-lease", "=">>, option) => option \in ToSet(line)
    BY OptionsFound
  <1>5. ~Early("git", line) =>
          /\ \A long : Long(long) \in ToSet(line) => Long(long) \in options
          /\ \A letter : Short(letter) \in ToSet(line) => Short(letter) \in options
          /\ \A word \in ToSet(line) : IsPrefix(<<"--", "source", "=">>, word) => word \in options
    BY <1>1, GitWords
  <1>6. CASE /\ verb = <<"push">>
             /\ \/ options \cap {Long("force"), Short("f"), Long("force-with-lease"), Long("delete"), Short("d")} # {}
                \/ \E option \in options : IsPrefix(<<"--", "force-with-lease", "=">>, option)
                \/ \E word \in rest : Len(word) > 1 /\ Head(word) \in {"+", ":"}
    <2>1. \E word \in ToSet(line) : Forces(word) \/ DeletesRef(word)
      <3>1. CASE \E word \in rest : Len(word) > 1 /\ Head(word) \in {"+", ":"}
        <4>1. PICK word \in rest : Len(word) > 1 /\ Head(word) \in {"+", ":"}
          BY <3>1
        <4>2. word \in ToSet(line) /\ word \in Seq(STRING)
          BY <1>0, <1>3, <4>1
        <4>3. IsPrefix(<<"+">>, word) \/ IsPrefix(<<":">>, word)
          BY <4>1, <4>2, PrefixOf
        <4> QED
          BY <4>1, <4>2, <4>3 DEF Forces, DeletesRef
      <3>2. CASE \E option \in options : IsPrefix(<<"--", "force-with-lease", "=">>, option)
        BY <1>4, <3>2 DEF Forces
      <3>3. CASE options \cap {Long("force"), Short("f"), Long("force-with-lease"), Long("delete"), Short("d")} # {}
        BY <1>4, <3>3 DEF Forces, DeletesRef
      <3> QED
        BY <1>6, <3>1, <3>2, <3>3
    <2>2. PushCode(line) # None
      BY <1>1, <2>1, PushFound
    <2>3. FirstNonFlag(line) = <<"push">>
      BY <1>2, <1>6
    <2> QED
      BY <2>2, <2>3 DEF GitCode
  <1>7. CASE verb = <<"reset">> /\ Long("hard") \in options
    <2>1. FirstNonFlag(line) = <<"reset">> /\ HasArg(line, {Long("hard")})
      BY <1>2, <1>4, <1>7 DEF HasArg
    <2> QED
      BY <2>1 DEF GitCode, None
  <1>8. CASE verb = <<"clean">> /\ options \cap {Long("force"), Short("f")} # {}
    <2>1. FirstNonFlag(line) = <<"clean">> /\ \E word \in ToSet(line) : word = Long("force") \/ Bundled(word, "f")
      BY <1>2, <1>4, <1>8
    <2> QED
      BY <2>1 DEF GitCode, None
  <1>9. CASE verb = <<"checkout">> /\ (<<".">> \in rest \/ r.paths # {})
    <2>1. r.paths # {} => <<"--">> \in ToSet(line)
      BY DEF LineOf, LineRead, OperandsRead
    <2>2. FirstNonFlag(line) = <<"checkout">> /\ HasArg(line, {<<".">>, <<"--">>})
      BY <1>2, <1>3, <1>9, <2>1 DEF HasArg
    <2> QED
      BY <2>2 DEF GitCode, None
  <1>10. CASE /\ verb = <<"restore">> /\ <<".">> \in rest
              /\ options \cap {Long("source"), Short("s"), Long("staged"), Long("cached")} = {}
              /\ ~\E option \in options : IsPrefix(<<"--", "source", "=">>, option)
    <2>1. FirstNonFlag(line) = <<"restore">> /\ ~Early("git", line)
      BY <1>2, <1>10
    <2>2. HasArg(line, {<<".">>})
      BY <1>3, <1>10 DEF HasArg
    <2>3. ~HasArg(line, {Long("source"), Short("s"), Long("staged"), Long("cached")})
      BY <1>5, <1>10, <2>1 DEF HasArg
    <2>4. ~HasArgPrefix(line, <<"--", "source", "=">>)
      BY <1>5, <1>10, <2>1 DEF HasArgPrefix
    <2>5. Restores(line)
      BY <2>2, <2>3, <2>4 DEF Restores
    <2> QED
      BY <2>1, <2>5 DEF GitCode, None
  <1>11. CASE verb = <<"branch">> /\ (Short("D") \in options \/ {Long("delete"), Long("force")} \subseteq options)
    <2>1. FirstNonFlag(line) = <<"branch">>
      BY <1>2, <1>11
    <2>2. (\E word \in ToSet(line) : Bundled(word, "D")) \/ {Long("delete"), Long("force")} \subseteq ToSet(line)
      BY <1>4, <1>11
    <2> QED
      BY <2>1, <2>2 DEF GitCode, None
  <1>12. CASE verb = <<"stash">> /\ Operand(r, 2) \in {<<"drop">>, <<"clear">>}
    <2>1. ~Dashed(Operand(r, 2)) /\ Operand(r, 2) \notin {<<>>, <<"stash">>}
      BY <1>12 DEF Dashed, IsPrefix
    <2>2. FirstNonFlag(line) = <<"stash">> /\ FirstNonFlag(After(line, <<"stash">>)) = Operand(r, 2)
      BY <1>12, <2>1, PairFound
    <2> QED
      BY <1>12, <2>2 DEF GitCode, None
  <1>13. CASE verb = <<"filter-branch">>
    <2>1. FirstNonFlag(line) = <<"filter-branch">>
      BY <1>2, <1>13
    <2> QED
      BY <2>1 DEF GitCode, None
  <1>14. CASE verb = <<"filter-repo">> /\ Long("analyze") \notin options
    <2>1. FirstNonFlag(line) = <<"filter-repo">> /\ ~Early("git", line)
      BY <1>2, <1>14
    <2>2. ~HasArg(line, {Long("analyze")})
      BY <1>5, <1>14, <2>1 DEF HasArg
    <2> QED
      BY <2>1, <2>2 DEF GitCode, None
  <1> QED
    BY <1>6, <1>7, <1>8, <1>9, <1>10, <1>11, <1>12, <1>13, <1>14 DEF GitDestroys

\* The rule of each tool that can destroy something.
LEMMA RuleOf ==
  ASSUME NEW tool, NEW line
  PROVE  LET code == CodeOf(tool, line) IN
         /\ tool = "git" => code = GitCode(line)
         /\ tool = "kubectl" => code = VerbCode("kubectl", line, <<"infra", "kubectl", "destructive">>)
         /\ tool = "helm" => code = VerbCode("helm", line, <<"infra", "helm", "mutation">>)
         /\ tool = "gsutil" =>
              code = IF FirstNonFlag(line) \in CopyVerbs THEN <<"infra", "gsutil", "mutation">> ELSE None
         /\ tool = "docker" => code = DockerCode(line)
         /\ tool = "terraform" => code = TerraformCode(line)
         /\ tool = "gcloud" => code = GcloudCode(line)
         /\ tool = "curl" => code = CurlCode(line)
         /\ tool = "aws" => code = AwsCode(line)
         /\ tool = "az" => code = NounVerbCode(tool, line, <<"infra", "azure", "destructive">>)
         /\ tool = "oci" => code = NounVerbCode(tool, line, <<"infra", "oci", "destructive">>)
         /\ tool = "ibmcloud" => code = NounVerbCode(tool, line, <<"infra", "ibmcloud", "destructive">>)
         /\ tool \in {"psql", "mysql"} => code = SqlCode(line)
         /\ tool = "redis-cli" => code = RedisCode(line)
         /\ tool = "supabase" => code = CheckSupabase(line)
         /\ tool = "python" => code = PythonCode(line)
         /\ tool = "prisma" => code = PrismaCode(line)
         /\ tool = "knex" => code = IF HasArgPrefix(line, <<"migrate:">>) THEN <<"supabase", "knex_migration">> ELSE None
         /\ tool \in PaasClis => code = PaasCode(tool, line)
         /\ tool \in Migrators => code = IF HasArg(line, Verbs[tool]) THEN MigrationCode[tool] ELSE None
  <1>1. CASE tool \in PaasClis
    <2>1. tool \notin Ruled
      BY <1>1, RulesAssumption
    <2>2. tool \notin Migrators
      BY <2>1 DEF Ruled
    <2> QED
      BY <1>1, <2>1, <2>2, MigrationNames DEF CodeOf, Ruled
  <1>2. CASE tool \in Migrators
    <2>1. tool \in Ruled
      BY <1>2 DEF Ruled
    <2> QED
      BY <1>2, <2>1, MigrationNames, RulesAssumption DEF CodeOf, Migrators
  <1>3. CASE tool \notin PaasClis \cup Migrators
    <2>1. CASE tool \in {"git", "kubectl", "helm", "gsutil", "docker", "terraform", "gcloud", "curl"}
      BY <1>3, <2>1, MigrationNames DEF CodeOf
    <2>2. CASE tool \in {"aws", "az", "oci", "ibmcloud", "psql", "mysql"}
      BY <1>3, <2>2, MigrationNames DEF CodeOf
    <2>3. CASE tool \in {"redis-cli", "supabase", "python", "prisma", "knex"}
      BY <1>3, <2>3, MigrationNames DEF CodeOf
    <2> QED
      BY <1>3, <2>1, <2>2, <2>3
  <1> QED
    BY <1>1, <1>2, <1>3

LEMMA VerbLoss ==
  ASSUME NEW tool, NEW W, NEW line, NEW r, LineOf(tool, W, line, r), Kind(tool, line) = "plain",
         NEW pair, pair = <<Operand(r, 1), Operand(r, 2)>>,
         \/ tool \in VerbFirst /\ pair[1] \in Verbs[tool]
         \/ tool = "docker" /\ pair = <<<<"system">>, <<"prune">>>>
         \/ tool = "terraform" /\ pair = <<<<"state">>, <<"rm">>>>
         \/ tool = "gsutil" /\ pair[1] \in CopyVerbs
  PROVE  CodeOf(tool, line) # None
  <1> DEFINE verb == Operand(r, 1)
  <1>1. pair[1] = verb /\ pair[2] = Operand(r, 2)
    OBVIOUS
  <1>2. tool \in VerbFirst \cup {"gsutil"} /\ verb # <<>> /\ ~Dashed(verb) /\ (tool # "terraform" \/ verb # <<"state">>)
          => FirstNonFlag(line) = verb
    BY VerbFound
  <1>3. Operand(r, 2) # <<>> => Operand(r, 2) \in ToSet(line)
    BY OperandsFound
  <1> HIDE DEF verb
  <1>4. CASE tool \in VerbFirst /\ pair[1] \in Verbs[tool]
    <2>1. tool \in {"kubectl", "helm", "docker", "terraform"}
      BY <1>4 DEF VerbFirst
    <2>2. verb # <<>> /\ ~Dashed(verb) /\ (tool # "terraform" \/ verb # <<"state">>)
      BY <1>1, <1>4, <2>1, RulesAssumption, TablesAssumption
    <2>3. FirstNonFlag(line) \in Verbs[tool]
      BY <1>1, <1>2, <1>4, <2>2
    <2> QED
      BY <2>1, <2>3, RuleOf DEF VerbCode, DockerCode, TerraformCode, None
  <1>5. CASE tool = "docker" /\ pair = <<<<"system">>, <<"prune">>>>
    <2>1. verb = <<"system">> /\ Operand(r, 2) = <<"prune">> /\ ~Dashed(<<"system">>)
      BY <1>1, <1>5 DEF Dashed, IsPrefix
    <2>2. FirstNonFlag(line) = <<"system">> /\ HasArg(line, {<<"prune">>})
      BY <1>2, <1>3, <1>5, <2>1 DEF HasArg, VerbFirst
    <2> QED
      BY <1>5, <2>2, RuleOf DEF DockerCode, None
  <1>6. CASE tool = "terraform" /\ pair = <<<<"state">>, <<"rm">>>>
    <2>1. verb = <<"state">> /\ Operand(r, 2) = <<"rm">> /\ ~Dashed(<<"rm">>)
      BY <1>1, <1>6 DEF Dashed, IsPrefix
    <2>2. FirstNonFlag(line) = <<"state">> /\ FirstNonFlag(After(line, <<"state">>)) = <<"rm">>
      BY <1>6, <2>1, PairFound DEF verb
    <2> QED
      BY <1>6, <2>2, RuleOf DEF TerraformCode, None
  <1>7. CASE tool = "gsutil" /\ pair[1] \in CopyVerbs
    <2>1. verb # <<>> /\ ~Dashed(verb)
      BY <1>1, <1>7, RulesAssumption, TablesAssumption
    <2>2. FirstNonFlag(line) \in CopyVerbs
      BY <1>1, <1>2, <1>7, <2>1
    <2> QED
      BY <1>7, <2>2, RuleOf DEF None
  <1> QED
    BY <1>4, <1>5, <1>6, <1>7

LEMMA GcloudFound ==
  ASSUME NEW W, NEW line \in Seq(W), NEW word \in ToSet(line),
         word \in Verbs["gcloud"] \/ (word = <<"storage">> /\ HasArg(line, CopyVerbs))
  PROVE  GcloudCode(line) # None
  <1> DEFINE hit(w) == w \in Verbs["gcloud"] \/ (w = <<"storage">> /\ HasArg(line, CopyVerbs))
             I == {i \in 1..Len(line) : hit(line[i])}
             at == IF I # {} THEN Min(I) ELSE 0
  <1>1. Len(line) \in Nat /\ DOMAIN line = 1..Len(line)
    BY LenProperties
  <1>2. at # 0 => GcloudCode(line) = IF line[at] \in Verbs["gcloud"] THEN <<"infra", "gcloud", "destructive">>
                                     ELSE <<"infra", "gcs", "storage_mutation">>
    BY DEF GcloudCode, SelectInSeq
  <1>3. I # {}
    BY <1>1 DEF ToSet
  <1>4. at # 0
    <2>1. I \in SUBSET (1..Len(line))
      OBVIOUS
    <2> HIDE DEF I
    <2> QED
      BY <1>1, <1>3, <2>1, SomeKept
  <1> HIDE DEF at, I
  <1> QED
    BY <1>2, <1>4 DEF None

LEMMA CloudLoss ==
  ASSUME NEW tool, NEW W, NEW line, NEW r, LineOf(tool, W, line, r), Kind(tool, line) = "plain",
         NEW pair, pair = <<Operand(r, 1), Operand(r, 2)>>,
         \/ tool \in VerbAnywhere /\ ToSet(r.operands) \cap Verbs[tool] # {}
         \/ tool = "gcloud" /\ pair[1] = <<"storage">> /\ pair[2] \in CopyVerbs
         \/ tool = "gcloud" /\ pair = <<<<"compute">>, <<"ssh">>>>
              /\ \E i \in Given(r, Deciding(tool)) : ToSet(r.values[i].value) \cap Mutators # {}
         \/ tool = "curl" /\ CurlDestroys(r)
         \/ tool = "aws" /\ ((\E word \in ToSet(r.operands) : word # <<>> /\ Head(word) \in AwsPrefixes)
                               \/ pair = <<<<"s3">>, <<"rm">>>>)
  PROVE  CodeOf(tool, line) # None
  <1>1. /\ \A i \in {1, 2} : Operand(r, i) # <<>> => Operand(r, i) \in ToSet(line)
        /\ Operand(r, 2) # <<>> => InOrder(line, Operand(r, 1), Operand(r, 2))
        /\ ToSet(r.operands) \subseteq ToSet(line)
    BY OperandsFound
  <1>2. pair[1] = Operand(r, 1) /\ pair[2] = Operand(r, 2) /\ line \in Seq(W)
    BY DEF LineOf
  <1>3. CASE tool \in VerbAnywhere /\ ToSet(r.operands) \cap Verbs[tool] # {}
    <2>1. PICK word \in ToSet(line) : word \in Verbs[tool]
      BY <1>1, <1>3
    <2>2. HasArg(line, Verbs[tool])
      BY <2>1 DEF HasArg
    <2>3. tool \in Migrators \cup {"gcloud", "az", "oci", "ibmcloud"}
      BY <1>3, MigrationNames DEF VerbAnywhere
    <2>4. CASE tool \in Migrators
      <3>1. MigrationCode[tool] # None
        BY <2>4 DEF MigrationCode, None
      <3> QED
        BY <2>2, <2>4, <3>1, RuleOf
    <2>5. CASE tool = "gcloud"
      BY <1>2, <2>1, <2>5, GcloudFound, RuleOf
    <2>6. CASE tool \in {"az", "oci", "ibmcloud"}
      BY <2>2, <2>6, RuleOf DEF NounVerbCode, None
    <2> QED
      BY <2>3, <2>4, <2>5, <2>6
  <1>4. CASE tool = "gcloud" /\ pair[1] = <<"storage">> /\ pair[2] \in CopyVerbs
    <2>1. Operand(r, 1) \in ToSet(line) /\ Operand(r, 2) \in ToSet(line)
      BY <1>1, <1>2, <1>4, RulesAssumption
    <2>2. <<"storage">> \in ToSet(line) /\ HasArg(line, CopyVerbs)
      BY <1>2, <1>4, <2>1 DEF HasArg
    <2>3. GcloudCode(line) # None
      BY <1>2, <2>2, GcloudFound
    <2> QED
      BY <1>4, <2>3, RuleOf
  <1>5. CASE tool = "gcloud" /\ pair = <<<<"compute">>, <<"ssh">>>>
               /\ \E i \in Given(r, Deciding(tool)) : ToSet(r.values[i].value) \cap Mutators # {}
    <2>1. InOrder(line, <<"compute">>, <<"ssh">>)
      BY <1>1, <1>2, <1>5
    <2>2. PICK i \in Given(r, Deciding(tool)) : ToSet(r.values[i].value) \cap Mutators # {}
      BY <1>5
    <2>3. Looked(tool) = {Long("command")}
      BY <1>5 DEF Looked, Deciding
    <2>4. FirstValue(line, {Long("command")}) = r.values[i].value
      <3>1. i \in Given(r, Deciding(tool)) /\ tool \in {"psql", "mysql", "gcloud", "curl"}
        BY <1>5, <2>2
      <3>2. FirstValue(line, Looked(tool)) = r.values[i].value
        BY <3>1, ValueFound
      <3> QED
        BY <2>3, <3>2
    <2>5. RemoteMutation(line)
      BY <2>2, <2>4 DEF RemoteMutation
    <2>6. GcloudCode(line) # None
      BY <2>1, <2>5 DEF GcloudCode, None
    <2> QED
      BY <1>5, <2>6, RuleOf
  <1>6. CASE tool = "curl" /\ CurlDestroys(r)
    <2> DEFINE options == {Short("X"), Long("request")}
               given == Given(r, options)
    <2>0. Deciding(tool) = options /\ Looked(tool) = options /\ Deciding("curl") = options
      BY <1>6 DEF Looked, Deciding
    <2>1. given # {}
      <3>1. Given(Read(tool, line), Deciding(tool)) # {}
        BY <1>2, <1>6, PlainForm
      <3> QED
        BY <2>0, <3>1 DEF LineOf
    <2>2. Method(r) = r.values[Max(given)].value
      BY <2>0, <2>1 DEF Method
    <2>3. PICK method \in Mutating : r.values[Max(given)].value = <<method>>
      BY <1>6, <2>2 DEF CurlDestroys
    <2>4. Max(given) \in given
      <3>1. r.values \in Seq([option : Seq(Text), value : Seq(STRING)])
        BY DEF LineOf, Reads
      <3>2. Len(r.values) \in Nat /\ DOMAIN r.values = 1..Len(r.values)
        BY <3>1, LenProperties
      <3>3. given \in SUBSET (1..Len(r.values))
        BY <3>2 DEF Given
      <3> HIDE DEF given
      <3> QED
        BY <2>1, <3>2, <3>3, Greatest
    <2>5. FirstValue(line, options) = <<method>>
      <3>1. PICK k \in Given(r, Deciding(tool)) : r.values[k].value = <<method>>
        BY <2>0, <2>3, <2>4
      <3>2. FirstValue(line, Looked(tool)) = r.values[k].value
        BY <1>6, ValueFound
      <3> QED
        BY <2>0, <3>1, <3>2
    <2>6. Len(<<method>>) = 1 /\ Upper(Head(<<method>>)) = method /\ method \in {"POST", "PUT", "DELETE", "PATCH"}
      <3>1. method \notin DOMAIN CaseFold
        BY TablesAssumption
      <3> QED
        BY <3>1 DEF Upper, Mutating
    <2>7. \A pieces : Mentions(r.operands, pieces) => Mentions(line, pieces)
      BY <1>1 DEF Mentions
    <2>8. (\E i \in Given(r, Sending) : "{mutation" \in ToSet(r.values[i].value)) => Mentions(line, {"{mutation"})
      <3> SUFFICES ASSUME NEW i \in Given(r, Sending), "{mutation" \in ToSet(r.values[i].value)
                   PROVE  Mentions(line, {"{mutation"})
        OBVIOUS
      <3>1. r.values \in Seq([option : Seq(Text), value : Seq(STRING)])
        BY DEF LineOf, Reads
      <3>2. i \in 1..Len(r.values) /\ r.values[i].value # <<>>
        BY <3>1, LenProperties DEF Given
      <3>3. PICK word \in ToSet(line) : ToSet(r.values[i].value) \subseteq ToSet(word)
        BY <3>2 DEF LineOf, LineRead, PiecesRead
      <3> QED
        BY <3>3 DEF Mentions
    <2>9. \/ Mentions(line, CloudHosts) \/ Mentions(line, SearchHosts)
          \/ Mentions(line, {"graphql"}) /\ Mentions(line, {"{mutation"})
      <3>1. Mentions(line, CloudHosts \cup SearchHosts) => Mentions(line, CloudHosts) \/ Mentions(line, SearchHosts)
        BY DEF Mentions
      <3> QED
        BY <1>6, <2>7, <2>8, <3>1 DEF CurlDestroys
    <2>10. CurlCode(line) # None
      BY <2>5, <2>6, <2>9 DEF CurlCode, None
    <2> QED
      BY <1>6, <2>10, RuleOf
  <1>7. CASE tool = "aws" /\ ((\E word \in ToSet(r.operands) : word # <<>> /\ Head(word) \in AwsPrefixes)
                                \/ pair = <<<<"s3">>, <<"rm">>>>)
    <2>1. pair = <<<<"s3">>, <<"rm">>>> => InOrder(line, <<"s3">>, <<"rm">>)
      BY <1>1, <1>2
    <2>2. AwsCode(line) # None
      BY <1>1, <1>7, <2>1 DEF AwsCode, None
    <2> QED
      BY <1>7, <2>2, RuleOf
  <1> QED
    BY <1>3, <1>4, <1>5, <1>6, <1>7

LEMMA SqlLoss ==
  ASSUME NEW tool \in {"psql", "mysql"}, NEW W, NEW line, NEW r, LineOf(tool, W, line, r),
         Kind(tool, line) = "plain",
         NEW i \in Given(r, Deciding(tool)), ToSet(r.values[i].value) \cap SqlBodies # {}
  PROVE  CodeOf(tool, line) # None
  <1>1. Looked(tool) = SqlOptions
    BY DEF Looked
  <1>2. FirstValue(line, SqlOptions) = r.values[i].value
    BY <1>1, ValueFound
  <1>3. SqlCode(line) # None
    BY <1>2 DEF SqlCode, None
  <1> QED
    BY <1>3, RuleOf

LEMMA MigrationLoss ==
  ASSUME NEW tool, NEW W, NEW line, NEW r, LineOf(tool, W, line, r), Kind(tool, line) = "plain",
         NEW pair, pair = <<Operand(r, 1), Operand(r, 2)>>,
         \/ tool = "supabase" /\ pair = <<<<"db">>, <<"push">>>>
         \/ tool = "supabase" /\ pair = <<<<"db">>, <<"reset">>>> /\ Long("linked") \in r.options
         \/ tool = "supabase" /\ IsPrefix(<<<<"migration">>, <<"repair">>>>, line)
         \/ tool = "supabase" /\ \E option \in r.options : IsPrefix(Long("db-url"), option)
         \/ tool = "python" /\ pair[1] # <<>> /\ Last(pair[1]) = "manage.py" /\ pair[2] = <<"migrate">>
         \/ tool = "prisma" /\ pair = <<<<"migrate">>, <<"deploy">>>>
         \/ tool = "knex" /\ \E word \in ToSet(r.operands) : word # <<>> /\ Head(word) = "migrate:"
  PROVE  CodeOf(tool, line) # None
  <1>1. /\ Operand(r, 2) # <<>> => InOrder(line, Operand(r, 1), Operand(r, 2))
        /\ ToSet(r.operands) \subseteq ToSet(line)
    BY OperandsFound
  <1>2. /\ pair[1] = Operand(r, 1) /\ pair[2] = Operand(r, 2) /\ line \in Seq(W)
        /\ Len(line) \in Nat /\ DOMAIN line = 1..Len(line)
        /\ \A word \in ToSet(line) : word \in Seq(STRING)
    BY LenProperties DEF LineOf, WellCut, ToSet
  <1>3. CASE tool = "supabase" /\ pair = <<<<"db">>, <<"push">>>>
    <2>1. InOrder(line, <<"db">>, <<"push">>)
      BY <1>1, <1>2, <1>3
    <2> QED
      BY <1>3, <2>1, RuleOf DEF CheckSupabase, None
  <1>4. CASE tool = "supabase" /\ pair = <<<<"db">>, <<"reset">>>> /\ Long("linked") \in r.options
    <2>1. InOrder(line, <<"db">>, <<"reset">>)
      BY <1>1, <1>2, <1>4
    <2>2. HasArg(line, {Long("linked")})
      BY <1>4, OptionsFound DEF HasArg
    <2>3. CheckSupabase(line) # None
      BY <2>1, <2>2 DEF CheckSupabase, None
    <2> QED
      BY <1>4, <2>3, RuleOf
  <1>5. CASE tool = "supabase" /\ IsPrefix(<<<<"migration">>, <<"repair">>>>, line)
    <2> DEFINE pieces == <<<<"migration">>, <<"repair">>>>
               S == W \cup {<<"migration">>, <<"repair">>}
    <2>1. pieces \in Seq(S) /\ Len(pieces) = 2 /\ pieces[1] = <<"migration">> /\ pieces[2] = <<"repair">>
      OBVIOUS
    <2>2. line \in Seq(S)
      <3>1. W \subseteq S
        OBVIOUS
      <3> HIDE DEF S
      <3> QED
        BY <1>2, <3>1, SeqMonotonic
    <2>3. IsPrefix(pieces, line)
      BY <1>5
    <2> HIDE DEF pieces, S
    <2>4. 2 <= Len(line) /\ \A i \in 1..2 : pieces[i] = line[i]
      <3>1. pieces \in Seq(S)
        BY <2>1
      <3>2. IsPrefix(pieces, line) <=> Len(pieces) <= Len(line) /\ \A i \in 1..Len(pieces) : pieces[i] = line[i]
        BY <2>2, <3>1, PrefixMeans
      <3> QED
        BY <2>1, <2>3, <3>2
    <2>5. 1 \in 1..(Len(line) - 1) /\ line[1] = <<"migration">> /\ line[1 + 1] = <<"repair">>
      BY <1>2, <2>1, <2>4
    <2>6. \E i \in 1..(Len(line) - 1) :
            line[i] \in {<<"migration">>, <<"migrations">>} /\ line[i + 1] = <<"repair">>
      BY <2>5
    <2>7. CheckSupabase(line) # None
      BY <2>6 DEF CheckSupabase, None
    <2> QED
      BY <1>5, <2>7, RuleOf
  <1>6. CASE tool = "supabase" /\ \E option \in r.options : IsPrefix(Long("db-url"), option)
    <2>1. HasArgPrefix(line, Long("db-url"))
      BY <1>6, OptionsFound DEF HasArgPrefix, Long
    <2>2. CheckSupabase(line) # None
      BY <2>1 DEF CheckSupabase, None
    <2> QED
      BY <1>6, <2>2, RuleOf
  <1>7. CASE tool = "python" /\ pair[1] # <<>> /\ Last(pair[1]) = "manage.py" /\ pair[2] = <<"migrate">>
    <2>1. line[1] = pair[1]
      BY <1>2, <1>7, PlainForm DEF LineOf
    <2>2. InOrder(line, pair[1], <<"migrate">>)
      <3>1. Operand(r, 2) = <<"migrate">>
        BY <1>2, <1>7
      <3> QED
        BY <1>1, <1>2, <3>1
    <2>3. PICK j \in DOMAIN line : line[j] = <<"migrate">> /\ \E i \in DOMAIN line : i < j
      BY <2>2 DEF InOrder
    <2>4. j \in 2..Len(line) /\ Len(line) >= 2 /\ line # <<>>
      BY <1>2, <2>3
    <2>5. Tail(line) \in Seq(W) /\ Len(Tail(line)) = Len(line) - 1 /\ Tail(line)[j - 1] = line[j]
      BY <1>2, <2>4
    <2>6. HasArg(Tail(line), {<<"migrate">>})
      <3>1. j - 1 \in 1..Len(Tail(line)) /\ DOMAIN Tail(line) = 1..Len(Tail(line))
        BY <1>2, <2>4, <2>5, LenProperties
      <3>2. <<"migrate">> \in ToSet(Tail(line))
        BY <2>3, <2>5, <3>1 DEF ToSet
      <3> QED
        BY <3>2 DEF HasArg
    <2>7. PythonCode(line) # None
      BY <1>7, <2>1, <2>4, <2>6 DEF PythonCode, None
    <2> QED
      BY <1>7, <2>7, RuleOf
  <1>8. CASE tool = "prisma" /\ pair = <<<<"migrate">>, <<"deploy">>>>
    <2>1. InOrder(line, <<"migrate">>, <<"deploy">>)
      BY <1>1, <1>2, <1>8
    <2> QED
      BY <1>8, <2>1, RuleOf DEF PrismaCode, None
  <1>9. CASE tool = "knex" /\ \E word \in ToSet(r.operands) : word # <<>> /\ Head(word) = "migrate:"
    <2>1. PICK word \in ToSet(line) : word # <<>> /\ Head(word) = "migrate:"
      BY <1>1, <1>9
    <2>2. word \in Seq(STRING)
      BY <1>2
    <2>3. Len(word) > 0
      BY <2>1, <2>2, EmptySeq, LenProperties
    <2>4. IsPrefix(<<"migrate:">>, word)
      BY <2>1, <2>2, <2>3, PrefixOf
    <2>5. HasArgPrefix(line, <<"migrate:">>)
      BY <2>4 DEF HasArgPrefix
    <2> QED
      BY <1>9, <2>5, RuleOf DEF None
  <1> QED
    BY <1>3, <1>4, <1>5, <1>6, <1>7, <1>8, <1>9

\* Whatever a tool destroys when it is told plainly, its rule has a code for.
LEMMA LossCode ==
  ASSUME NEW tool, NEW W, NEW line, LineOf(tool, W, line, Read(tool, line)), "plain" \in Loss(tool, line)
  PROVE  CodeOf(tool, line) # None
  <1> DEFINE r == Read(tool, line)
             pair == <<Operand(r, 1), Operand(r, 2)>>
  <1>1. Destroys(tool, line) /\ Kind(tool, line) = "plain"
    BY DEF Loss
  <1>2. LineOf(tool, W, line, r)
    OBVIOUS
  <1> HIDE DEF r, pair
  <1>3. tool = "git" /\ GitDestroys(r) => CodeOf(tool, line) # None
    BY <1>1, <1>2, GitLoss, RuleOf
  <1>4. ToSet(r.operands) \subseteq ToSet(line) /\ pair = <<Operand(r, 1), Operand(r, 2)>>
    BY <1>2, OperandsFound DEF pair
  <1>5. tool \in PaasClis /\ (\E word \in ToSet(r.operands) :
           ~Dashed(word) /\ word # <<>> /\ (word \in PaasVerbs \/ Last(word) \in PaasSuffixes))
          => CodeOf(tool, line) # None
    BY <1>4, RuleOf DEF PaasCode, None
  <1>6. tool = "redis-cli" /\ (\E word \in ToSet(r.operands) : Len(word) = 1 /\ <<Upper(Head(word))>> \in Verbs[tool])
          => CodeOf(tool, line) # None
    <2> SUFFICES ASSUME tool = "redis-cli",
                        NEW word \in ToSet(r.operands), Len(word) = 1, <<Upper(Head(word))>> \in Verbs[tool]
                 PROVE  CodeOf(tool, line) # None
      OBVIOUS
    <2>1. word \in ToSet(line) /\ <<Upper(Head(word))>> \in Verbs["redis-cli"]
      BY <1>4
    <2>2. RedisCode(line) # None
      BY <2>1 DEF RedisCode, None
    <2> QED
      BY <2>2, RuleOf
  <1>7. tool \in {"psql", "mysql"} /\ (\E i \in Given(r, Deciding(tool)) : ToSet(r.values[i].value) \cap SqlBodies # {})
          => CodeOf(tool, line) # None
    BY <1>1, <1>2, SqlLoss
  <1>8. ASSUME \/ tool \in VerbFirst /\ pair[1] \in Verbs[tool]
               \/ tool = "docker" /\ pair = <<<<"system">>, <<"prune">>>>
               \/ tool = "terraform" /\ pair = <<<<"state">>, <<"rm">>>>
               \/ tool = "gsutil" /\ pair[1] \in CopyVerbs
        PROVE  CodeOf(tool, line) # None
    BY <1>1, <1>2, <1>4, <1>8, VerbLoss
  <1>9. ASSUME \/ tool \in VerbAnywhere /\ ToSet(r.operands) \cap Verbs[tool] # {}
               \/ tool = "gcloud" /\ pair[1] = <<"storage">> /\ pair[2] \in CopyVerbs
               \/ tool = "gcloud" /\ pair = <<<<"compute">>, <<"ssh">>>>
                    /\ \E i \in Given(r, Deciding(tool)) : ToSet(r.values[i].value) \cap Mutators # {}
               \/ tool = "curl" /\ CurlDestroys(r)
               \/ tool = "aws" /\ ((\E word \in ToSet(r.operands) : word # <<>> /\ Head(word) \in AwsPrefixes)
                                     \/ pair = <<<<"s3">>, <<"rm">>>>)
        PROVE  CodeOf(tool, line) # None
    BY <1>1, <1>2, <1>4, <1>9, CloudLoss
  <1>10. ASSUME \/ tool = "supabase" /\ pair = <<<<"db">>, <<"push">>>>
                \/ tool = "supabase" /\ pair = <<<<"db">>, <<"reset">>>> /\ Long("linked") \in r.options
                \/ tool = "supabase" /\ IsPrefix(<<<<"migration">>, <<"repair">>>>, line)
                \/ tool = "supabase" /\ \E option \in r.options : IsPrefix(Long("db-url"), option)
                \/ tool = "python" /\ pair[1] # <<>> /\ Last(pair[1]) = "manage.py" /\ pair[2] = <<"migrate">>
                \/ tool = "prisma" /\ pair = <<<<"migrate">>, <<"deploy">>>>
                \/ tool = "knex" /\ \E word \in ToSet(r.operands) : word # <<>> /\ Head(word) = "migrate:"
        PROVE  CodeOf(tool, line) # None
    BY <1>1, <1>2, <1>4, <1>10, MigrationLoss
  <1> QED
    BY <1>1, <1>3, <1>5, <1>6, <1>7, <1>8, <1>9, <1>10, Zenon DEF Destroys, r, pair

-----------------------------------------------------------------------------
(* The call.                                                               *)

AllWords == UNION {Words[tool] : tool \in Names}

AllCodes == {CodeOf(tool, line) : tool \in Names, line \in Seq(AllWords)} \ {None}

Counts ==
  /\ name \in Names \cup {NoName} /\ visible \in BOOLEAN /\ loss \subseteq Kinds
  /\ words \in 0..MaxWords /\ commands \in 0..MaxCommands

Lines ==
  /\ args \in Seq(AllWords) /\ Len(args) <= words
  /\ name # NoName => ToSet(args) \subseteq Words[name]

Codes ==
  /\ codes \in Seq(AllCodes)
  /\ Len(codes) + (IF name = NoName THEN 0 ELSE 1) <= commands

Answers ==
  answer = Undecided
    \/ /\ name = NoName
       /\ answer.level = (IF answer.codes = <<>> THEN "allow" ELSE "ask")
       /\ answer.codes = (IF ~visible THEN <<>> ELSE codes) \/ (visible /\ answer.codes = <<ParseError>>)
       /\ answer.intent = Intent(answer.codes)

CallInv == Counts /\ Lines /\ Codes /\ Answers

LEMMA CallInit == Init => CallInv
  <1> SUFFICES ASSUME Init PROVE CallInv
    OBVIOUS
  <1>1. <<>> \in Seq(AllWords) /\ <<>> \in Seq(AllCodes) /\ Len(<<>>) = 0
    OBVIOUS
  <1> QED
    <2>1. Counts
      <3>1. visible \in BOOLEAN
        BY DEF Init
      <3>2. name = NoName /\ loss = {} /\ words = 0 /\ commands = 0
        BY DEF Init
      <3> QED
        BY <3>1, <3>2, PipelineAssumption DEF Counts
    <2>2. Lines
      BY <1>1 DEF Init, Lines
    <2>3. Codes
      BY <1>1 DEF Init, Codes
    <2>4. Answers
      BY DEF Init, Answers
    <2> QED
      BY <2>1, <2>2, <2>3, <2>4 DEF CallInv

LEMMA LossKinds ==
  ASSUME NEW tool, NEW line
  PROVE  Loss(tool, line) \subseteq Kinds
  <1>1. Kind(tool, line) \in Kinds
    BY DEF Kind, Kinds
  <1> QED
    BY <1>1 DEF Loss

LEMMA BeginCall ==
  ASSUME CallInv, NEW next \in Names, NEW spelling, Begin(next, spelling)
  PROVE  CallInv'
  <1> USE DEF CallInv, Begin
  <1>1. Counts'
    BY PipelineAssumption DEF Counts
  <1>2. Lines'
    <2>1. ToSet(args') = {} /\ args' \in Seq(AllWords) /\ Len(args') = 0
      BY NoPieces
    <2> QED
      BY <2>1 DEF Lines, Counts
  <1>3. Codes'
    <2>1. Len(codes) \in Nat
      BY LenProperties DEF Codes
    <2> QED
      BY <2>1 DEF Codes, Counts
  <1>4. Answers'
    BY DEF Answers
  <1> QED
    BY <1>1, <1>2, <1>3, <1>4

LEMMA WordCall ==
  ASSUME CallInv, name # NoName, NEW word \in Words[name], Word(word)
  PROVE  CallInv'
  <1> USE DEF CallInv, Word
  <1>1. word \in AllWords
    BY DEF AllWords, Counts
  <1>2. /\ args' \in Seq(AllWords) /\ Len(args) \in Nat /\ Len(args') = Len(args) + 1
        /\ ToSet(args') = ToSet(args) \cup {word}
    BY <1>1, OneMore DEF Lines
  <1>3. Counts'
    BY PipelineAssumption DEF Counts
  <1>4. Lines'
    BY <1>2 DEF Lines, Counts
  <1>5. Codes'
    BY DEF Codes
  <1>6. Answers'
    BY DEF Answers
  <1> QED
    BY <1>3, <1>4, <1>5, <1>6

LEMMA EndCall ==
  ASSUME CallInv, End
  PROVE  CallInv'
  <1> DEFINE code == CodeOf(name, args)
  <1> USE DEF CallInv
  <1>1. /\ name # NoName /\ name \in Names /\ name' = NoName /\ args' = <<>>
        /\ codes' = (IF code = None THEN codes ELSE Append(codes, code))
        /\ loss' = loss \cup Loss(name, args) /\ UNCHANGED <<visible, answer, words, commands>>
    BY DEF End, Counts
  <1>2. code # None => code \in AllCodes
    BY <1>1 DEF AllCodes, Lines
  <1> HIDE DEF code
  <1>3. codes' \in Seq(AllCodes) /\ Len(codes) \in Nat /\ Len(codes') <= Len(codes) + 1
    BY <1>1, <1>2, AppendProperties, LenProperties DEF Codes
  <1>4. Counts'
    BY <1>1, LossKinds DEF Counts
  <1>5. Lines'
    <2>1. args' \in Seq(AllWords) /\ Len(args') = 0
      BY <1>1
    <2> QED
      BY <1>1, <2>1 DEF Lines, Counts
  <1>6. Codes'
    BY <1>1, <1>3 DEF Codes, Counts
  <1>7. Answers'
    BY <1>1 DEF Answers
  <1> QED
    BY <1>4, <1>5, <1>6, <1>7

LEMMA AnswerCall ==
  ASSUME CallInv, NEW parses \in BOOLEAN, Answer(parses)
  PROVE  CallInv'
  <1> USE DEF CallInv, Answer
  <1>1. Counts' /\ Lines' /\ Codes'
    BY DEF Counts, Lines, Codes
  <1>2. Answers'
    <2>1. answer' = [level |-> IF Found(parses) = <<>> THEN "allow" ELSE "ask", codes |-> Found(parses),
                     intent |-> Intent(Found(parses))]
      OBVIOUS
    <2>2. Found(parses) = (IF ~visible THEN <<>> ELSE codes) \/ (visible /\ Found(parses) = <<ParseError>>)
      BY DEF Found
    <2>3. Intent(Found(parses)) = Intent(answer'.codes) /\ name' = NoName
          /\ visible' = visible /\ codes' = codes
      BY <2>1
    <2> QED
      BY <2>1, <2>2, <2>3 DEF Answers
  <1> QED
    BY <1>1, <1>2

LEMMA CallNext == CallInv /\ [Next]_vars => CallInv'
  <1> SUFFICES ASSUME CallInv, [Next]_vars PROVE CallInv'
    OBVIOUS
  <1>1. ASSUME NEW next \in Names, NEW spelling \in Spellings[next], Begin(next, spelling) PROVE CallInv'
    BY <1>1, BeginCall
  <1>2. ASSUME NEW word \in IF name = NoName THEN {} ELSE Words[name], Word(word) PROVE CallInv'
    BY <1>2, WordCall
  <1>3. CASE End
    BY <1>3, EndCall
  <1>4. ASSUME NEW parses \in BOOLEAN, Answer(parses) PROVE CallInv'
    BY <1>4, AnswerCall
  <1>5. CASE UNCHANGED vars
    BY <1>5 DEF vars, CallInv, Counts, Lines, Codes, Answers
  <1> QED
    BY <1>1, <1>2, <1>3, <1>4, <1>5 DEF Next, Finished

LEMMA Called == Spec => []CallInv
  BY CallInit, CallNext, PTL DEF Spec

\* What the tool would destroy is a decision already, and everything of the
\* command under way has been read.
LossInv ==
  /\ name # NoName => LineOf(name, Words[name], args, Read(name, args))
  /\ "plain" \in loss => codes # <<>>

LEMMA LossBegin ==
  ASSUME LossInv, NEW next \in Names, NEW spelling, Begin(next, spelling)
  PROVE  LossInv'
  <1>1. name' = next /\ args' = <<>> /\ loss' = loss /\ codes' = codes
    BY DEF Begin
  <1>2. WellCut(Words[next])
    BY WordsAssumption DEF WellCut
  <1>3. Read(next, <<>>) = Fresh /\ Fresh \in Reads(Words[next]) /\ LineRead(next, <<>>, Fresh)
    BY ReadNothing, NothingYet
  <1>4. <<>> \in Seq(Words[next])
    OBVIOUS
  <1>5. LineOf(next, Words[next], <<>>, Read(next, <<>>))
    BY <1>2, <1>3, <1>4 DEF LineOf
  <1> QED
    BY <1>1, <1>5 DEF LossInv

LEMMA LossWord ==
  ASSUME LossInv, name # NoName, NEW word \in Words[name], Word(word)
  PROVE  LossInv'
  <1>1. name' = name /\ args' = Append(args, word) /\ loss' = loss /\ codes' = codes
    BY DEF Word
  <1>2. /\ WellCut(Words[name]) /\ args \in Seq(Words[name])
        /\ Read(name, args) \in Reads(Words[name]) /\ LineRead(name, args, Read(name, args))
    BY DEF LossInv, LineOf
  <1>3. Append(args, word) \in Seq(Words[name])
    BY <1>2
  <1>4. /\ Read(name, Append(args, word)) \in Reads(Words[name])
        /\ LineRead(name, Append(args, word), Read(name, Append(args, word)))
    BY <1>2, WordRead
  <1>5. LineOf(name, Words[name], Append(args, word), Read(name, Append(args, word)))
    BY <1>2, <1>3, <1>4 DEF LineOf
  <1> QED
    BY <1>1, <1>5 DEF LossInv

LEMMA LossEnd ==
  ASSUME CallInv, LossInv, End
  PROVE  LossInv'
  <1> DEFINE code == CodeOf(name, args)
  <1>1. /\ name # NoName /\ name' = NoName
        /\ codes' = (IF code = None THEN codes ELSE Append(codes, code))
        /\ loss' = loss \cup Loss(name, args)
    BY DEF End
  <1>2. codes \in Seq(AllCodes)
    BY DEF CallInv, Codes
  <1>3. "plain" \in Loss(name, args) => code # None
    BY <1>1, LossCode DEF LossInv
  <1> HIDE DEF code
  <1>4. code # None => codes' # <<>>
    BY <1>1, <1>2
  <1>5. "plain" \in loss => codes' # <<>>
    BY <1>1, <1>2 DEF LossInv
  <1> QED
    BY <1>1, <1>3, <1>4, <1>5 DEF LossInv

-----------------------------------------------------------------------------
(* Theorems.                                                               *)

\* A reason code of a decision is the code of some command and some words.
LEMMA SomeCode ==
  ASSUME NEW code \in AllCodes
  PROVE  Known(code)
  <1>1. PICK tool \in Names, line \in Seq(AllWords) : code = CodeOf(tool, line) /\ code # None
    BY DEF AllCodes
  <1> QED
    BY <1>1, CodeKnown

\* The variables of a call keep their types, no decision without a reason
\* code is kept, and the answer asks exactly when it has codes (registry.
\* evaluate, Aggregate).
THEOREM CallTypeCorrect == Spec => []TypeOK
  <1>1. CallInv => TypeOK
    <2> SUFFICES ASSUME CallInv PROVE TypeOK
      OBVIOUS
    <2> USE DEF CallInv
    <2>1. None \notin ToSet(codes)
      BY DEF Codes, AllCodes, ToSet
    <2>2. Len(codes) \in Nat /\ commands \in Nat /\ Len(codes) <= commands
      BY LenProperties, PipelineAssumption DEF Codes, Counts
    <2>3. /\ answer.level \in {"none", "allow", "ask"}
          /\ answer.level = "ask" <=> answer.codes # <<>>
          /\ answer.intent \in {"none", "known", "several", "risky"}
      BY DEF Answers, Undecided, Intent
    <2> QED
      BY <2>1, <2>2, <2>3 DEF TypeOK, Counts, Lines
  <1> QED
    BY <1>1, Called, PTL

\* Whatever commands a call has, a question names its intent: every reason
\* code that a rule can give is in the tables of intentForReasonCode.
THEOREM EveryIntentKnown == Spec => []IntentKnown
  <1>1. CallInv => IntentKnown
    <2> SUFFICES ASSUME CallInv, answer.level = "ask"
                 PROVE  answer.intent \in {"known", "several"}
      BY DEF IntentKnown
    <2> DEFINE found == answer.codes
    <2>1. /\ found # <<>> /\ answer.intent = Intent(found)
          /\ found = codes \/ found = <<ParseError>>
      BY DEF CallInv, Answers, Undecided
    <2>2. CASE found = <<ParseError>>
      <3>1. Len(found) = 1 /\ found[1] = ParseError
        BY <2>2
      <3> QED
        BY <2>1, <3>1 DEF Intent, ExactIntents
    <2>3. CASE found = codes
      <3>1. codes \in Seq(AllCodes) /\ Len(codes) \in Nat
        BY LenProperties DEF CallInv, Codes
      <3>2. Len(codes) > 1 \/ (Len(codes) = 1 /\ codes[1] \in AllCodes)
        <4>1. Len(codes) \in Nat \ {0}
          BY <2>1, <2>3, <3>1, EmptySeq
        <4>2. Len(codes) = 1 => codes[1] \in AllCodes
          <5> HAVE Len(codes) = 1
          <5>1. 1 \in 1..Len(codes)
            OBVIOUS
          <5> QED
            BY <3>1, <5>1, ElementOfSeq
        <4>3. \A n \in Nat \ {0} : n > 1 \/ n = 1
          OBVIOUS
        <4>4. Len(codes) > 1 \/ Len(codes) = 1
          BY <4>1, <4>3
        <4> QED
          BY <4>2, <4>4, Zenon
      <3> HIDE DEF found
      <3>3. CASE Len(codes) > 1
        BY <2>1, <2>3, <3>3 DEF Intent
      <3>4. CASE Len(codes) = 1 /\ codes[1] \in AllCodes
        BY <2>1, <2>3, <3>1, <3>4, SomeCode DEF Intent, Known
      <3> QED
        BY <3>2, <3>3, <3>4
    <2> QED
      BY <2>1, <2>2, <2>3
  <1> QED
    BY <1>1, Called, PTL

\* Once the words of a command are asked about, no further word withdraws the
\* question, but for the words that the rules name as harmless.
THEOREM MoreWordsNeverWithdraw == Spec => AskPersists
  <1>1. ASSUME CallInv, [Next]_vars,
               name # NoName, name' = name, args' # args, ~Harmless(Last(args')), CodeOf(name, args) # None
        PROVE  CodeOf(name', args') # None
    <2>1. PICK word \in Words[name] : args' = Append(args, word)
      BY <1>1 DEF Next, Begin, Word, End, Answer, Finished, vars
    <2>2. args \in Seq(AllWords) /\ word \in AllWords
      BY <1>1, <2>1 DEF CallInv, Lines, Counts, AllWords
    <2>3. Last(args') = word
      BY <2>1, <2>2, AppendProperties, LenProperties DEF Last
    <2> QED
      BY <1>1, <2>1, <2>2, <2>3, CodeKept
  <1>2. CallInv /\ [Next]_vars
          => [name # NoName /\ name' = name /\ args' # args /\ ~Harmless(Last(args'))
                /\ CodeOf(name, args) # None
              => CodeOf(name', args') # None]_vars
    BY <1>1
  <1> QED
    BY <1>2, Called, PTL DEF Spec, AskPersists

\* No call in which a tool would destroy something, told in the plain form and
\* with a trigger in the text, is allowed, whatever the tables of the rules, the
\* words and the options with values of the tools, and however many words and
\* commands the call has (registry.evaluate, Aggregate and the rules).  Of the
\* other forms of Kinds it says nothing.
THEOREM LossAlwaysAsked == Spec => []LossIsAsked
  <1>1. Init => LossInv
    BY DEF Init, LossInv
  <1>2. CallInv /\ LossInv /\ [Next]_vars => LossInv'
    <2> SUFFICES ASSUME CallInv, LossInv, [Next]_vars PROVE LossInv'
      OBVIOUS
    <2>1. ASSUME NEW next \in Names, NEW spelling \in Spellings[next], Begin(next, spelling) PROVE LossInv'
      BY <2>1, LossBegin
    <2>2. ASSUME NEW word \in IF name = NoName THEN {} ELSE Words[name], Word(word) PROVE LossInv'
      BY <2>2, LossWord
    <2>3. CASE End
      BY <2>3, LossEnd
    <2>4. ASSUME NEW parses \in BOOLEAN, Answer(parses) PROVE LossInv'
      BY <2>4 DEF Answer, LossInv
    <2>5. CASE UNCHANGED vars
      BY <2>5 DEF vars, LossInv
    <2> QED
      BY <2>1, <2>2, <2>3, <2>4, <2>5 DEF Next, Finished
  <1>3. CallInv /\ LossInv => LossIsAsked
    <2> SUFFICES ASSUME CallInv, LossInv, "plain" \in loss, visible PROVE answer.level # "allow"
      BY DEF LossIsAsked
    <2>1. codes # <<>> /\ <<ParseError>> # <<>>
      BY DEF LossInv
    <2>2. answer = Undecided => answer.level = "none"
      BY DEF Undecided
    <2>3. answer # Undecided => answer.level = "ask"
      BY <2>1 DEF CallInv, Answers
    <2> QED
      BY <2>2, <2>3
  <1> QED
    BY <1>1, <1>2, <1>3, Called, PTL DEF Spec

=============================================================================
