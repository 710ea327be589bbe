--------------------------- MODULE ShellWalk_proofs ---------------------------
(***************************************************************************)
(* What holds of the walk of a script (ShellWalk) for scripts of every     *)
(* length and every depth of nesting.                                      *)
(*                                                                         *)
(* The walk and the shell have a stack each: the copies of the walker, and *)
(* the constructs that are open.  The argument says how the two stacks     *)
(* belong together (Owner), that the flags of a construct are those of all *)
(* constructs around it (Contexts), that shell and walker will be in the   *)
(* same directory again when a construct is left (Below), and that a shell *)
(* does not move in a construct without a cd (StillHere, StillAbove).      *)
(***************************************************************************)
EXTENDS ShellWalk, SequenceTheorems, FiniteSetTheorems, TLAPS

Places == Dirs \cup Words \cup {Empty}

DirType == {place \in Seq(Dirs \cup Words \cup {HookCwd}) : place # <<>>}

Command == [node : 1..MaxNodes, name : Names, flags : SUBSET Flags, cwd : Places]

WalkerType == [cwd : Places, executed : SUBSET Command]

FrameType ==
  [kind : Kinds, part : Nat, flags : SUBSET Flags, ctx : SUBSET Flags,
   live : BOOLEAN, taken : BOOLEAN, dir : DirType, course : Courses, cd : BOOLEAN]

\* The walker that was at work where frame i of the stack was opened; for the
\* number of frames plus one, the walker at work.
Owner(stack, i) == 1 + Cardinality({j \in 1..(i - 1) : stack[j].kind \in Copies})

Stacks ==
  /\ walkers \in Seq(WalkerType)
  /\ frames \in Seq(FrameType)
  /\ Len(walkers) = Owner(frames, Len(frames) + 1)
  /\ \A i \in 1..Len(frames) : frames[i].part \in 1..Parts(frames[i].kind)

Scalars ==
  /\ dir \in DirType
  /\ course \in Courses
  /\ status \in BOOLEAN /\ ended \in BOOLEAN
  /\ nodes \in 0..MaxNodes

\* The walkContext of a construct has the flags of all constructs around it.
Contexts ==
  \A i \in 1..Len(frames) : frames[i].ctx = UNION {frames[j].flags : j \in 1..i}

\* Nodes are numbered as they come.
Numbered ==
  /\ \A run \in ran : run.node \in 1..nodes
  /\ \A command \in Seen : command.node \in 1..nodes

WalkInv == Stacks /\ Scalars /\ Contexts /\ Numbered

\* The walker at work is where the shell is.
Here == course = "followed" => dir = Place(Walker.cwd)

\* The walker outside a construct is where the shell was, when a copy of it
\* went on or there was no cd inside.
Below ==
  \A i \in 1..Len(frames) :
     /\ frames[i].kind \in Copies \/ ~frames[i].cd
     /\ frames[i].course = "followed"
     => frames[i].dir = Place(walkers[Owner(frames, i)].cwd)

\* No construct from i + 1 to n seals its cd off.
Unsealed(stack, i, n) == \A k \in (i + 1)..n : stack[k].kind \notin Sealed

\* In a construct without a cd the shell does not move, but for the constructs
\* inside that seal theirs off: it is where it was, and so it was when a
\* construct inside was entered.
StillHere ==
  \A i \in 1..Len(frames) :
     ~frames[i].cd /\ Unsealed(frames, i, Len(frames))
     => dir = frames[i].dir /\ course = frames[i].course

StillAbove ==
  \A i, n \in 1..Len(frames) :
     i < n /\ ~frames[i].cd /\ Unsealed(frames, i, n - 1)
     => frames[n].dir = frames[i].dir /\ frames[n].course = frames[i].course

\* A cd is one of every construct around it, out to the first that seals it off.
Outward ==
  \A i, n \in 1..Len(frames) :
     i < n /\ frames[n].cd /\ Unsealed(frames, i, n) => frames[i].cd

-----------------------------------------------------------------------------
(* Stacks. *)

LEMMA FrontFacts ==
  ASSUME NEW S, NEW s \in Seq(S), s # <<>>
  PROVE  /\ Len(s) \in Nat \ {0}
         /\ Front(s) \in Seq(S)
         /\ Len(Front(s)) = Len(s) - 1
         /\ \A i \in 1..(Len(s) - 1) : Front(s)[i] = s[i]
  <1>1. Len(s) \in Nat \ {0}
    BY EmptySeq
  <1>2. \A i \in 1..(Len(s) - 1) : s[i] \in S
    BY ElementOfSeq, <1>1
  <1> DEFINE n == Len(s) - 1
  <1>3. n \in Nat /\ 1 \in Int /\ n \in Int
    BY <1>1
  <1> HIDE DEF n
  <1>4. \A i \in 1..n : s[i] \in S
    BY <1>2 DEF n
  <1>5. /\ SubSeq(s, 1, n) \in Seq(S)
        /\ Len(SubSeq(s, 1, n)) = IF 1 <= n THEN n - 1 + 1 ELSE 0
        /\ \A i \in 1..(n - 1 + 1) : SubSeq(s, 1, n)[i] = s[1 + i - 1]
    BY <1>3, <1>4, SubSeqProperties
  <1>6. /\ Len(SubSeq(s, 1, n)) = n
        /\ \A i \in 1..n : SubSeq(s, 1, n)[i] = s[i]
    <2>1. n - 1 + 1 = n /\ \A i \in 1..n : 1 + i - 1 = i
      BY <1>3
    <2> QED
      BY <1>3, <1>5, <2>1
  <1> QED
    BY <1>1, <1>5, <1>6 DEF Front, n

\* How the owner goes up from one construct to the next.
LEMMA OwnerFacts ==
  ASSUME NEW stack \in Seq(FrameType)
  PROVE  /\ \A i \in 1..(Len(stack) + 1) : Owner(stack, i) \in Nat \ {0}
         /\ \A i \in 1..Len(stack) :
              Owner(stack, i + 1) = IF stack[i].kind \in Copies THEN Owner(stack, i) + 1 ELSE Owner(stack, i)
         /\ \A i, n \in 1..(Len(stack) + 1) : i <= n => Owner(stack, i) <= Owner(stack, n)
         /\ Owner(stack, 1) = 1
  <1> DEFINE Outer(i) == {j \in 1..(i - 1) : stack[j].kind \in Copies}
  <1>0. Len(stack) \in Nat
    OBVIOUS
  <1>1. ASSUME NEW i \in 1..(Len(stack) + 1)
        PROVE  IsFiniteSet(Outer(i)) /\ Cardinality(Outer(i)) \in Nat
    <2>1. IsFiniteSet(1..(i - 1))
      BY <1>0, FS_Interval
    <2>2. IsFiniteSet(Outer(i))
      BY <2>1, FS_Subset
    <2> QED
      BY <2>2, FS_CardinalityType
  <1>2. ASSUME NEW i \in 1..Len(stack)
        PROVE  Owner(stack, i + 1) = IF stack[i].kind \in Copies THEN Owner(stack, i) + 1 ELSE Owner(stack, i)
    <2>1. CASE stack[i].kind \in Copies
      <3>1. Outer(i + 1) = Outer(i) \cup {i} /\ i \notin Outer(i)
        BY <1>0, <2>1
      <3>2. IsFiniteSet(Outer(i)) /\ Cardinality(Outer(i)) \in Nat
        <4>1. i \in 1..(Len(stack) + 1)
          BY <1>0
        <4> HIDE DEF Outer
        <4> QED
          BY <1>1, <4>1
      <3> HIDE DEF Outer
      <3>3. Cardinality(Outer(i + 1)) = Cardinality(Outer(i)) + 1
        BY <3>1, <3>2, FS_AddElement
      <3>4. Owner(stack, i + 1) = 1 + Cardinality(Outer(i + 1)) /\ Owner(stack, i) = 1 + Cardinality(Outer(i))
        BY DEF Owner, Outer
      <3> QED
        BY <2>1, <3>2, <3>3, <3>4
    <2>2. CASE stack[i].kind \notin Copies
      <3>1. Outer(i + 1) = Outer(i)
        BY <1>0, <2>2
      <3> QED
        BY <2>2, <3>1 DEF Owner
    <2> QED
      BY <2>1, <2>2
  <1>3. ASSUME NEW i \in 1..(Len(stack) + 1), NEW n \in 1..(Len(stack) + 1), i <= n
        PROVE  Owner(stack, i) <= Owner(stack, n)
    <2>1. Outer(i) \subseteq Outer(n)
      BY <1>0, <1>3
    <2>2. /\ IsFiniteSet(Outer(n)) /\ Cardinality(Outer(n)) \in Nat
          /\ Cardinality(Outer(i)) \in Nat
      BY <1>1
    <2>3. Owner(stack, i) = 1 + Cardinality(Outer(i)) /\ Owner(stack, n) = 1 + Cardinality(Outer(n))
      BY DEF Owner
    <2> HIDE DEF Outer
    <2>4. Cardinality(Outer(i)) <= Cardinality(Outer(n))
      BY <2>1, <2>2, FS_Subset
    <2> QED
      BY <2>2, <2>3, <2>4
  <1>4. Owner(stack, 1) = 1
    <2>1. Outer(1) = {}
      OBVIOUS
    <2> QED
      BY <2>1, FS_EmptySet DEF Owner
  <1>5. \A i \in 1..(Len(stack) + 1) : Owner(stack, i) \in Nat \ {0}
    <2> SUFFICES ASSUME NEW i \in 1..(Len(stack) + 1) PROVE Owner(stack, i) \in Nat \ {0}
      OBVIOUS
    <2>1. Cardinality(Outer(i)) \in Nat /\ Owner(stack, i) = 1 + Cardinality(Outer(i))
      BY <1>1 DEF Owner
    <2> HIDE DEF Outer
    <2> QED
      BY <2>1
  <1>6. \A i \in 1..Len(stack) :
          Owner(stack, i + 1) = IF stack[i].kind \in Copies THEN Owner(stack, i) + 1 ELSE Owner(stack, i)
    BY <1>2
  <1>7. \A i, n \in 1..(Len(stack) + 1) : i <= n => Owner(stack, i) <= Owner(stack, n)
    BY <1>3
  <1> QED
    BY <1>4, <1>5, <1>6, <1>7

\* The owner depends on the constructs around only.
LEMMA OwnerSame ==
  ASSUME NEW stack, NEW other, NEW i \in Nat,
         \A j \in 1..(i - 1) : stack[j].kind = other[j].kind
  PROVE  Owner(stack, i) = Owner(other, i)
  <1>1. {j \in 1..(i - 1) : stack[j].kind \in Copies} = {j \in 1..(i - 1) : other[j].kind \in Copies}
    OBVIOUS
  <1> QED
    BY <1>1 DEF Owner

\* The two stacks are as high as each other.
LEMMA Heights ==
  ASSUME Stacks
  PROVE  /\ walkers \in Seq(WalkerType) /\ frames \in Seq(FrameType)
         /\ Len(walkers) \in Nat \ {0} /\ walkers # <<>>
         /\ Len(frames) \in Nat
         /\ \A i \in 1..(Len(frames) + 1) : Owner(frames, i) \in 1..Len(walkers)
         /\ \A i \in 1..Len(frames) : frames[i].kind \in Copies => Owner(frames, i) < Len(walkers)
         /\ Len(walkers) \in 1..Len(walkers)
         /\ Walker = walkers[Len(walkers)] /\ Walker \in WalkerType
  <1>1. Len(frames) \in Nat /\ Len(walkers) = Owner(frames, Len(frames) + 1)
    BY DEF Stacks
  <1>2. /\ \A i \in 1..(Len(frames) + 1) : Owner(frames, i) \in 1..Len(walkers)
        /\ Len(walkers) \in Nat \ {0}
    BY <1>1, OwnerFacts DEF Stacks
  <1>3. ASSUME NEW i \in 1..Len(frames), frames[i].kind \in Copies
        PROVE  Owner(frames, i) < Len(walkers)
    <2>1. Owner(frames, i + 1) = Owner(frames, i) + 1
      BY <1>3, OwnerFacts DEF Stacks
    <2>2. i \in 1..(Len(frames) + 1) /\ i + 1 \in 1..(Len(frames) + 1)
      BY <1>1
    <2> QED
      BY <1>2, <2>1, <2>2
  <1>4. Walker = walkers[Len(walkers)]
    BY DEF Walker, Last
  <1> QED
    BY <1>1, <1>2, <1>3, <1>4, EmptySeq, ElementOfSeq DEF Stacks

-----------------------------------------------------------------------------
(* What the steps do to the stacks. *)

New(name, flags) == [node |-> nodes + 1, name |-> name, flags |-> flags, cwd |-> Walker.cwd]

\* The executed commands, with the walker that has them.
LEMMA SeenIn ==
  ASSUME walkers \in Seq(WalkerType)
  PROVE  \A command : command \in Seen <=> \E i \in 1..Len(walkers) : command \in walkers[i].executed
  BY LenProperties DEF Seen

LEMMA RecordedFacts ==
  ASSUME Stacks, Scalars, NewNode, NEW name \in Names, NEW flags \in SUBSET Flags
  PROVE  /\ Recorded(name, flags) \in Seq(WalkerType)
         /\ Len(Recorded(name, flags)) = Len(walkers)
         /\ \A i \in 1..Len(walkers) :
              /\ Recorded(name, flags)[i].cwd = walkers[i].cwd
              /\ Recorded(name, flags)[i].executed =
                   IF i = Len(walkers) THEN walkers[i].executed \cup {New(name, flags)}
                                       ELSE walkers[i].executed
         /\ nodes' = nodes + 1 /\ nodes \in Nat /\ nodes' \in 0..MaxNodes
  <1> DEFINE last == Len(walkers)
             more == [walkers[last] EXCEPT !.executed = @ \cup {New(name, flags)}]
  <1>1. /\ walkers \in Seq(WalkerType) /\ last \in 1..Len(walkers)
        /\ walkers[last] \in WalkerType /\ Walker = walkers[last]
    BY Heights
  <1>2. nodes' = nodes + 1 /\ nodes \in Nat /\ nodes' \in 0..MaxNodes /\ nodes + 1 \in 1..MaxNodes
    BY WalkAssumption DEF NewNode, Scalars
  <1>3. New(name, flags) \in Command
    BY <1>1, <1>2 DEF New, Command, WalkerType
  <1>4. /\ more \in WalkerType /\ more.cwd = walkers[last].cwd
        /\ more.executed = walkers[last].executed \cup {New(name, flags)}
    BY <1>1, <1>3 DEF WalkerType
  <1>5. Recorded(name, flags) = [walkers EXCEPT ![last] = more]
    BY DEF Recorded, New
  <1> HIDE DEF more
  <1>6. /\ Recorded(name, flags) \in Seq(WalkerType)
        /\ Len(Recorded(name, flags)) = Len(walkers)
        /\ \A i \in 1..Len(walkers) :
             Recorded(name, flags)[i] = IF i = last THEN more ELSE walkers[i]
    BY <1>1, <1>4, <1>5, ExceptSeq
  <1> QED
    BY <1>2, <1>4, <1>6

\* A recorded command is seen, and nothing else is new.
LEMMA RecordedSeen ==
  ASSUME Stacks, Scalars, NewNode, NEW name \in Names, NEW flags \in SUBSET Flags,
         walkers' = Recorded(name, flags)
  PROVE  \A command : command \in Seen' <=> command \in Seen \/ command = New(name, flags)
  <1>1. walkers \in Seq(WalkerType) /\ walkers' \in Seq(WalkerType)
        /\ Len(walkers') = Len(walkers) /\ Len(walkers) \in 1..Len(walkers)
    BY RecordedFacts, Heights
  <1>2. \A command : command \in Seen' <=> \E i \in 1..Len(walkers') : command \in walkers'[i].executed
    BY <1>1, LenProperties DEF Seen
  <1>3. \A i \in 1..Len(walkers) :
           walkers'[i].executed = IF i = Len(walkers) THEN walkers[i].executed \cup {New(name, flags)}
                                                      ELSE walkers[i].executed
    BY RecordedFacts
  <1> QED
    BY <1>1, <1>2, <1>3, SeenIn

\* The walker that a copy hands over to has its commands, and its own
\* directory as before.
LEMMA HandedOverFacts ==
  ASSUME walkers \in Seq(WalkerType), Len(walkers) > 1
  PROVE  /\ HandedOver(walkers) \in Seq(WalkerType)
         /\ Len(HandedOver(walkers)) = Len(walkers) - 1
         /\ \A i \in 1..(Len(walkers) - 1) :
              /\ HandedOver(walkers)[i].cwd = walkers[i].cwd
              /\ HandedOver(walkers)[i].executed =
                   IF i = Len(walkers) - 1 THEN walkers[i].executed \cup walkers[i + 1].executed
                                           ELSE walkers[i].executed
  <1> DEFINE below == Len(walkers) - 1
             more == [walkers[below] EXCEPT !.executed = @ \cup Last(walkers).executed]
  <1>1. Len(walkers) \in Nat /\ walkers # <<>>
    BY EmptySeq
  <1>2. below \in 1..Len(walkers) /\ below + 1 = Len(walkers) /\ below + 1 \in 1..Len(walkers)
        /\ below \in Nat
    BY <1>1
  <1>3. /\ Front(walkers) \in Seq(WalkerType) /\ Len(Front(walkers)) = below
        /\ \A i \in 1..below : Front(walkers)[i] = walkers[i]
    BY <1>1, FrontFacts
  <1>4. walkers[below] \in WalkerType /\ walkers[below + 1] \in WalkerType
    BY <1>2, ElementOfSeq
  <1>5. Last(walkers) = walkers[below + 1]
    BY <1>2 DEF Last
  <1>6. /\ more \in WalkerType /\ more.cwd = walkers[below].cwd
        /\ more.executed = walkers[below].executed \cup walkers[below + 1].executed
    BY <1>4, <1>5 DEF WalkerType
  <1>7. Front(walkers)[below] = walkers[below] /\ below \in 1..below
    BY <1>2, <1>3
  <1>8. HandedOver(walkers) = [Front(walkers) EXCEPT ![below] = more]
    BY <1>7 DEF HandedOver
  <1> HIDE DEF more, below
  <1>9. /\ HandedOver(walkers) \in Seq(WalkerType)
        /\ Len(HandedOver(walkers)) = below
        /\ \A i \in 1..below : HandedOver(walkers)[i] = IF i = below THEN more ELSE walkers[i]
    BY <1>3, <1>6, <1>7, <1>8, ExceptSeq
  <1> QED
    BY <1>6, <1>9 DEF below

LEMMA HandedOverSeen ==
  ASSUME walkers \in Seq(WalkerType), Len(walkers) > 1, walkers' = HandedOver(walkers)
  PROVE  \A command : command \in Seen' <=> command \in Seen
  <1>1. /\ walkers' \in Seq(WalkerType) /\ Len(walkers') = Len(walkers) - 1
        /\ Len(walkers) \in Nat
        /\ \A i \in 1..(Len(walkers) - 1) :
             walkers'[i].executed =
               IF i = Len(walkers) - 1 THEN walkers[i].executed \cup walkers[i + 1].executed
                                       ELSE walkers[i].executed
    <2>1. Len(walkers) \in Nat
      BY LenProperties
    <2> HIDE DEF WalkerType
    <2> QED
      BY <2>1, HandedOverFacts
  <1> DEFINE below == Len(walkers) - 1
  <1>2. /\ below \in 1..below /\ below + 1 = Len(walkers) /\ Len(walkers) \in 1..Len(walkers)
        /\ below \in 1..Len(walkers)
        /\ \A i \in 1..Len(walkers) : i = Len(walkers) \/ i \in 1..below
        /\ 1..below \subseteq 1..Len(walkers)
    <2>1. below \in Nat \ {0} /\ below + 1 = Len(walkers)
      BY <1>1
    <2> HIDE DEF below
    <2> QED
      BY <2>1
  <1>3. /\ walkers'[below].executed = walkers[below].executed \cup walkers[Len(walkers)].executed
        /\ \A i \in 1..below : i # below => walkers'[i].executed = walkers[i].executed
    BY <1>1, <1>2
  <1>4. DOMAIN walkers' = 1..below
    BY <1>1, LenProperties
  <1> HIDE DEF below
  <1>5. \A command : command \in Seen' <=> \E i \in 1..below : command \in walkers'[i].executed
    BY <1>4 DEF Seen
  <1> SUFFICES ASSUME NEW command PROVE command \in Seen' <=> command \in Seen
    OBVIOUS
  <1>6. ASSUME command \in Seen' PROVE command \in Seen
    BY <1>2, <1>3, <1>5, <1>6, SeenIn
  <1>7. ASSUME command \in Seen PROVE command \in Seen'
    <2>1. PICK i \in 1..Len(walkers) : command \in walkers[i].executed
      BY <1>7, SeenIn
    <2>2. CASE i = Len(walkers) \/ i = below
      BY <1>2, <1>3, <1>5, <2>1, <2>2
    <2>3. CASE i \in 1..below /\ i # below
      BY <1>3, <1>5, <2>1, <2>3
    <2> QED
      BY <1>2, <2>2, <2>3
  <1> QED
    BY <1>6, <1>7

\* The context at a place has the flags of all constructs around it.
LEMMA ContextAround ==
  ASSUME Stacks, Contexts
  PROVE  Ctx = Around /\ Ctx \in SUBSET Flags
  <1>1. frames \in Seq(FrameType) /\ DOMAIN frames = 1..Len(frames) /\ Len(frames) \in Nat
    BY LenProperties DEF Stacks
  <1>2. CASE frames = <<>>
    BY <1>2 DEF Ctx, Inner, Around
  <1>3. CASE frames # <<>>
    <2>1. Len(frames) \in 1..Len(frames)
      BY <1>1, <1>3, EmptySeq
    <2>2. Ctx = frames[Len(frames)].ctx
      BY <1>3 DEF Ctx, Inner, Frame, Last
    <2>3. frames[Len(frames)] \in FrameType
      BY <1>1, <2>1, ElementOfSeq
    <2> QED
      BY <1>1, <2>1, <2>2, <2>3 DEF Contexts, Around, FrameType
  <1> QED
    BY <1>2, <1>3

LEMMA LiveType ==
  ASSUME Stacks
  PROVE  Live \in BOOLEAN
  BY DEF Live

\* A construct is entered.
LEMMA OpenedFacts ==
  ASSUME Stacks, Scalars, Contexts, NEW kind \in Kinds, NEW flags \in SUBSET Flags, Open(kind, flags)
  PROVE  /\ frames' \in Seq(FrameType)
         /\ Len(frames) \in Nat /\ Len(frames') = Len(frames) + 1
         /\ \A i \in 1..Len(frames) : frames'[i] = frames[i]
         /\ frames'[Len(frames) + 1].kind = kind
         /\ frames'[Len(frames) + 1].part = 1
         /\ frames'[Len(frames) + 1].flags = flags
         /\ frames'[Len(frames) + 1].ctx = Ctx \cup flags
         /\ frames'[Len(frames) + 1].dir = dir
         /\ frames'[Len(frames) + 1].course = course
         /\ frames'[Len(frames) + 1].cd = FALSE
  <1> DEFINE frame ==
        [kind |-> kind, part |-> 1, flags |-> flags, ctx |-> BodyContext(flags),
         live |-> Live, taken |-> FALSE, dir |-> dir, course |-> course, cd |-> FALSE]
  <1>1. frame \in FrameType
    BY ContextAround, LiveType DEF FrameType, BodyContext, Scalars
  <1>2. /\ frame.kind = kind /\ frame.part = 1 /\ frame.flags = flags
        /\ frame.ctx = Ctx \cup flags /\ frame.dir = dir /\ frame.course = course
        /\ frame.cd = FALSE
    BY DEF BodyContext
  <1>3. frames' = Append(frames, frame)
    BY DEF Open
  <1> HIDE DEF frame
  <1>4. /\ frames' \in Seq(FrameType)
        /\ Len(frames') = Len(frames) + 1
        /\ \A i \in 1..Len(frames) : frames'[i] = frames[i]
        /\ frames'[Len(frames) + 1] = frame
    BY <1>1, <1>3, AppendProperties DEF Stacks
  <1>5. Len(frames) \in Nat
    BY LenProperties DEF Stacks
  <1> QED
    BY <1>2, <1>4, <1>5

\* A construct goes on with its next part.
LEMMA TurnedFacts ==
  ASSUME Stacks, Scalars, Turn
  PROVE  /\ frames' \in Seq(FrameType)
         /\ Len(frames) \in Nat /\ Len(frames) \in 1..Len(frames) /\ Len(frames') = Len(frames)
         /\ Frame = frames[Len(frames)] /\ Frame \in FrameType
         /\ \A i \in 1..Len(frames) :
              /\ frames'[i].kind = frames[i].kind
              /\ frames'[i].flags = frames[i].flags
              /\ frames'[i].ctx = frames[i].ctx
              /\ frames'[i].dir = frames[i].dir
              /\ frames'[i].course = frames[i].course
              /\ frames'[i].cd = frames[i].cd
              /\ frames'[i].part \in 1..Parts(frames[i].kind)
  <1> DEFINE n == Len(frames)
             frame == [frames[n] EXCEPT !.part = @ + 1, !.live = NextLive, !.taken = NextLive]
  <1>1. n \in Nat /\ n \in 1..n /\ frames \in Seq(FrameType)
    BY EmptySeq, LenProperties DEF Stacks, Turn, Inner
  <1>2. frames[n] \in FrameType /\ Frame = frames[n]
    BY <1>1, ElementOfSeq DEF Frame, Last
  <1>3. NextLive \in BOOLEAN
    BY DEF NextLive
  <1>4. /\ frames[n].part \in 1..Parts(frames[n].kind)
        /\ frames[n].part < Parts(frames[n].kind)
        /\ Parts(frames[n].kind) \in Nat
    BY <1>1, <1>2, WalkAssumption DEF Stacks, Turn, Parts
  <1>5. /\ frame \in FrameType
        /\ frame.kind = frames[n].kind /\ frame.flags = frames[n].flags /\ frame.ctx = frames[n].ctx
        /\ frame.dir = frames[n].dir /\ frame.course = frames[n].course
        /\ frame.cd = frames[n].cd
        /\ frame.part \in 1..Parts(frames[n].kind)
    <2>1. frames[n].part + 1 \in 1..Parts(frames[n].kind) /\ frames[n].part + 1 \in Nat
      BY <1>4
    <2>2. frame.part = frames[n].part + 1
      BY <1>2 DEF FrameType
    <2>3. frame \in FrameType
      BY <1>2, <1>3, <2>1 DEF FrameType
    <2>4. /\ frame.kind = frames[n].kind /\ frame.flags = frames[n].flags /\ frame.ctx = frames[n].ctx
          /\ frame.dir = frames[n].dir /\ frame.course = frames[n].course
          /\ frame.cd = frames[n].cd
      BY <1>2 DEF FrameType
    <2> QED
      BY <2>1, <2>2, <2>3, <2>4
  <1>6. frames' = [frames EXCEPT ![n] = frame]
    BY DEF Turn
  <1> HIDE DEF frame
  <1>7. /\ frames' \in Seq(FrameType) /\ Len(frames') = Len(frames)
        /\ \A i \in 1..Len(frames) : frames'[i] = IF i = n THEN frame ELSE frames[i]
    BY <1>1, <1>5, <1>6, ExceptSeq
  <1> QED
    BY <1>1, <1>2, <1>5, <1>7 DEF Stacks

\* A construct is left.
LEMMA LeftFacts ==
  ASSUME Stacks, Inner, Left
  PROVE  /\ frames' \in Seq(FrameType)
         /\ Len(frames) \in Nat /\ Len(frames) \in 1..Len(frames) /\ Len(frames') = Len(frames) - 1
         /\ Frame = frames[Len(frames)] /\ Frame \in FrameType
         /\ \A i \in 1..(Len(frames) - 1) : frames'[i] = frames[i]
  <1>1. Len(frames) \in Nat /\ Len(frames) \in 1..Len(frames) /\ frames # <<>> /\ frames \in Seq(FrameType)
    BY EmptySeq, LenProperties DEF Stacks, Inner
  <1>2. frames[Len(frames)] \in FrameType /\ Frame = frames[Len(frames)]
    BY <1>1, ElementOfSeq DEF Frame, Last
  <1>3. frames' = Front(frames)
    BY DEF Left
  <1> QED
    BY <1>1, <1>2, <1>3, FrontFacts

\* The walkers when a construct is entered and when it is left.
LEMMA OpenedWalkers ==
  ASSUME Stacks, Scalars, NEW kind \in Kinds, NEW flags, Open(kind, flags)
  PROVE  /\ walkers' \in Seq(WalkerType)
         /\ Len(walkers') = IF kind \in Copies THEN Len(walkers) + 1 ELSE Len(walkers)
         /\ \A i \in 1..Len(walkers) : walkers'[i] = walkers[i]
         /\ kind \in Copies => /\ walkers'[Len(walkers) + 1].cwd = Walker.cwd
                               /\ walkers'[Len(walkers) + 1].executed = {}
  <1>1. CASE kind \in Copies
    <2> DEFINE copy == [cwd |-> Walker.cwd, executed |-> {}]
    <2>1. copy \in WalkerType /\ copy.cwd = Walker.cwd /\ copy.executed = {}
      BY Heights DEF WalkerType
    <2>2. walkers' = Append(walkers, copy)
      BY <1>1 DEF Open
    <2> HIDE DEF copy
    <2> QED
      BY <1>1, <2>1, <2>2, AppendProperties DEF Stacks
  <1>2. CASE kind \notin Copies
    BY <1>2 DEF Open, Stacks
  <1> QED
    BY <1>1, <1>2

LEMMA ClosedWalkers ==
  ASSUME Stacks, Inner, Close
  PROVE  /\ walkers' \in Seq(WalkerType)
         /\ Len(walkers') = IF Frame.kind \in Copies THEN Len(walkers) - 1 ELSE Len(walkers)
         /\ Frame.kind \in Copies => Len(walkers) > 1
         /\ \A i \in 1..Len(walkers') : walkers'[i].cwd = walkers[i].cwd
         /\ \A command : command \in Seen' <=> command \in Seen
  <1>1. CASE Frame.kind \in Copies
    <2>1. Len(walkers) > 1 /\ walkers \in Seq(WalkerType)
      <3>1. Left
        BY DEF Close
      <3>2. Len(frames) \in 1..Len(frames) /\ Len(frames) \in Nat /\ Frame = frames[Len(frames)]
        BY <3>1, LeftFacts
      <3>3. /\ Owner(frames, Len(frames)) \in 1..Len(walkers)
            /\ Owner(frames, Len(frames)) < Len(walkers)
            /\ Len(walkers) \in Nat
        BY <1>1, <3>2, Heights
      <3> QED
        BY <3>3, Heights
    <2>2. walkers' = HandedOver(walkers)
      BY <1>1 DEF Close
    <2> QED
      BY <1>1, <2>1, <2>2, HandedOverFacts, HandedOverSeen
  <1>2. CASE Frame.kind \notin Copies
    <2>1. walkers' = walkers
      BY <1>2 DEF Close
    <2> QED
      BY <1>2, <2>1 DEF Stacks, Seen
  <1> QED
    BY <1>1, <1>2

\* A cd moves the walker at work.
Moves(word) == walkers' = [walkers EXCEPT ![Len(walkers)].cwd = word]

LEMMA MovesFacts ==
  ASSUME Stacks, NEW word \in Places, Moves(word)
  PROVE  /\ walkers' \in Seq(WalkerType)
         /\ Len(walkers') = Len(walkers)
         /\ \A i \in 1..Len(walkers) :
              walkers'[i].cwd = IF i = Len(walkers) THEN word ELSE walkers[i].cwd
         /\ \A command : command \in Seen' <=> command \in Seen
  <1> DEFINE last == Len(walkers)
             moved == [walkers[last] EXCEPT !.cwd = word]
  <1>1. walkers \in Seq(WalkerType) /\ last \in 1..Len(walkers) /\ walkers[last] \in WalkerType
    BY Heights
  <1>2. moved \in WalkerType /\ moved.cwd = word /\ moved.executed = walkers[last].executed
    BY <1>1 DEF WalkerType
  <1>3. walkers' = [walkers EXCEPT ![last] = moved]
    BY DEF Moves
  <1> HIDE DEF moved
  <1>4. /\ walkers' \in Seq(WalkerType) /\ Len(walkers') = Len(walkers)
        /\ \A i \in 1..Len(walkers) : walkers'[i] = IF i = last THEN moved ELSE walkers[i]
    BY <1>1, <1>2, <1>3, ExceptSeq
  <1>5. \A i \in 1..Len(walkers) : walkers'[i].executed = walkers[i].executed
    BY <1>2, <1>4
  <1>6. DOMAIN walkers' = 1..Len(walkers)
    BY <1>4, LenProperties
  <1>7. \A command : command \in Seen' <=> \E i \in 1..Len(walkers) : command \in walkers'[i].executed
    BY <1>6 DEF Seen
  <1>8. \A command : command \in Seen' <=> command \in Seen
    BY <1>1, <1>5, <1>7, SeenIn
  <1> QED
    BY <1>2, <1>4, <1>8

\* What a cd marks.
LEMMA MarkedFacts ==
  ASSUME Stacks
  PROVE  /\ Marked \in Seq(FrameType)
         /\ Len(frames) \in Nat /\ Len(Marked) = Len(frames)
         /\ \A i \in 1..Len(frames) :
              /\ Marked[i].kind = frames[i].kind
              /\ Marked[i].part = frames[i].part
              /\ Marked[i].flags = frames[i].flags
              /\ Marked[i].ctx = frames[i].ctx
              /\ Marked[i].dir = frames[i].dir
              /\ Marked[i].course = frames[i].course
              /\ Marked[i].cd = (frames[i].cd \/ Unsealed(frames, i, Len(frames)))
  <1>1. frames \in Seq(FrameType) /\ DOMAIN frames = 1..Len(frames) /\ Len(frames) \in Nat
    BY LenProperties DEF Stacks
  <1>2. \A i \in 1..Len(frames) : frames[i] \in FrameType
    BY <1>1, ElementOfSeq
  <1>3. \A i \in 1..Len(frames) : [frames[i] EXCEPT !.cd = TRUE] \in FrameType
    BY <1>2 DEF FrameType
  <1>4. Marked = [i \in 1..Len(frames) |->
                    IF \E n \in 1..Len(frames) : n > i /\ frames[n].kind \in Sealed
                    THEN frames[i] ELSE [frames[i] EXCEPT !.cd = TRUE]]
    BY <1>1 DEF Marked
  <1>5. Marked \in [1..Len(frames) -> FrameType]
    BY <1>2, <1>3, <1>4
  <1>6. Marked \in Seq(FrameType)
    BY <1>1, <1>5, SeqDef
  <1>7. Len(Marked) = Len(frames)
    BY <1>1, <1>5, <1>6, LenProperties
  <1> SUFFICES ASSUME NEW i \in 1..Len(frames)
               PROVE  /\ Marked[i].kind = frames[i].kind
                      /\ Marked[i].part = frames[i].part
                      /\ Marked[i].flags = frames[i].flags
                      /\ Marked[i].ctx = frames[i].ctx
                      /\ Marked[i].dir = frames[i].dir
                      /\ Marked[i].course = frames[i].course
                      /\ Marked[i].cd = (frames[i].cd \/ Unsealed(frames, i, Len(frames)))
    BY <1>1, <1>6, <1>7
  <1>8. Unsealed(frames, i, Len(frames))
        <=> ~\E n \in 1..Len(frames) : n > i /\ frames[n].kind \in Sealed
    BY <1>1 DEF Unsealed
  <1>9. CASE Unsealed(frames, i, Len(frames))
    <2>1. Marked[i] = [frames[i] EXCEPT !.cd = TRUE]
      BY <1>4, <1>8, <1>9
    <2> QED
      BY <1>2, <1>9, <2>1 DEF FrameType
  <1>10. CASE ~Unsealed(frames, i, Len(frames))
    <2>1. Marked[i] = frames[i]
      BY <1>4, <1>8, <1>10
    <2>2. frames[i].cd \in BOOLEAN
      BY <1>2 DEF FrameType
    <2> QED
      BY <1>10, <2>1, <2>2
  <1> QED
    BY <1>9, <1>10

\* Who was seen when a construct is entered still is, and no other.
LEMMA OpenedSeen ==
  ASSUME Stacks, Scalars, NEW kind \in Kinds, NEW flags, Open(kind, flags)
  PROVE  \A command : command \in Seen' <=> command \in Seen
  <1>1. walkers \in Seq(WalkerType) /\ Len(walkers) \in Nat
    BY Heights
  <1>2. DOMAIN walkers' = 1..Len(walkers')
    BY OpenedWalkers, LenProperties
  <1>3. \A command : command \in Seen' <=> \E i \in 1..Len(walkers') : command \in walkers'[i].executed
    BY <1>2 DEF Seen
  <1>4. CASE kind \in Copies
    <2>1. /\ Len(walkers') = Len(walkers) + 1
          /\ \A i \in 1..Len(walkers) : walkers'[i].executed = walkers[i].executed
          /\ walkers'[Len(walkers) + 1].executed = {}
      BY <1>4, OpenedWalkers
    <2>2. \A i : i \in 1..Len(walkers') <=> i \in 1..Len(walkers) \/ i = Len(walkers) + 1
      BY <1>1, <2>1
    <2> QED
      BY <1>1, <1>3, <2>1, <2>2, SeenIn
  <1>5. CASE kind \notin Copies
    BY <1>5 DEF Open, Seen
  <1> QED
    BY <1>4, <1>5

-----------------------------------------------------------------------------
(* Types. *)

LEMMA SameFrames ==
  ASSUME Stacks, Contexts, frames' = frames,
         walkers' \in Seq(WalkerType), Len(walkers') = Len(walkers)
  PROVE  Stacks' /\ Contexts'
  BY DEF Stacks, Contexts

LEMMA CdStacks ==
  ASSUME Stacks, Contexts, frames' = Marked,
         walkers' \in Seq(WalkerType), Len(walkers') = Len(walkers)
  PROVE  Stacks' /\ Contexts'
  <1> DEFINE n == Len(frames)
  <1>1. /\ n \in Nat /\ frames' \in Seq(FrameType) /\ Len(frames') = n
        /\ \A i \in 1..n : /\ frames'[i].kind = frames[i].kind
                           /\ frames'[i].part = frames[i].part
                           /\ frames'[i].flags = frames[i].flags
                           /\ frames'[i].ctx = frames[i].ctx
    BY MarkedFacts
  <1>2. Owner(frames', n + 1) = Owner(frames, n + 1)
    BY <1>1, OwnerSame
  <1>3. Stacks'
    BY <1>1, <1>2 DEF Stacks
  <1>4. ASSUME NEW i \in 1..n
        PROVE  frames'[i].ctx = UNION {frames'[j].flags : j \in 1..i}
    <2>1. \A j \in 1..i : frames'[j].flags = frames[j].flags
      BY <1>1
    <2> QED
      BY <1>1, <2>1 DEF Contexts
  <1> QED
    BY <1>1, <1>3, <1>4 DEF Contexts

LEMMA OpenStacks ==
  ASSUME Stacks, Scalars, Contexts, NEW kind \in Kinds, NEW flags \in SUBSET Flags, Open(kind, flags)
  PROVE  Stacks' /\ Contexts'
  <1> DEFINE n == Len(frames)
  <1>1. /\ n \in Nat /\ frames' \in Seq(FrameType) /\ Len(frames') = n + 1
        /\ \A i \in 1..n : frames'[i] = frames[i]
        /\ frames'[n + 1].kind = kind /\ frames'[n + 1].part = 1
        /\ frames'[n + 1].flags = flags /\ frames'[n + 1].ctx = Ctx \cup flags
    <2> HIDE DEF Stacks, Scalars, Contexts, FrameType
    <2>1. /\ frames' \in Seq(FrameType) /\ Len(frames) \in Nat /\ Len(frames') = Len(frames) + 1
          /\ \A i \in 1..Len(frames) : frames'[i] = frames[i]
      BY OpenedFacts
    <2>2. frames'[Len(frames) + 1].kind = kind /\ frames'[Len(frames) + 1].part = 1
      BY OpenedFacts
    <2>3. frames'[Len(frames) + 1].flags = flags
      BY OpenedFacts
    <2>4. frames'[Len(frames) + 1].ctx = Ctx \cup flags
      BY OpenedFacts, Zenon
    <2> QED
      BY <2>1, <2>2, <2>3, <2>4
  <1>2. \A i \in 1..(n + 1) : i = n + 1 \/ i \in 1..n
    BY <1>1
  <1>3. Len(walkers') = Owner(frames', n + 2)
    <2>1. Owner(frames', n + 1) = Owner(frames, n + 1)
      BY <1>1, OwnerSame
    <2>2. n + 1 \in 1..Len(frames') /\ n + 1 + 1 = n + 2
      BY <1>1
    <2>3. Owner(frames', n + 2) = IF kind \in Copies THEN Owner(frames', n + 1) + 1
                                                     ELSE Owner(frames', n + 1)
      BY <1>1, <2>2, OwnerFacts
    <2> QED
      BY <2>1, <2>3, OpenedWalkers DEF Stacks
  <1>4. ASSUME NEW i \in 1..(n + 1) PROVE frames'[i].part \in 1..Parts(frames'[i].kind)
    <2>1. 1 \in 1..Parts(kind)
      BY WalkAssumption DEF Parts
    <2> QED
      BY <1>1, <1>2, <2>1 DEF Stacks
  <1>5. Stacks'
    <2>1. Len(frames') + 1 = n + 2
      BY <1>1
    <2> QED
      BY <1>1, <1>3, <1>4, <2>1, OpenedWalkers DEF Stacks
  <1>6. ASSUME NEW i \in 1..(n + 1)
        PROVE  frames'[i].ctx = UNION {frames'[j].flags : j \in 1..i}
    <2>1. CASE i \in 1..n
      <3>1. \A j \in 1..i : frames'[j] = frames[j]
        BY <1>1, <2>1
      <3> QED
        BY <1>1, <2>1, <3>1 DEF Contexts
    <2>2. CASE i = n + 1
      <3>1. Ctx = UNION {frames[j].flags : j \in 1..n}
        <4>1. DOMAIN frames = 1..n
          BY LenProperties DEF Stacks
        <4> QED
          BY <4>1, ContextAround DEF Around
      <3>2. 1..(n + 1) = 1..n \cup {n + 1}
        BY <1>1
      <3> HIDE DEF n
      <3>3. UNION {frames'[j].flags : j \in 1..(n + 1)} = (UNION {frames[j].flags : j \in 1..n}) \cup flags
        <4>1. \A j \in 1..n : frames'[j].flags = frames[j].flags
          BY <1>1
        <4>2. frames'[n + 1].flags = flags
          BY <1>1
        <4> QED
          BY <3>2, <4>1, <4>2
      <3> QED
        BY <1>1, <2>2, <3>1, <3>3
    <2> QED
      BY <1>2, <2>1, <2>2
  <1> QED
    BY <1>1, <1>5, <1>6 DEF Contexts

LEMMA TurnStacks ==
  ASSUME Stacks, Scalars, Contexts, Turn
  PROVE  Stacks' /\ Contexts'
  <1> DEFINE n == Len(frames)
  <1>1. /\ n \in Nat /\ frames' \in Seq(FrameType) /\ Len(frames') = n
        /\ \A i \in 1..n : /\ frames'[i].kind = frames[i].kind
                           /\ frames'[i].flags = frames[i].flags
                           /\ frames'[i].ctx = frames[i].ctx
                           /\ frames'[i].part \in 1..Parts(frames[i].kind)
    BY TurnedFacts
  <1>2. Owner(frames', n + 1) = Owner(frames, n + 1)
    BY <1>1, OwnerSame
  <1>3. walkers' = walkers
    BY DEF Turn
  <1>4. Stacks'
    BY <1>1, <1>2, <1>3 DEF Stacks
  <1>5. ASSUME NEW i \in 1..n
        PROVE  frames'[i].ctx = UNION {frames'[j].flags : j \in 1..i}
    <2>1. \A j \in 1..i : frames'[j].flags = frames[j].flags
      BY <1>1
    <2> QED
      BY <1>1, <2>1 DEF Contexts
  <1> QED
    BY <1>1, <1>4, <1>5 DEF Contexts

LEMMA LeftStacks ==
  ASSUME Stacks, Scalars, Contexts, Inner, Left,
         walkers' \in Seq(WalkerType),
         Len(walkers') = IF Frame.kind \in Copies THEN Len(walkers) - 1 ELSE Len(walkers)
  PROVE  Stacks' /\ Contexts'
  <1> DEFINE n == Len(frames)
  <1>1. /\ n \in Nat /\ n \in 1..n /\ frames' \in Seq(FrameType) /\ Len(frames') = n - 1
        /\ \A i \in 1..(n - 1) : frames'[i] = frames[i]
        /\ Frame = frames[n]
    BY LeftFacts
  <1>2. Owner(frames', n) = Owner(frames, n)
    BY <1>1, OwnerSame
  <1>3. Len(walkers) = IF Frame.kind \in Copies THEN Owner(frames, n) + 1 ELSE Owner(frames, n)
    BY <1>1, OwnerFacts DEF Stacks
  <1>4. Owner(frames, n) \in Nat
    BY <1>1, Heights
  <1>5. Len(walkers') = Owner(frames', Len(frames') + 1)
    <2>1. Len(frames') + 1 = n
      BY <1>1
    <2> QED
      BY <1>2, <1>3, <1>4, <2>1
  <1>6. Stacks'
    BY <1>1, <1>5 DEF Stacks
  <1>7. ASSUME NEW i \in 1..(n - 1)
        PROVE  frames'[i].ctx = UNION {frames'[j].flags : j \in 1..i}
    <2>1. i \in 1..n /\ \A j \in 1..i : frames'[j] = frames[j]
      BY <1>1
    <2>2. {frames'[j].flags : j \in 1..i} = {frames[j].flags : j \in 1..i}
      BY <2>1
    <2>3. frames'[i].ctx = frames[i].ctx /\ frames[i].ctx = UNION {frames[j].flags : j \in 1..i}
      BY <1>1, <2>1 DEF Contexts
    <2> QED
      BY <2>2, <2>3
  <1> QED
    BY <1>1, <1>6, <1>7 DEF Contexts

\* Every cd is a move that is marked.
LEMMA CdMoves ==
  ASSUME Stacks
  PROVE  /\ \A target \in Dirs \cup Words :
              Cd(target) => target \in Places /\ Moves(target) /\ frames' = Marked
         /\ \A word \in Words \cup {Walker.cwd} : \A place :
              CdElsewhere(word, place) => word \in Places /\ Moves(word) /\ frames' = Marked
  <1>1. Walker.cwd \in Places
    BY Heights DEF WalkerType
  <1> QED
    BY <1>1 DEF Places, Cd, CdElsewhere, Moves

LEMMA StacksNext ==
  ASSUME WalkInv, [Next]_vars
  PROVE  Stacks' /\ Contexts'
  <1> USE DEF WalkInv
  <1>1. ASSUME NEW word \in Places, Moves(word), frames' = Marked PROVE Stacks' /\ Contexts'
    BY <1>1, MovesFacts, CdStacks
  <1>2. ASSUME NEW flags \in WrapperFlags, Run(flags) PROVE Stacks' /\ Contexts'
    <2>1. "command" \in Names /\ Ctx \cup flags \in SUBSET Flags
      BY ContextAround DEF Names, WrapperFlags, Flags
    <2> QED
      BY <1>2, <2>1, RecordedFacts, SameFrames DEF Run
  <1>3. ASSUME NEW kind \in Kinds, NEW flags \in SUBSET Flags, Open(kind, flags)
        PROVE  Stacks' /\ Contexts'
    BY <1>3, OpenStacks
  <1>4. CASE Turn
    BY <1>4, TurnStacks
  <1>5. CASE Close
    <2>1. Inner /\ Left
      BY <1>5 DEF Close
    <2> QED
      BY <1>5, <2>1, ClosedWalkers, LeftStacks
  <1>6. CASE CloseIntoShell
    <2>1. "__shell_pipe_sink__" \in Names /\ {} \in SUBSET Flags
      BY DEF Names
    <2>2. Inner /\ Left /\ Frame.kind = "pipe" /\ NewNode
          /\ walkers' = Recorded("__shell_pipe_sink__", {})
      BY <1>6 DEF CloseIntoShell
    <2>3. walkers' \in Seq(WalkerType) /\ Len(walkers') = Len(walkers)
      BY <2>1, <2>2, RecordedFacts
    <2> QED
      BY <2>2, <2>3, LeftStacks DEF Copies
  <1>7. ASSUME NEW flags \in {{}, {"remote"}}, Unparsed(flags) PROVE Stacks' /\ Contexts'
    <2>1. "__inline_parse_error__" \in Names /\ flags \in SUBSET Flags
      BY DEF Names, Flags
    <2> QED
      BY <1>7, <2>1, RecordedFacts, SameFrames DEF Unparsed
  <1>8. CASE UNCHANGED <<walkers, frames>>
    BY <1>8, SameFrames, Heights
  <1>9. \A kind \in Kinds : \A flags \in FlagsOf(kind) : flags \in SUBSET Flags
    BY DEF FlagsOf, WrapperFlags, Flags
  <1> QED
    BY <1>1, <1>2, <1>3, <1>4, <1>5, <1>6, <1>7, <1>8, <1>9, CdMoves
    DEF Next, Substitute, BareShell, Unvisited, RunsUnseen, End, Finished, vars

LEMMA TargetType ==
  ASSUME Scalars, NEW target \in Dirs \cup Words
  PROVE  Target(target) \in DirType
  <1> DEFINE S == Dirs \cup Words \cup {HookCwd}
  <1>1. dir \in Seq(S) /\ target \in S
    BY DEF Scalars, DirType
  <1> HIDE DEF S
  <1>2. <<target>> \in Seq(S) /\ <<target>> # <<>>
    BY <1>1
  <1>3. Append(dir, target) \in Seq(S) /\ Append(dir, target) # <<>>
    BY <1>1, AppendProperties
  <1> QED
    BY <1>2, <1>3 DEF Target, DirType, S

LEMMA ScalarsNext ==
  ASSUME WalkInv, [Next]_vars
  PROVE  Scalars' /\ (nodes' = nodes \/ nodes' = nodes + 1)
  <1> USE DEF WalkInv
  <1>1. CASE UNCHANGED <<dir, status, course, nodes>> /\ ended' \in BOOLEAN
    BY <1>1 DEF Scalars
  <1>2. ASSUME NewNode PROVE nodes' \in 0..MaxNodes /\ nodes' = nodes + 1
    BY <1>2, WalkAssumption DEF NewNode, Scalars
  <1>3. ASSUME Inner, Left PROVE dir' \in DirType /\ course' \in Courses
    <2>1. Frame \in FrameType
      BY <1>3, LeftFacts
    <2> QED
      BY <1>3, <2>1 DEF Left, Across, Scalars, FrameType, Courses
  <1>4. ASSUME NEW place, NEW since, NEW flags, NEW read, HappensAt(place, since, flags, read)
        PROVE  status' \in BOOLEAN
    BY <1>4 DEF HappensAt, Scalars
  <1>5. ASSUME NEW target \in Dirs \cup Words, Cd(target) PROVE Scalars' /\ nodes' = nodes + 1
    <2>1. dir' \in DirType
      BY <1>5, TargetType DEF Cd, Scalars
    <2> QED
      BY <1>2, <1>5, <2>1 DEF Cd, Scalars, Courses
  <1>6. ASSUME NEW word, NEW place \in Dirs \cup {HookCwd}, CdElsewhere(word, place)
        PROVE  Scalars' /\ nodes' = nodes + 1
    <2>1. <<place>> \in DirType
      BY DEF DirType
    <2> QED
      BY <1>2, <1>6, <2>1 DEF CdElsewhere, Scalars, Courses
  <1>7. ASSUME NEW flags, Run(flags) \/ Unparsed(flags) \/ RunsUnseen
        PROVE  Scalars' /\ nodes' = nodes + 1
    <2>1. UNCHANGED <<dir, course, ended>> /\ nodes' \in 0..MaxNodes /\ nodes' = nodes + 1
      BY <1>2, <1>7 DEF Run, Unparsed, RunsUnseen
    <2>2. status' \in BOOLEAN
      BY <1>4, <1>7 DEF Run, Unparsed, RunsUnseen, Happens
    <2> QED
      BY <2>1, <2>2 DEF Scalars
  <1>8. ASSUME NEW kind, NEW flags, Open(kind, flags) PROVE Scalars' /\ nodes' = nodes + 1
    BY <1>2, <1>8 DEF Open, Scalars
  <1>9. CASE Turn
    <2>1. Frame \in FrameType
      BY <1>9, TurnedFacts
    <2> QED
      BY <1>9, <2>1 DEF Turn, Across, Scalars, FrameType, Courses
  <1>10. CASE Close
    <2>1. status' \in BOOLEAN
      BY <1>10 DEF Close, StatusAfter, Scalars
    <2> QED
      BY <1>3, <1>10, <2>1 DEF Close, Scalars
  <1>11. CASE CloseIntoShell
    <2>1. ended' = ended /\ nodes' \in 0..MaxNodes /\ nodes' = nodes + 1 /\ status' \in BOOLEAN
      BY <1>2, <1>4, <1>11 DEF CloseIntoShell
    <2>2. dir' \in DirType /\ course' \in Courses
      BY <1>3, <1>11 DEF CloseIntoShell
    <2> QED
      BY <2>1, <2>2 DEF Scalars
  <1>12. CASE End
    BY <1>1, <1>12 DEF End
  <1>13. CASE UNCHANGED vars
    BY <1>13 DEF vars, Scalars
  <1> QED
    BY <1>5, <1>6, <1>7, <1>8, <1>9, <1>10, <1>11, <1>12, <1>13
    DEF Next, Substitute, BareShell, Unvisited, Finished

-----------------------------------------------------------------------------
(* What is run and what is seen. *)

RunRecord(place, since, extra) ==
  [node |-> nodes + 1, flags |-> Around \cup extra, dir |-> place, course |-> since, read |-> TRUE]

UnseenRecord ==
  [node |-> nodes + 1, flags |-> Around, dir |-> dir, course |-> course, read |-> FALSE]

\* A step that records a command and, if the shell gets there, runs it.
Executes(place, since, name, flags, extra) ==
  NewNode /\ walkers' = Recorded(name, flags) /\ HappensAt(place, since, extra, TRUE)

LEMMA ExecutesFacts ==
  ASSUME WalkInv, NEW name \in Names, NEW flags \in SUBSET Flags, NEW extra,
         NEW place, NEW since,
         Executes(place, since, name, flags, extra)
  PROVE  /\ nodes \in Nat /\ nodes' = nodes + 1
         /\ \A command : command \in Seen' <=> command \in Seen \/ command = New(name, flags)
         /\ \A run : run \in ran' => run \in ran \/ run = RunRecord(place, since, extra)
  <1>1. \A run : run \in ran' => run \in ran \/ run = RunRecord(place, since, extra)
    BY DEF Executes, HappensAt, RunRecord
  <1> QED
    BY <1>1, RecordedFacts, RecordedSeen DEF WalkInv, Executes

LEMMA ExecutesSeen ==
  ASSUME WalkInv, ReadRunsRecorded, NEW name \in Names, NEW flags \in SUBSET Flags, NEW extra,
         NEW place, NEW since,
         Executes(place, since, name, flags, extra), name = "command" => flags = Around \cup extra
  PROVE  Numbered' /\ ReadRunsRecorded'
  <1>1. /\ nodes \in Nat /\ nodes' = nodes + 1
        /\ \A command : command \in Seen' <=> command \in Seen \/ command = New(name, flags)
        /\ \A run : run \in ran' => run \in ran \/ run = RunRecord(place, since, extra)
    BY ExecutesFacts
  <1>2. /\ New(name, flags).node = nodes + 1 /\ New(name, flags).name = name
        /\ New(name, flags).flags = flags
        /\ RunRecord(place, since, extra).node = nodes + 1 /\ RunRecord(place, since, extra).flags = Around \cup extra
        /\ RunRecord(place, since, extra).read = TRUE
    BY DEF New, RunRecord
  <1>3. \A m \in 1..nodes : m \in 1..nodes' /\ m # nodes + 1
    BY <1>1
  <1>4. nodes + 1 \in 1..nodes'
    BY <1>1
  <1>5. Numbered'
    BY <1>1, <1>2, <1>3, <1>4 DEF WalkInv, Numbered
  <1> SUFFICES ASSUME NEW run \in ran'
               PROVE  run.read <=> \E command \in Seen' :
                        /\ command.node = run.node
                        /\ command.name = "command" => command.flags = run.flags
    BY <1>5 DEF ReadRunsRecorded
  <1>6. CASE run \in ran
    <2>1. run.node # nodes + 1
      BY <1>3, <1>6 DEF WalkInv, Numbered
    <2> QED
      BY <1>1, <1>2, <1>6, <2>1 DEF ReadRunsRecorded
  <1>7. CASE run = RunRecord(place, since, extra)
    <2>1. New(name, flags) \in Seen'
      BY <1>1
    <2> QED
      BY <1>2, <1>7, <2>1
  <1> QED
    BY <1>1, <1>6, <1>7

LEMMA UnseenRuns ==
  ASSUME WalkInv, ReadRunsRecorded, RunsUnseen
  PROVE  Numbered' /\ ReadRunsRecorded'
  <1> DEFINE new == UnseenRecord
  <1>1. /\ nodes \in Nat /\ nodes' = nodes + 1 /\ walkers' = walkers /\ Seen' = Seen
        /\ \A run : run \in ran' => run \in ran \/ run = new
    BY DEF RunsUnseen, NewNode, Happens, HappensAt, UnseenRecord, WalkInv, Scalars, Seen
  <1>2. new.node = nodes + 1 /\ new.read = FALSE
    BY DEF UnseenRecord
  <1>3. /\ \A m \in 1..nodes : m \in 1..nodes' /\ m # nodes + 1
        /\ nodes + 1 \in 1..nodes'
    BY <1>1
  <1> HIDE DEF new
  <1>4. Numbered'
    BY <1>1, <1>2, <1>3 DEF WalkInv, Numbered
  <1>5. \A command \in Seen : command.node # new.node
    BY <1>2, <1>3 DEF WalkInv, Numbered
  <1> QED
    BY <1>1, <1>2, <1>4, <1>5 DEF ReadRunsRecorded

LEMMA NothingRuns ==
  ASSUME WalkInv, ReadRunsRecorded, ran' = ran, nodes' = nodes \/ nodes' = nodes + 1,
         \A command : command \in Seen' <=> command \in Seen
  PROVE  Numbered' /\ ReadRunsRecorded'
  <1>1. \A m \in 1..nodes : m \in 1..nodes'
    BY DEF WalkInv, Scalars
  <1> QED
    BY <1>1 DEF WalkInv, Numbered, ReadRunsRecorded

\* The commands that a step records, with the flags it runs them with.
LEMMA WhatExecutes ==
  ASSUME WalkInv
  PROVE  /\ \A flags \in WrapperFlags :
              /\ "command" \in Names /\ Ctx \cup flags \in SUBSET Flags
              /\ Ctx \cup flags = Around \cup flags
              /\ Run(flags) => Executes(dir, course, "command", Ctx \cup flags, flags)
         /\ \A flags \in {{}, {"remote"}} :
              /\ "__inline_parse_error__" \in Names /\ flags \in SUBSET Flags
              /\ Unparsed(flags) => Executes(dir, course, "__inline_parse_error__", flags, flags)
         /\ "__shell_pipe_sink__" \in Names /\ {} \in SUBSET Flags
         /\ CloseIntoShell =>
              Executes(Frame.dir, Across(Frame.course), "__shell_pipe_sink__", {}, {})
  <1>1. Ctx = Around /\ Ctx \in SUBSET Flags
    BY ContextAround DEF WalkInv
  <1>2. \A flags \in WrapperFlags \cup {{}, {"remote"}} : flags \in SUBSET Flags
    BY DEF WrapperFlags, Flags
  <1> QED
    BY <1>1, <1>2 DEF Names, Run, Unparsed, CloseIntoShell, Executes, Happens

LEMMA WalkNext ==
  ASSUME WalkInv, ReadRunsRecorded, [Next]_vars
  PROVE  WalkInv' /\ ReadRunsRecorded'
  <1>1. Stacks' /\ Contexts' /\ Scalars' /\ (nodes' = nodes \/ nodes' = nodes + 1)
    BY StacksNext, ScalarsNext
  <1>2. ASSUME NEW flags \in WrapperFlags, Run(flags) PROVE Numbered' /\ ReadRunsRecorded'
    BY <1>2, WhatExecutes, ExecutesSeen
  <1>3. ASSUME NEW flags \in {{}, {"remote"}}, Unparsed(flags) PROVE Numbered' /\ ReadRunsRecorded'
    <2>1. "__inline_parse_error__" # "command"
      OBVIOUS
    <2> QED
      BY <1>3, <2>1, WhatExecutes, ExecutesSeen
  <1>4. ASSUME CloseIntoShell PROVE Numbered' /\ ReadRunsRecorded'
    <2>1. "__shell_pipe_sink__" # "command"
      OBVIOUS
    <2> QED
      BY <1>4, <2>1, WhatExecutes, ExecutesSeen
  <1>5. ASSUME NEW word \in Places, Moves(word), ran' = ran PROVE Numbered' /\ ReadRunsRecorded'
    BY <1>1, <1>5, MovesFacts, NothingRuns DEF WalkInv
  <1>6. ASSUME NEW kind \in Kinds, NEW flags, Open(kind, flags) PROVE Numbered' /\ ReadRunsRecorded'
    BY <1>1, <1>6, OpenedSeen, NothingRuns DEF WalkInv, Open
  <1>7. ASSUME Close PROVE Numbered' /\ ReadRunsRecorded'
    BY <1>1, <1>7, ClosedWalkers, NothingRuns DEF WalkInv, Close
  <1>8. ASSUME UNCHANGED <<walkers, ran>> PROVE Numbered' /\ ReadRunsRecorded'
    <2>1. Seen' = Seen
      BY <1>8 DEF Seen
    <2> QED
      BY <1>1, <1>8, <2>1, NothingRuns
  <1>9. ASSUME RunsUnseen PROVE Numbered' /\ ReadRunsRecorded'
    BY <1>9, UnseenRuns
  <1>10. \A target \in Dirs \cup Words :
            Cd(target) => target \in Places /\ Moves(target) /\ ran' = ran
    BY CdMoves DEF WalkInv, Cd
  <1>11. \A word \in Words \cup {Walker.cwd} : \A place :
            CdElsewhere(word, place) => word \in Places /\ Moves(word) /\ ran' = ran
    BY CdMoves DEF WalkInv, CdElsewhere
  <1>12. Numbered' /\ ReadRunsRecorded'
    BY <1>2, <1>3, <1>4, <1>5, <1>6, <1>7, <1>8, <1>9, <1>10, <1>11
    DEF Next, Substitute, BareShell, Unvisited, Turn, End, Finished, vars
  <1> QED
    BY <1>1, <1>12 DEF WalkInv

LEMMA WalkInit == Init => WalkInv /\ ReadRunsRecorded
  <1> SUFFICES ASSUME Init PROVE WalkInv /\ ReadRunsRecorded
    OBVIOUS
  <1> DEFINE first == [cwd |-> Empty, executed |-> {}]
  <1>1. first \in WalkerType /\ first.executed = {}
    BY DEF WalkerType, Places
  <1>2. walkers = <<first>> /\ frames = <<>>
    BY DEF Init
  <1> HIDE DEF first
  <1>3. walkers \in Seq(WalkerType) /\ Len(walkers) = 1 /\ walkers[1] = first
    BY <1>1, <1>2
  <1>4. frames \in Seq(FrameType) /\ Len(frames) = 0
    BY <1>2, EmptySeq
  <1>5. Owner(frames, Len(frames) + 1) = 1
    <2>1. Len(frames) + 1 = 1
      BY <1>4
    <2> QED
      BY <1>4, <2>1, OwnerFacts
  <1>6. Stacks
    BY <1>3, <1>4, <1>5 DEF Stacks
  <1>7. \A command : command \notin Seen
    BY <1>1, <1>3, SeenIn
  <1>8. Contexts /\ Numbered /\ ReadRunsRecorded
    BY <1>4, <1>7 DEF Contexts, Numbered, ReadRunsRecorded, Init
  <1>9. Scalars
    <2>1. 0 \in 0..MaxNodes
      BY WalkAssumption
    <2>2. <<HookCwd>> \in DirType
      BY DEF DirType
    <2> QED
      BY <2>1, <2>2 DEF Scalars, Init, Courses
  <1> QED
    BY <1>6, <1>8, <1>9 DEF WalkInv

LEMMA Walked == Spec => [](WalkInv /\ ReadRunsRecorded)
  <1>1. WalkInv /\ ReadRunsRecorded /\ [Next]_vars => (WalkInv /\ ReadRunsRecorded)'
    BY WalkNext
  <1> QED
    BY <1>1, WalkInit, PTL DEF Spec

\* Types: for scripts of every length and nesting there is a walker for every
\* copy that is open, and one more.
THEOREM WalkTypeCorrect == Spec => []TypeOK
  <1>1. WalkInv => TypeOK
    <2> SUFFICES ASSUME WalkInv PROVE TypeOK
      OBVIOUS
    <2>1. /\ walkers \in Seq(WalkerType) /\ walkers # <<>> /\ DOMAIN walkers = 1..Len(walkers)
          /\ frames \in Seq(FrameType) /\ DOMAIN frames = 1..Len(frames) /\ Len(frames) \in Nat
      BY Heights, LenProperties DEF WalkInv
    <2>2. \A i \in 1..Len(walkers) : walkers[i] \in WalkerType
      BY <2>1, ElementOfSeq
    <2>3. \A i \in 1..Len(frames) : frames[i] \in FrameType
      BY <2>1, ElementOfSeq
    <2>4. Len(walkers) = 1 + Cardinality({i \in DOMAIN frames : frames[i].kind \in Copies})
      <3>1. Len(frames) + 1 - 1 = Len(frames)
        BY <2>1
      <3> QED
        BY <2>1, <3>1 DEF WalkInv, Stacks, Owner
    <2>5. \A i \in DOMAIN walkers :
            /\ walkers[i].cwd \in Dirs \cup Words \cup {Empty}
            /\ walkers[i].executed \subseteq
                 [node : 1..MaxNodes, name : Names, flags : SUBSET Flags,
                  cwd : Dirs \cup Words \cup {Empty}]
      BY <2>1, <2>2 DEF WalkerType, Command, Places
    <2>6. \A i \in DOMAIN frames :
            /\ frames[i].kind \in Kinds
            /\ frames[i].part \in 1..Parts(frames[i].kind)
      BY <2>1, <2>3 DEF FrameType, WalkInv, Stacks
    <2> QED
      BY <2>1, <2>4, <2>5, <2>6 DEF TypeOK, WalkInv, Scalars, DirType
  <1> QED
    BY <1>1, Walked, PTL

\* However long and however nested a script is: a simple command that the shell
\* runs in a nest of the constructs of the walk is recorded, with its flags.
\* The exceptions are what a shell without -c reads anywhere but at the end of a
\* pipeline, and statements and substitutions that walkStmt has no case for:
\* none of these is recorded.
THEOREM ReadRunsAreRecorded == Spec => []ReadRunsRecorded
  BY Walked, PTL

-----------------------------------------------------------------------------
(* Where commands run. *)

Together == Here /\ Below /\ StillHere /\ StillAbove /\ Outward

LEMMA Unmoved ==
  ASSUME WalkInv, Together, UNCHANGED <<frames, dir, course>>,
         Len(walkers') = Len(walkers),
         \A i \in 1..Len(walkers) : walkers'[i].cwd = walkers[i].cwd
  PROVE  Together'
  <1>1. Here'
    <2>1. Walker'.cwd = Walker.cwd
      <3>1. Len(walkers) \in 1..Len(walkers)
        BY Heights DEF WalkInv
      <3> QED
        BY <3>1 DEF Walker, Last
    <2> QED
      BY <2>1 DEF Together, Here, Place
  <1>2. Below'
    <2>1. \A i \in 1..Len(frames) : Owner(frames, i) \in 1..Len(walkers)
      BY Heights DEF WalkInv
    <2> QED
      BY <2>1 DEF Together, Below, Place
  <1>3. StillHere' /\ StillAbove' /\ Outward'
    BY DEF Together, StillHere, StillAbove, Outward
  <1> QED
    BY <1>1, <1>2, <1>3 DEF Together

\* After a cd that the shell follows the walker is where the shell is.
LEMMA CdHere ==
  ASSUME Stacks,
         \/ \E target \in Dirs \cup Words : Cd(target)
         \/ \E word \in Words \cup {Walker.cwd}, place \in Dirs \cup {HookCwd} : CdElsewhere(word, place)
  PROVE  /\ frames' = Marked
         /\ \E word \in Places : Moves(word)
         /\ Here'
  <1>1. ASSUME NEW target \in Dirs \cup Words, Cd(target)
        PROVE  frames' = Marked /\ (\E word \in Places : Moves(word)) /\ Here'
    <2>1. target \in Places /\ Moves(target) /\ frames' = Marked
      BY <1>1, CdMoves
    <2>2. Walker'.cwd = target
      <3>1. /\ Len(walkers') = Len(walkers) /\ Len(walkers) \in 1..Len(walkers)
            /\ walkers'[Len(walkers)].cwd = target
        BY <2>1, MovesFacts, Heights
      <3> QED
        BY <3>1 DEF Walker, Last
    <2>3. target # Empty
      BY WalkAssumption
    <2>4. course' = "followed" => dir' = Place(target)
      <3>1. CASE target \in Dirs
        <4>1. course' = "followed" => dir' = <<target>>
          BY <1>1, <3>1 DEF Cd, Target
        <4>2. Place(target) = <<target>>
          BY <2>3, <3>1 DEF Place
        <4> QED
          BY <4>1, <4>2
      <3>2. CASE target \notin Dirs
        <4>1. course' = "followed" => dir' = Append(<<HookCwd>>, target)
          BY <1>1, <3>2 DEF Cd, Target
        <4>2. Place(target) = Append(<<HookCwd>>, target)
          BY <2>3, <3>2 DEF Place
        <4> QED
          BY <4>1, <4>2
      <3> QED
        BY <3>1, <3>2
    <2> QED
      BY <2>1, <2>2, <2>4 DEF Here, Place
  <1>2. ASSUME NEW word \in Words \cup {Walker.cwd}, NEW place, CdElsewhere(word, place)
        PROVE  frames' = Marked /\ (\E w \in Places : Moves(w)) /\ Here'
    BY <1>2, CdMoves DEF CdElsewhere, Here
  <1> QED
    BY <1>1, <1>2

\* A cd marks the constructs around it, so that only those make no claim.
LEMMA CdTogether ==
  ASSUME WalkInv, Together, frames' = Marked, NEW word \in Places, Moves(word), Here'
  PROVE  Together'
  <1> DEFINE n == Len(frames)
  <1>1. /\ Len(walkers') = Len(walkers)
        /\ \A i \in 1..Len(walkers) :
             walkers'[i].cwd = IF i = Len(walkers) THEN word ELSE walkers[i].cwd
    BY MovesFacts DEF WalkInv
  <1>2. /\ n \in Nat /\ Len(frames') = n
        /\ \A i \in 1..n : /\ frames'[i].kind = frames[i].kind
                           /\ frames'[i].dir = frames[i].dir
                           /\ frames'[i].course = frames[i].course
                           /\ frames'[i].cd = (frames[i].cd \/ Unsealed(frames, i, n))
    BY MarkedFacts DEF WalkInv
  <1>3. \A i, m \in 1..n : Unsealed(frames', i, m) = Unsealed(frames, i, m)
    BY <1>2 DEF Unsealed
  <1>4. Below'
    <2> SUFFICES ASSUME NEW i \in 1..n, frames[i].course = "followed",
                        frames[i].kind \in Copies \/ (~frames[i].cd /\ ~Unsealed(frames, i, n))
                 PROVE  frames[i].dir = Place(walkers'[Owner(frames', i)].cwd)
      BY <1>2 DEF Below, Place
    <2>1. Owner(frames', i) = Owner(frames, i)
      BY <1>2, OwnerSame
    <2>2. Owner(frames, i) < Len(walkers) /\ Owner(frames, i) \in 1..Len(walkers)
      <3>1. i \in 1..(n + 1)
        BY <1>2
      <3>2. CASE frames[i].kind \in Copies
        BY <3>1, <3>2, Heights DEF WalkInv
      <3>3. CASE ~Unsealed(frames, i, n)
        <4>1. PICK k \in (i + 1)..n : frames[k].kind \in Sealed
          BY <3>3 DEF Unsealed
        <4>2. k \in 1..n /\ k \in 1..(n + 1) /\ i <= k /\ frames[k].kind \in Copies
          BY <1>2, <4>1 DEF Sealed, Copies
        <4>3. Owner(frames, i) <= Owner(frames, k)
          BY <3>1, <4>2, OwnerFacts DEF WalkInv, Stacks
        <4>4. Owner(frames, k) < Len(walkers)
          BY <4>2, Heights DEF WalkInv
        <4>5. Owner(frames, k) \in 1..Len(walkers) /\ Owner(frames, i) \in 1..Len(walkers)
              /\ Len(walkers) \in Nat
          BY <3>1, <4>2, Heights DEF WalkInv
        <4> QED
          BY <4>3, <4>4, <4>5
      <3> QED
        BY <3>2, <3>3
    <2>3. walkers'[Owner(frames, i)].cwd = walkers[Owner(frames, i)].cwd
      BY <1>1, <2>2
    <2> QED
      BY <2>1, <2>3 DEF Together, Below
  <1>5. StillHere'
    <2> SUFFICES ASSUME NEW i \in 1..n, ~frames'[i].cd, Unsealed(frames', i, n) PROVE FALSE
      BY <1>2 DEF StillHere
    <2>1. Unsealed(frames, i, n)
      <3>1. n \in 1..n
        BY <1>2
      <3> QED
        BY <1>3, <3>1
    <2> QED
      BY <1>2, <2>1
  <1>6. StillAbove'
    <2> SUFFICES ASSUME NEW i \in 1..n, NEW m \in 1..n, i < m, ~frames'[i].cd, Unsealed(frames', i, m - 1)
                 PROVE  frames'[m].dir = frames'[i].dir /\ frames'[m].course = frames'[i].course
      BY <1>2 DEF StillAbove
    <2>1. Unsealed(frames, i, m - 1)
      <3>1. m - 1 \in 1..n
        BY <1>2
      <3> QED
        BY <1>3, <3>1
    <2> QED
      BY <1>2, <2>1 DEF Together, StillAbove
  <1>7. Outward'
    <2> SUFFICES ASSUME NEW i \in 1..n, NEW m \in 1..n, i < m, frames'[m].cd, Unsealed(frames, i, m)
                 PROVE  frames'[i].cd
      BY <1>2, <1>3 DEF Outward
    <2>1. CASE frames[m].cd
      BY <1>2, <2>1 DEF Together, Outward
    <2>2. CASE Unsealed(frames, m, n)
      <3>1. \A k \in (i + 1)..n : k \in (i + 1)..m \/ k \in (m + 1)..n
        BY <1>2
      <3>2. Unsealed(frames, i, n)
        BY <2>2, <3>1 DEF Unsealed
      <3> QED
        BY <1>2, <3>2
    <2> QED
      BY <1>2, <2>1, <2>2
  <1> QED
    BY <1>4, <1>5, <1>6, <1>7 DEF Together

LEMMA OpenTogether ==
  ASSUME WalkInv, Together, NEW kind \in Kinds, NEW flags \in SUBSET Flags, Open(kind, flags)
  PROVE  Together'
  <1> DEFINE n == Len(frames)
             m == Len(walkers)
  <1>1. /\ n \in Nat /\ Len(frames') = n + 1
        /\ \A i \in 1..n : frames'[i] = frames[i]
        /\ frames'[n + 1].kind = kind /\ frames'[n + 1].cd = FALSE
        /\ frames'[n + 1].dir = dir /\ frames'[n + 1].course = course
        /\ UNCHANGED <<dir, course>>
    BY OpenedFacts DEF WalkInv, Open
  <1>2. /\ m \in Nat \ {0} /\ m \in 1..m /\ Walker = walkers[m] /\ m = Owner(frames, n + 1)
        /\ \A i \in 1..(n + 1) : Owner(frames, i) \in 1..m
    BY Heights DEF WalkInv, Stacks
  <1>3. /\ Len(walkers') = IF kind \in Copies THEN m + 1 ELSE m
        /\ \A i \in 1..m : walkers'[i] = walkers[i]
        /\ kind \in Copies => walkers'[m + 1].cwd = Walker.cwd
    BY OpenedWalkers DEF WalkInv
  <1>4. \A i \in 1..(n + 1) : i \in Nat /\ (i = n + 1 \/ i \in 1..n)
    BY <1>1
  <1>5. Here'
    <2>1. Walker'.cwd = Walker.cwd
      BY <1>2, <1>3 DEF Walker, Last
    <2> QED
      BY <1>1, <2>1 DEF Together, Here, Place
  <1>6. \A i \in 1..(n + 1) : Owner(frames', i) = Owner(frames, i)
    <2> SUFFICES ASSUME NEW i \in 1..(n + 1) PROVE Owner(frames', i) = Owner(frames, i)
      OBVIOUS
    <2>1. i \in Nat /\ \A j \in 1..(i - 1) : j \in 1..n
      BY <1>1
    <2> QED
      BY <1>1, <2>1, OwnerSame
  <1>7. Below'
    <2> SUFFICES ASSUME NEW i \in 1..(n + 1), frames'[i].kind \in Copies \/ ~frames'[i].cd,
                        frames'[i].course = "followed"
                 PROVE  frames'[i].dir = Place(walkers'[Owner(frames', i)].cwd)
      BY <1>1 DEF Below, Place
    <2>1. walkers'[Owner(frames', i)] = walkers[Owner(frames, i)]
      BY <1>2, <1>3, <1>6
    <2>2. CASE i \in 1..n
      BY <1>1, <2>1, <2>2 DEF Together, Below
    <2>3. CASE i = n + 1
      BY <1>1, <1>2, <2>1, <2>3 DEF Together, Here
    <2> QED
      BY <1>4, <2>2, <2>3
  <1>8. ASSUME NEW i \in 1..n, NEW h \in i..(n + 1)
        PROVE  Unsealed(frames', i, h) => Unsealed(frames, i, IF h = n + 1 THEN n ELSE h)
    <2>1. \A k \in (i + 1)..n : k \in 1..n
      BY <1>1
    <2> QED
      BY <1>1, <2>1 DEF Unsealed
  <1>9. StillHere'
    <2> SUFFICES ASSUME NEW i \in 1..(n + 1), ~frames'[i].cd, Unsealed(frames', i, n + 1)
                 PROVE  dir = frames'[i].dir /\ course = frames'[i].course
      BY <1>1 DEF StillHere
    <2>1. CASE i \in 1..n
      <3>1. n + 1 \in i..(n + 1)
        BY <1>1, <2>1
      <3>2. Unsealed(frames, i, n)
        BY <1>8, <2>1, <3>1
      <3> QED
        BY <1>1, <2>1, <3>2 DEF Together, StillHere
    <2>2. CASE i = n + 1
      BY <1>1, <2>2
    <2> QED
      BY <1>4, <2>1, <2>2
  <1>10. StillAbove'
    <2> SUFFICES ASSUME NEW i \in 1..(n + 1), NEW h \in 1..(n + 1), i < h, ~frames'[i].cd,
                        Unsealed(frames', i, h - 1)
                 PROVE  frames'[h].dir = frames'[i].dir /\ frames'[h].course = frames'[i].course
      BY <1>1 DEF StillAbove
    <2>1. i \in 1..n /\ h - 1 \in i..(n + 1) /\ h - 1 # n + 1
      BY <1>1
    <2>2. Unsealed(frames, i, h - 1)
      BY <1>8, <2>1
    <2>3. CASE h \in 1..n
      BY <1>1, <2>1, <2>2, <2>3 DEF Together, StillAbove
    <2>4. CASE h = n + 1
      <3>1. Unsealed(frames, i, n)
        BY <1>1, <2>2, <2>4
      <3> QED
        BY <1>1, <2>1, <2>4, <3>1 DEF Together, StillHere
    <2> QED
      BY <1>4, <2>3, <2>4
  <1>11. Outward'
    <2> SUFFICES ASSUME NEW i \in 1..(n + 1), NEW h \in 1..(n + 1), i < h, frames'[h].cd,
                        Unsealed(frames', i, h)
                 PROVE  frames'[i].cd
      BY <1>1 DEF Outward
    <2>1. h # n + 1
      BY <1>1
    <2>2. h \in 1..n /\ i \in 1..n /\ h \in i..(n + 1)
      BY <1>1, <2>1
    <2>3. Unsealed(frames, i, h)
      BY <1>8, <2>1, <2>2
    <2> QED
      BY <1>1, <2>2, <2>3 DEF Together, Outward
  <1> QED
    BY <1>5, <1>7, <1>9, <1>10, <1>11 DEF Together

\* When a part ends in which the walk or the shell alone keeps its cd, the
\* constructs around it that make a claim had no cd in it.
LEMMA Crossing ==
  ASSUME WalkInv, Together, Inner, Frame.kind \notin Sealed,
         NEW i \in 1..(Len(frames) - 1), ~frames[i].cd, Unsealed(frames, i, Len(frames) - 1)
  PROVE  /\ ~Frame.cd /\ \A outside : Across(outside) = outside
         /\ Unsealed(frames, i, Len(frames))
         /\ Frame.dir = frames[i].dir /\ Frame.course = frames[i].course
  <1> DEFINE n == Len(frames)
  <1>1. n \in Nat /\ n \in 1..n /\ Frame = frames[n] /\ i \in 1..n /\ i < n
    BY EmptySeq, LenProperties DEF WalkInv, Stacks, Inner, Frame, Last
  <1>2. Unsealed(frames, i, n)
    <2>1. \A k \in (i + 1)..n : k \in (i + 1)..(n - 1) \/ k = n
      BY <1>1
    <2> QED
      BY <1>1, <2>1 DEF Unsealed
  <1>3. ~Frame.cd
    BY <1>1, <1>2 DEF Together, Outward
  <1>4. Frame.dir = frames[i].dir /\ Frame.course = frames[i].course
    BY <1>1 DEF Together, StillAbove
  <1> QED
    BY <1>2, <1>3, <1>4 DEF Across

\* A stage of a pipeline starts where the walker is, unless there was a cd in
\* the stages before it.
LEMMA StageHere ==
  ASSUME WalkInv, Together, Inner, Frame.kind = "pipe", Across(Frame.course) = "followed"
  PROVE  Frame.dir = Place(Walker.cwd)
  <1> DEFINE n == Len(frames)
  <1>1. n \in Nat /\ n \in 1..n /\ Frame = frames[n] /\ Walker = walkers[Len(walkers)]
    BY EmptySeq, LenProperties, Heights DEF WalkInv, Stacks, Inner, Frame, Last
  <1>2. Len(walkers) = Owner(frames, n)
    BY <1>1, OwnerFacts DEF WalkInv, Stacks, Copies
  <1>3. ~Frame.cd /\ Frame.course = "followed"
    BY DEF Across, Leaky
  <1> QED
    BY <1>1, <1>2, <1>3 DEF Together, Below

LEMMA TurnTogether ==
  ASSUME WalkInv, Together, Turn
  PROVE  Together'
  <1> DEFINE n == Len(frames)
  <1>1. /\ n \in Nat /\ n \in 1..n /\ Len(frames') = n /\ Frame = frames[n]
        /\ \A i \in 1..n : /\ frames'[i].kind = frames[i].kind
                           /\ frames'[i].dir = frames[i].dir
                           /\ frames'[i].course = frames[i].course
                           /\ frames'[i].cd = frames[i].cd
    BY TurnedFacts DEF WalkInv
  <1>2. walkers' = walkers /\ Walker = walkers[Len(walkers)] /\ Walker' = Walker
    BY Heights DEF Turn, Walker, WalkInv
  <1>3. \A i \in 1..n : Owner(frames', i) = Owner(frames, i)
    BY <1>1, OwnerSame
  <1>4. Below'
    BY <1>1, <1>2, <1>3 DEF Together, Below, Place
  <1>5. \A i \in 1..n, m \in 0..n : Unsealed(frames', i, m) = Unsealed(frames, i, m)
    <2>1. \A i \in 1..n, m \in 0..n : \A k \in (i + 1)..m : frames'[k].kind = frames[k].kind
      BY <1>1
    <2> QED
      BY <2>1 DEF Unsealed
  <1>6. StillAbove' /\ Outward'
    <2>1. StillAbove'
      <3> SUFFICES ASSUME NEW i \in 1..n, NEW m \in 1..n, i < m, ~frames'[i].cd, Unsealed(frames', i, m - 1)
                   PROVE  frames'[m].dir = frames'[i].dir /\ frames'[m].course = frames'[i].course
        BY <1>1 DEF StillAbove
      <3>1. m - 1 \in 0..n
        BY <1>1
      <3>2. Unsealed(frames, i, m - 1)
        BY <1>5, <3>1
      <3> QED
        BY <1>1, <3>2 DEF Together, StillAbove
    <2>2. Outward'
      <3> SUFFICES ASSUME NEW i \in 1..n, NEW m \in 1..n, i < m, frames'[m].cd, Unsealed(frames', i, m)
                   PROVE  frames'[i].cd
        BY <1>1 DEF Outward
      <3>1. m \in 0..n
        BY <1>1
      <3>2. Unsealed(frames, i, m)
        BY <1>5, <3>1
      <3> QED
        BY <1>1, <3>2 DEF Together, Outward
    <2> QED
      BY <2>1, <2>2
  <1>7. CASE Frame.kind = "pipe"
    <2>1. dir' = Frame.dir /\ course' = Across(Frame.course)
      BY <1>7 DEF Turn
    <2>2. Inner
      BY DEF Turn
    <2>3. Here'
      BY <1>2, <1>7, <2>1, <2>2, StageHere DEF Here, Place
    <2>4. StillHere'
      <3> SUFFICES ASSUME NEW i \in 1..n, ~frames[i].cd, Unsealed(frames, i, n)
                   PROVE  dir' = frames[i].dir /\ course' = frames[i].course
        <4>1. n \in 0..n
          BY <1>1
        <4> QED
          BY <1>1, <1>5, <4>1 DEF StillHere
      <3>1. CASE i = n
        BY <1>1, <2>1, <3>1 DEF Across
      <3>2. CASE i \in 1..(n - 1)
        <4>1. Unsealed(frames, i, n - 1)
          BY <1>1 DEF Unsealed
        <4>2. Inner /\ Frame.kind \notin Sealed
          BY <1>7 DEF Turn, Sealed
        <4> QED
          BY <2>1, <3>2, <4>1, <4>2, Crossing
      <3> QED
        BY <1>1, <3>1, <3>2
    <2> QED
      BY <1>4, <1>6, <2>3, <2>4 DEF Together
  <1>8. CASE Frame.kind # "pipe"
    <2>1. UNCHANGED <<dir, course>>
      BY <1>8 DEF Turn
    <2>2. Here'
      BY <1>2, <2>1 DEF Together, Here, Place
    <2>3. StillHere'
      <3>1. n \in 0..n
        BY <1>1
      <3> QED
        BY <1>1, <1>5, <2>1, <3>1 DEF Together, StillHere
    <2> QED
      BY <1>4, <1>6, <2>2, <2>3 DEF Together
  <1> QED
    BY <1>7, <1>8

LEMMA LeftTogether ==
  ASSUME WalkInv, Together, Inner, Left,
         Len(walkers') = IF Frame.kind \in Copies THEN Len(walkers) - 1 ELSE Len(walkers),
         \A i \in 1..Len(walkers') : walkers'[i].cwd = walkers[i].cwd
  PROVE  Together'
  <1> DEFINE n == Len(frames)
             f == frames[n]
  <1>1. /\ n \in Nat /\ n \in 1..n /\ Len(frames') = n - 1 /\ Frame = f
        /\ \A i \in 1..(n - 1) : frames'[i] = frames[i]
    BY LeftFacts DEF WalkInv
  <1>2. /\ Len(walkers) = IF f.kind \in Copies THEN Owner(frames, n) + 1 ELSE Owner(frames, n)
        /\ Owner(frames, n) \in Nat \ {0}
        /\ \A i \in 1..n : Owner(frames, i) <= Owner(frames, n) /\ Owner(frames, i) \in Nat \ {0}
    <2>1. Len(walkers) = IF f.kind \in Copies THEN Owner(frames, n) + 1 ELSE Owner(frames, n)
      BY <1>1, OwnerFacts DEF WalkInv, Stacks
    <2>2. \A i \in 1..n : i \in 1..(n + 1) /\ i <= n
      BY <1>1
    <2>3. \A i \in 1..n : Owner(frames, i) <= Owner(frames, n) /\ Owner(frames, i) \in Nat \ {0}
      BY <1>1, <2>2, OwnerFacts DEF WalkInv, Stacks
    <2> QED
      BY <1>1, <2>1, <2>3
  <1>3. Len(walkers') = Owner(frames, n)
    BY <1>1, <1>2
  <1>4. Walker'.cwd = walkers[Owner(frames, n)].cwd
    BY <1>2, <1>3 DEF Walker, Last
  <1>5. IF f.kind \in Forks THEN dir' = f.dir /\ course' = Across(f.course)
                            ELSE dir' = dir /\ course' = Across(course)
    BY <1>1 DEF Left
  <1>6. ~f.cd => /\ \A outside : Across(outside) = outside
                 /\ dir = f.dir /\ course = f.course
    <2>1. Unsealed(frames, n, n)
      BY <1>1 DEF Unsealed
    <2> QED
      BY <1>1, <2>1 DEF Together, StillHere, Across
  <1>7. (f.kind \in Copies \/ ~f.cd) /\ f.course = "followed"
        => f.dir = Place(walkers[Owner(frames, n)].cwd)
    BY <1>1 DEF Together, Below
  <1>8. f.kind \in Sealed => f.kind \in Forks \cap Copies /\ \A outside : Across(outside) = outside
    BY <1>1 DEF Sealed, Forks, Copies, Across, Leaky
  <1>9. f.kind \in Forks \cup Copies => f.kind \in Sealed \cup Leaky
    BY DEF Forks, Copies, Sealed, Leaky
  <1>10. f.kind \in Leaky /\ f.cd => \A outside : Across(outside) = "crossed"
    BY <1>1 DEF Across
  <1>11. Here'
    <2>1. CASE f.kind \in Sealed
      BY <1>4, <1>5, <1>7, <1>8, <2>1 DEF Here, Place
    <2>2. CASE f.kind \in Leaky /\ f.cd
      BY <1>5, <1>10, <2>2 DEF Here
    <2>3. CASE f.kind \in Leaky /\ ~f.cd
      <3>1. dir' = f.dir /\ course' = f.course
        BY <1>5, <1>6, <2>3
      <3> QED
        BY <1>4, <1>7, <2>3, <3>1 DEF Here, Place
    <2>4. CASE f.kind \notin Sealed \cup Leaky
      <3>1. Len(walkers) = Owner(frames, n) /\ f.kind \notin Forks
        BY <1>2, <1>9, <2>4
      <3>2. dir' = dir /\ course' = course
        BY <1>1, <1>5, <2>4, <3>1 DEF Across
      <3> QED
        BY <1>4, <3>1, <3>2 DEF Together, Here, Place, Walker, Last
    <2> QED
      BY <2>1, <2>2, <2>3, <2>4
  <1>12. Below'
    <2> SUFFICES ASSUME NEW i \in 1..(n - 1), frames'[i].kind \in Copies \/ ~frames'[i].cd,
                        frames'[i].course = "followed"
                 PROVE  frames'[i].dir = Place(walkers'[Owner(frames', i)].cwd)
      BY <1>1 DEF Below, Place
    <2>1. i \in 1..n /\ frames'[i] = frames[i]
      BY <1>1
    <2>2. Owner(frames', i) = Owner(frames, i)
      <3>1. i \in Nat /\ \A j \in 1..(i - 1) : j \in 1..(n - 1)
        BY <1>1
      <3> QED
        BY <1>1, <3>1, OwnerSame
    <2>3. Owner(frames, i) \in 1..Len(walkers')
      BY <1>2, <1>3, <2>1
    <2>4. walkers'[Owner(frames, i)].cwd = walkers[Owner(frames, i)].cwd
      BY <2>3
    <2>5. frames[i].dir = Place(walkers[Owner(frames, i)].cwd)
      BY <2>1 DEF Together, Below
    <2> QED
      BY <2>1, <2>2, <2>4, <2>5
  <1>13. \A i \in 1..(n - 1), m \in 0..(n - 1) : Unsealed(frames', i, m) = Unsealed(frames, i, m)
    <2>1. \A i \in 1..(n - 1), m \in 0..(n - 1) :
             \A k \in (i + 1)..m : frames'[k].kind = frames[k].kind
      BY <1>1
    <2> QED
      BY <2>1 DEF Unsealed
  <1>14. StillHere'
    <2> SUFFICES ASSUME NEW i \in 1..(n - 1), ~frames[i].cd, Unsealed(frames, i, n - 1)
                 PROVE  dir' = frames[i].dir /\ course' = frames[i].course
      <3>1. n - 1 \in 0..(n - 1)
        BY <1>1
      <3> QED
        BY <1>1, <1>13, <3>1 DEF StillHere
    <2>1. f.dir = frames[i].dir /\ f.course = frames[i].course
      <3>1. i \in 1..n /\ i < n
        BY <1>1
      <3>2. StillAbove
        BY DEF Together
      <3> QED
        BY <1>1, <3>1, <3>2 DEF StillAbove
    <2>2. CASE f.kind \in Sealed
      BY <1>5, <1>8, <2>1, <2>2
    <2>3. CASE f.kind \notin Sealed
      <3>1. ~f.cd
        BY <1>1, <2>3, Crossing
      <3> QED
        BY <1>5, <1>6, <2>1, <3>1
    <2> QED
      BY <2>2, <2>3
  <1>15. StillAbove'
    <2> SUFFICES ASSUME NEW i \in 1..(n - 1), NEW m \in 1..(n - 1), i < m, ~frames'[i].cd,
                        Unsealed(frames', i, m - 1)
                 PROVE  frames'[m].dir = frames'[i].dir /\ frames'[m].course = frames'[i].course
      BY <1>1 DEF StillAbove
    <2>1. i \in 1..n /\ m \in 1..n /\ m - 1 \in 0..(n - 1)
      BY <1>1
    <2>2. Unsealed(frames, i, m - 1)
      BY <1>13, <2>1
    <2> QED
      BY <1>1, <2>1, <2>2 DEF Together, StillAbove
  <1>16. Outward'
    <2> SUFFICES ASSUME NEW i \in 1..(n - 1), NEW m \in 1..(n - 1), i < m, frames'[m].cd,
                        Unsealed(frames', i, m)
                 PROVE  frames'[i].cd
      BY <1>1 DEF Outward
    <2>1. i \in 1..n /\ m \in 1..n /\ m \in 0..(n - 1)
      BY <1>1
    <2>2. Unsealed(frames, i, m)
      BY <1>13, <2>1
    <2> QED
      BY <1>1, <2>1, <2>2 DEF Together, Outward
  <1> QED
    BY <1>11, <1>12, <1>14, <1>15, <1>16 DEF Together

\* The steps of the walk and of the shell stay together.
LEMMA TogetherNext ==
  ASSUME WalkInv, Together, [Next]_vars
  PROVE  Together'
  <1>0. \A kind \in Kinds : \A flags \in FlagsOf(kind) : flags \in SUBSET Flags
    BY DEF FlagsOf, WrapperFlags, Flags
  <1>1. ASSUME \/ \E target \in Dirs \cup Words : Cd(target)
               \/ \E word \in Words \cup {Walker.cwd}, place \in Dirs \cup {HookCwd} :
                    CdElsewhere(word, place)
        PROVE  Together'
    BY <1>1, CdHere, CdTogether DEF WalkInv
  <1>2. ASSUME NEW flags \in WrapperFlags, Run(flags) PROVE Together'
    <2>1. /\ "command" \in Names /\ Ctx \cup flags \in SUBSET Flags /\ NewNode
          /\ walkers' = Recorded("command", Ctx \cup flags)
          /\ UNCHANGED <<frames, dir, course>>
      BY <1>2, WhatExecutes DEF Run
    <2>2. /\ Len(walkers') = Len(walkers)
          /\ \A i \in 1..Len(walkers) : walkers'[i].cwd = walkers[i].cwd
      BY <2>1, RecordedFacts DEF WalkInv
    <2> QED
      BY <2>1, <2>2, Unmoved
  <1>3. ASSUME NEW flags \in {{}, {"remote"}}, Unparsed(flags) PROVE Together'
    <2>1. /\ "__inline_parse_error__" \in Names /\ flags \in SUBSET Flags /\ NewNode
          /\ walkers' = Recorded("__inline_parse_error__", flags)
          /\ UNCHANGED <<frames, dir, course>>
      BY <1>3, WhatExecutes DEF Unparsed
    <2>2. /\ Len(walkers') = Len(walkers)
          /\ \A i \in 1..Len(walkers) : walkers'[i].cwd = walkers[i].cwd
      BY <2>1, RecordedFacts DEF WalkInv
    <2> QED
      BY <2>1, <2>2, Unmoved
  <1>4. ASSUME NEW kind \in Kinds, NEW flags \in SUBSET Flags, Open(kind, flags) PROVE Together'
    BY <1>4, OpenTogether
  <1>5. CASE Turn
    BY <1>5, TurnTogether
  <1>6. CASE Close
    <2>1. Inner /\ Left
      BY <1>6 DEF Close
    <2> QED
      BY <1>6, <2>1, ClosedWalkers, LeftTogether DEF WalkInv
  <1>7. CASE CloseIntoShell
    <2>1. Inner /\ Left /\ Frame.kind = "pipe" /\ NewNode
          /\ walkers' = Recorded("__shell_pipe_sink__", {})
      BY <1>7 DEF CloseIntoShell
    <2>2. /\ Len(walkers') = Len(walkers)
          /\ \A i \in 1..Len(walkers) : walkers'[i].cwd = walkers[i].cwd
      BY <2>1, WhatExecutes, RecordedFacts DEF WalkInv
    <2>3. Frame.kind \notin Copies
      BY <2>1 DEF Copies
    <2> QED
      BY <2>1, <2>2, <2>3, LeftTogether
  <1>8. CASE UNCHANGED <<walkers, frames, dir, course>>
    BY <1>8, Unmoved
  <1> QED
    BY <1>0, <1>1, <1>2, <1>3, <1>4, <1>5, <1>6, <1>7, <1>8
    DEF Next, Substitute, BareShell, Unvisited, RunsUnseen, End, Finished, vars

LEMMA ExecutesHere ==
  ASSUME WalkInv, InItsDirectory, NEW name \in Names, NEW flags \in SUBSET Flags, NEW extra,
         NEW place, NEW since,
         Executes(place, since, name, flags, extra),
         since = "followed" => place = Place(Walker.cwd)
  PROVE  InItsDirectory'
  <1>1. /\ nodes \in Nat
        /\ \A command : command \in Seen' <=> command \in Seen \/ command = New(name, flags)
        /\ \A run : run \in ran' => run \in ran \/ run = RunRecord(place, since, extra)
    BY ExecutesFacts
  <1>2. /\ New(name, flags).node = nodes + 1 /\ New(name, flags).cwd = Walker.cwd
        /\ RunRecord(place, since, extra).node = nodes + 1 /\ RunRecord(place, since, extra).dir = place
        /\ RunRecord(place, since, extra).course = since
    BY DEF New, RunRecord
  <1>3. nodes + 1 \notin 1..nodes
    BY <1>1
  <1> SUFFICES ASSUME NEW run \in ran', NEW command \in Seen', command.node = run.node,
                      run.course = "followed", run.flags \cap {"remote", "chrooted"} = {}
               PROVE  run.dir = Place(command.cwd)
    BY DEF InItsDirectory
  <1>4. CASE run \in ran /\ command \in Seen
    BY <1>4 DEF InItsDirectory
  <1>5. CASE run = RunRecord(place, since, extra) /\ command = New(name, flags)
    BY <1>2, <1>5
  <1>6. ~(run \in ran /\ command = New(name, flags))
    BY <1>2, <1>3 DEF WalkInv, Numbered
  <1>7. ~(run = RunRecord(place, since, extra) /\ command \in Seen)
    BY <1>2, <1>3 DEF WalkInv, Numbered
  <1> QED
    BY <1>1, <1>4, <1>5, <1>6, <1>7

LEMMA DirectoryNext ==
  ASSUME WalkInv, Together, InItsDirectory, [Next]_vars
  PROVE  InItsDirectory'
  <1>1. ASSUME ran' = ran, \A command : command \in Seen' <=> command \in Seen
        PROVE  InItsDirectory'
    BY <1>1 DEF InItsDirectory
  <1>2. ASSUME NEW flags \in WrapperFlags, Run(flags) PROVE InItsDirectory'
    BY <1>2, WhatExecutes, ExecutesHere DEF Together, Here
  <1>3. ASSUME NEW flags \in {{}, {"remote"}}, Unparsed(flags) PROVE InItsDirectory'
    BY <1>3, WhatExecutes, ExecutesHere DEF Together, Here
  <1>4. CASE CloseIntoShell
    <2>1. Inner /\ Frame.kind = "pipe"
      BY <1>4 DEF CloseIntoShell
    <2> QED
      BY <1>4, <2>1, WhatExecutes, ExecutesHere, StageHere
  <1>5. ASSUME NEW word \in Places, Moves(word), ran' = ran PROVE InItsDirectory'
    BY <1>1, <1>5, MovesFacts DEF WalkInv
  <1>6. ASSUME NEW kind \in Kinds, NEW flags, Open(kind, flags) PROVE InItsDirectory'
    BY <1>1, <1>6, OpenedSeen DEF WalkInv, Open
  <1>7. CASE Close
    BY <1>1, <1>7, ClosedWalkers DEF WalkInv, Close
  <1>8. CASE UNCHANGED <<walkers, ran>>
    <2>1. Seen' = Seen
      BY <1>8 DEF Seen
    <2> QED
      BY <1>1, <1>8, <2>1
  <1>9. CASE RunsUnseen
    <2> DEFINE new == UnseenRecord
    <2>1. /\ nodes \in Nat /\ Seen' = Seen
          /\ \A run : run \in ran' => run \in ran \/ run = new
      BY <1>9 DEF RunsUnseen, NewNode, Happens, HappensAt, UnseenRecord, WalkInv, Scalars, Seen
    <2>2. new.node = nodes + 1
      BY DEF UnseenRecord
    <2> HIDE DEF new
    <2>3. \A command \in Seen : command.node # new.node
      BY <2>1, <2>2 DEF WalkInv, Numbered
    <2> QED
      BY <2>1, <2>3 DEF InItsDirectory
  <1>10. \A target \in Dirs \cup Words :
            Cd(target) => target \in Places /\ Moves(target) /\ ran' = ran
    BY CdMoves DEF WalkInv, Cd
  <1>11. \A word \in Words \cup {Walker.cwd} : \A place :
            CdElsewhere(word, place) => word \in Places /\ Moves(word) /\ ran' = ran
    BY CdMoves DEF WalkInv, CdElsewhere
  <1> QED
    BY <1>2, <1>3, <1>4, <1>5, <1>6, <1>7, <1>8, <1>9, <1>10, <1>11
    DEF Next, Substitute, BareShell, Unvisited, Turn, End, Finished, vars

\* In every script, a command that runs on this host is recorded with the
\* directory in which it runs, as long as the shell has followed the last cd
\* that the walk has come to.  Courses names the cds that it does not follow,
\* and to which the code's reading gives no directory that is right.
THEOREM RunsInItsDirectory == Spec => []InItsDirectory
  <1> DEFINE Inv == WalkInv /\ ReadRunsRecorded /\ Together /\ InItsDirectory
  <1>1. Init => Inv
    <2> SUFFICES ASSUME Init PROVE Together /\ InItsDirectory
      BY WalkInit
    <2>1. walkers = <<[cwd |-> Empty, executed |-> {}]>> /\ Len(frames) = 0 /\ dir = <<HookCwd>> /\ ran = {}
      BY EmptySeq DEF Init
    <2>2. Here
      <3>1. Walker.cwd = Empty
        BY <2>1 DEF Walker, Last
      <3>2. Place(Empty) = <<HookCwd>>
        BY WalkAssumption DEF Place
      <3> QED
        BY <2>1, <3>1, <3>2 DEF Here
    <2> QED
      BY <2>1, <2>2 DEF Together, Below, StillHere, StillAbove, Outward, InItsDirectory
  <1>2. Inv /\ [Next]_vars => Inv'
    BY WalkNext, TogetherNext, DirectoryNext DEF Together
  <1>3. Inv => InItsDirectory
    OBVIOUS
  <1> QED
    BY <1>1, <1>2, <1>3, PTL DEF Spec

=============================================================================
