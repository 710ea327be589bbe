--------------------------- MODULE AuditLog_proofs ---------------------------
(***************************************************************************)
(* What holds of the audit log (AuditLog) for every number of hooks, every *)
(* limit of size, every number of old files and every number of hooks      *)
(* that Codex runs at a time.                                              *)
(*                                                                         *)
(* The argument has three parts.  Ordered: a name never has a file that is *)
(* newer than the file of a lower name, whoever renames what and when,     *)
(* because a rename moves a file up by one name.  Cascade: a hook that is  *)
(* alone finds in front of it what it left there itself, also when the one *)
(* before it was killed half way, unless a rename has failed.  Bounded: as *)
(* long as no rename has failed, the entries a full file can               *)
(* still get are those of the hooks that are past its size check, and they *)
(* are fewer than MaxActive because the hook that filled it is done.       *)
(***************************************************************************)
EXTENDS AuditLog, FiniteSetTheorems, TLAPS

\* A descriptor is open exactly while its writer is about to append.
Descriptors ==
  \A w \in Writers :
     IF at[w] = "append" THEN fd[w] \in 1..born ELSE fd[w] = NoFile

\* A lower name has a newer file.
Ordered ==
  \A m, n \in Names :
     m < n /\ slot[m] # NoFile /\ slot[n] # NoFile => slot[n] < slot[m]

\* Hooks that have not overlapped so far are one at a time.
Alone == ~crowded => \A v, w \in Active : v = w

\* What a hook that is alone finds when it renames: the current file has
\* reached the limit, and the name it moves the next file to is free,
\* unless it is the last one or a rename has failed.
Cascade ==
  ~crowded =>
    \A w \in Writers :
       at[w] = "rename" =>
         /\ slot[0] # NoFile => Size(slot[0]) >= Full
         /\ ~failed /\ index[w] < Keep - 1 => slot[index[w] + 1] = NoFile

\* The hooks that will append to the file however large it is.
Late(file) ==
  {w \in Writers : \/ at[w] = "append" /\ fd[w] = file
                   \/ at[w] = "open" /\ slot[0] = file}

\* A full file has room for those that are past its size check.
Bounded ==
  /\ IsFiniteSet(Active)
  /\ Cardinality(Active) <= MaxActive
  /\ ~failed => \A f \in 1..born :
        Size(f) >= Full => Size(f) + Cardinality(Late(f)) < Full + MaxActive

FilesFinite == \A f \in 1..born : IsFiniteSet(lines[f])

TypeInv == TypeOK /\ Descriptors /\ FilesFinite

RotationInv == TypeInv /\ Ordered /\ Alone /\ Cascade /\ RotatedAreFullAlone

AuditInv == RotationInv /\ Bounded

-----------------------------------------------------------------------------
(* Types and descriptors. *)

\* What a rename does to the names.
LEMMA ShiftFacts ==
  ASSUME NEW S, NEW i \in 0..(Keep - 1), slot \in [Names -> S], NoFile \in S
  PROVE  /\ Shift(i) \in [Names -> S]
         /\ i + 1 \in Names /\ i \in Names
         /\ slot[i] = NoFile => Shift(i) = slot
         /\ slot[i] # NoFile =>
              /\ Shift(i)[i + 1] = slot[i] /\ Shift(i)[i] = NoFile
              /\ \A n \in Names \ {i, i + 1} : Shift(i)[n] = slot[n]
  BY AuditAssumption DEF Shift, Names

\* A set with one more element, and a set that has lost one.
LEMMA OneMore ==
  ASSUME NEW S, IsFiniteSet(S), NEW x
  PROVE  /\ IsFiniteSet(S \cup {x})
         /\ Cardinality(S \cup {x}) \in Nat
         /\ Cardinality(S) <= Cardinality(S \cup {x})
         /\ Cardinality(S \cup {x}) <= Cardinality(S) + 1
  <1>1. Cardinality(S) \in Nat
    BY FS_CardinalityType
  <1>2. /\ IsFiniteSet(S \cup {x})
        /\ Cardinality(S \cup {x}) = IF x \in S THEN Cardinality(S) ELSE Cardinality(S) + 1
    BY FS_AddElement
  <1> QED
    BY <1>1, <1>2

LEMMA OneLess ==
  ASSUME NEW S, IsFiniteSet(S), NEW x \in S, NEW T \in SUBSET (S \ {x})
  PROVE  Cardinality(T) \in Nat /\ Cardinality(T) <= Cardinality(S) - 1
  <1>1. IsFiniteSet(S \ {x}) /\ Cardinality(S \ {x}) = Cardinality(S) - 1
    BY FS_RemoveElement
  <1>2. IsFiniteSet(T) /\ Cardinality(T) <= Cardinality(S \ {x})
    BY <1>1, FS_Subset
  <1> QED
    BY <1>1, <1>2, FS_CardinalityType

\* A file keeps its entries, and an append is at most one more.
LEMMA FilesGrow ==
  ASSUME TypeOK, Descriptors, FilesFinite, [Next]_vars
  PROVE  /\ FilesFinite'
         /\ born' >= born
         /\ \A f \in 1..born : f \in 1..born' /\ Size(f) \in Nat /\ Size(f)' >= Size(f)
  <1> USE DEF Size
  <1>0. \A f \in 1..born : Size(f) \in Nat
    BY FS_CardinalityType DEF FilesFinite
  <1>1. CASE UNCHANGED <<lines, born>>
    BY <1>0, <1>1 DEF FilesFinite, TypeOK
  <1>2. ASSUME NEW w \in Writers, Append(w)
        PROVE  /\ FilesFinite' /\ born' = born
               /\ \A f \in 1..born : Size(f)' >= Size(f)
    <2>1. born' = born /\ lines' = [lines EXCEPT ![fd[w]] = @ \cup {w}]
      BY <1>2 DEF Append
    <2>2. \A f \in 1..born : lines'[f] = lines[f] \/ lines'[f] = lines[f] \cup {w}
      BY <2>1 DEF TypeOK
    <2>3. \A f \in 1..born : /\ IsFiniteSet(lines[f] \cup {w})
                                /\ Cardinality(lines[f] \cup {w}) >= Cardinality(lines[f])
      BY OneMore DEF FilesFinite
    <2> QED
      BY <1>0, <2>1, <2>2, <2>3 DEF FilesFinite
  <1>3. ASSUME NEW w \in Writers, Open(w), born' = born + 1
        PROVE  /\ FilesFinite'
               /\ \A f \in 1..born : f \in 1..born' /\ Size(f)' = Size(f)
    <2>1. /\ lines' = [f \in 1..born' |-> IF f = born' THEN {} ELSE lines[f]]
          /\ born \in Nat
      BY <1>3 DEF Open, TypeOK
    <2>2. \A f \in 1..born : f \in 1..born' /\ f # born'
      BY <1>3, <2>1
    <2>3. \A f \in 1..born' : f = born' \/ f \in 1..born
      BY <1>3, <2>1
    <2>4. IsFiniteSet({})
      BY FS_EmptySet
    <2> QED
      BY <2>1, <2>2, <2>3, <2>4 DEF FilesFinite
  <1>4. ASSUME NEW w \in Writers, Open(w)
        PROVE  born' = born + 1 \/ UNCHANGED <<lines, born>>
    BY <1>4 DEF Open
  <1> QED
    <2>1. born \in Nat
      BY DEF TypeOK
    <2>2. CASE \E w \in Writers : Append(w)
      BY <1>0, <1>2, <2>1, <2>2
    <2>3. CASE \E w \in Writers : Open(w)
      BY <1>0, <1>1, <1>3, <1>4, <2>1, <2>3
    <2>4. CASE ~(\E w \in Writers : Append(w) \/ Open(w))
      <3>1. UNCHANGED <<lines, born>>
        BY <2>4 DEF Next, Begin, Stat, Rename, Kill, Finished, vars
      <3> QED
        BY <1>0, <1>1, <2>1, <3>1
    <2> QED
      BY <2>2, <2>3, <2>4

LEMMA InitTyped == Init => TypeInv
  <1> SUFFICES ASSUME Init PROVE TypeInv
    OBVIOUS
  <1>1. lines \in [1..born -> SUBSET Writers]
    BY DEF Init
  <1>2. born \in Nat /\ 0 \in 0..(Keep - 1)
    BY AuditAssumption DEF Init
  <1>3. TypeOK
    BY <1>1, <1>2 DEF Init, TypeOK
  <1>4. Descriptors
    BY DEF Init, Descriptors
  <1>5. FilesFinite
    BY DEF Init, FilesFinite
  <1> QED
    BY <1>3, <1>4, <1>5 DEF TypeInv

LEMMA NextTyped ==
  ASSUME TypeInv, [Next]_vars
  PROVE  TypeInv'
  <1> USE AuditAssumption
  <1>1. ASSUME NEW w \in Writers, Begin(w) PROVE TypeOK' /\ Descriptors'
    BY <1>1 DEF TypeInv, TypeOK, Descriptors, Begin, Move, Working
  <1>2. ASSUME NEW w \in Writers, Stat(w) PROVE TypeOK' /\ Descriptors'
    <2>1. Keep - 1 \in 0..(Keep - 1)
      OBVIOUS
    <2>2. /\ at' \in [Writers -> {"idle", "done", "killed"} \cup Working]
          /\ index' \in [Writers -> 0..(Keep - 1)]
      BY <1>2, <2>1 DEF TypeInv, TypeOK, Stat, Move, Working
    <2>3. Descriptors'
      BY <1>2 DEF TypeInv, TypeOK, Descriptors, Stat, Move
    <2> QED
      BY <1>2, <2>2, <2>3 DEF TypeInv, TypeOK, Stat
  <1>3. ASSUME NEW w \in Writers, Rename(w) PROVE TypeOK' /\ Descriptors'
    <2>1. slot' \in [Names -> 1..born \cup {NoFile}] /\ failed' \in BOOLEAN
      <3>1. (slot' = Shift(index[w]) /\ failed' = failed) \/ (slot' = slot /\ failed' = TRUE)
        BY <1>3 DEF Rename
      <3>2. /\ slot \in [Names -> 1..born \cup {NoFile}] /\ NoFile \in 1..born \cup {NoFile}
            /\ failed \in BOOLEAN /\ index[w] \in 0..(Keep - 1)
        BY <1>3 DEF TypeInv, TypeOK
      <3>3. Shift(index[w]) \in [Names -> 1..born \cup {NoFile}]
        BY <3>2, ShiftFacts
      <3> QED
        BY <3>1, <3>2, <3>3
    <2>2. /\ at' \in [Writers -> {"idle", "done", "killed"} \cup Working]
          /\ index' \in [Writers -> 0..(Keep - 1)]
      <3>1. CASE index[w] > 0 /\ Move(w, "rename", "rename") /\ index' = [index EXCEPT ![w] = @ - 1]
        BY <1>3, <3>1 DEF TypeInv, TypeOK, Move, Working
      <3>2. CASE Move(w, "rename", "open") /\ UNCHANGED index
        BY <1>3, <3>2 DEF TypeInv, TypeOK, Move, Working
      <3> QED
        BY <1>3, <3>1, <3>2 DEF Rename
    <2>3. Descriptors'
      BY <1>3 DEF TypeInv, TypeOK, Descriptors, Rename, Move
    <2> QED
      BY <1>3, <2>1, <2>2, <2>3 DEF TypeInv, TypeOK, Rename
  <1>4. ASSUME NEW w \in Writers, Open(w) PROVE TypeOK' /\ Descriptors'
    <2>1. CASE UNCHANGED <<slot, lines, born>>
      <3>1. CASE slot[0] # NoFile /\ Move(w, "open", "append") /\ fd' = [fd EXCEPT ![w] = slot[0]]
        <4>1. slot[0] \in 1..born /\ 1..born \subseteq 0..born
          BY <3>1 DEF TypeInv, TypeOK, Names
        <4>2. TypeOK'
          BY <1>4, <2>1, <3>1, <4>1 DEF TypeInv, TypeOK, Open, Move, Working
        <4>3. Descriptors'
          BY <2>1, <3>1, <4>1 DEF TypeInv, TypeOK, Descriptors, Move
        <4> QED
          BY <4>2, <4>3
      <3>2. CASE Move(w, "open", "done") /\ UNCHANGED <<fd, index, crowded, failed>>
        BY <2>1, <3>2 DEF TypeInv, TypeOK, Descriptors, Move, Working
      <3> QED
        BY <1>4, <2>1, <3>1, <3>2 DEF Open, TypeInv, TypeOK
    <2>2. CASE slot[0] = NoFile /\ born' = born + 1
      <3>1. born \in Nat /\ 1..born \subseteq 1..born' /\ born' \in 1..born'
        BY <2>2 DEF TypeInv, TypeOK
      <3>2. /\ at' = [at EXCEPT ![w] = "append"]
            /\ slot' = [slot EXCEPT ![0] = born']
            /\ lines' = [f \in 1..born' |-> IF f = born' THEN {} ELSE lines[f]]
            /\ fd' = [fd EXCEPT ![w] = born']
            /\ UNCHANGED <<index, crowded, failed>>
        BY <1>4, <2>2, <3>1 DEF Open, Move
      <3>3. lines' \in [1..born' -> SUBSET Writers]
        <4>1. \A f \in 1..born' : f # born' => f \in 1..born
          BY <2>2, <3>1
        <4> QED
          BY <3>2, <4>1 DEF TypeInv, TypeOK
      <3>4. slot' \in [Names -> 1..born' \cup {NoFile}]
        BY <3>1, <3>2 DEF TypeInv, TypeOK
      <3>5. fd' \in [Writers -> 0..born' \cup {NoFile}]
        <4>1. 0..born \subseteq 0..born' /\ born' \in 0..born'
          BY <2>2, <3>1
        <4> QED
          BY <3>2, <4>1 DEF TypeInv, TypeOK
      <3>6. at' \in [Writers -> {"idle", "done", "killed"} \cup Working]
        BY <3>2 DEF TypeInv, TypeOK, Working
      <3>7. Descriptors'
        BY <3>1, <3>2 DEF TypeInv, TypeOK, Descriptors
      <3> QED
        BY <2>2, <3>1, <3>2, <3>3, <3>4, <3>5, <3>6, <3>7 DEF TypeInv, TypeOK
    <2> QED
      BY <1>4, <2>1, <2>2 DEF Open
  <1>5. ASSUME NEW w \in Writers, Append(w) PROVE TypeOK' /\ Descriptors'
    BY <1>5 DEF TypeInv, TypeOK, Descriptors, Append, Move, Working
  <1>6. ASSUME NEW w \in Writers, Kill(w) PROVE TypeOK' /\ Descriptors'
    BY <1>6 DEF TypeInv, TypeOK, Descriptors, Kill, Working
  <1>7. ASSUME UNCHANGED vars PROVE TypeOK' /\ Descriptors'
    BY <1>7 DEF TypeInv, TypeOK, Descriptors, vars
  <1>8. TypeOK' /\ Descriptors'
    BY <1>1, <1>2, <1>3, <1>4, <1>5, <1>6, <1>7 DEF Next, Finished
  <1> QED
    BY <1>8, FilesGrow DEF TypeInv

LEMMA Typed == Spec => []TypeInv
  <1> QED
    BY InitTyped, NextTyped, PTL DEF Spec

\* Types, for every number of hooks, names and entries.
THEOREM AuditTypeCorrect == Spec => []TypeOK
  <1>1. TypeInv => TypeOK
    BY DEF TypeInv
  <1> QED
    BY <1>1, Typed, PTL

-----------------------------------------------------------------------------
(* Rotation. *)

\* A rename keeps newer files at lower names; so does a new current file.
LEMMA OrderedNext ==
  ASSUME TypeInv, Ordered, [Next]_vars
  PROVE  Ordered'
  <1> USE AuditAssumption
  <1>1. ASSUME NEW w \in Writers, Rename(w) PROVE Ordered'
    <2> DEFINE i == index[w]
    <2>1. i \in 0..(Keep - 1) /\ (slot' = Shift(i) \/ slot' = slot)
      BY <1>1 DEF TypeInv, TypeOK, Rename
    <2> HIDE DEF i
    <2> DEFINE S == 1..born \cup {NoFile}
    <2>2. slot \in [Names -> S] /\ NoFile \in S
      BY DEF TypeInv, TypeOK
    <2> HIDE DEF S
    <2>3. CASE slot[i] = NoFile \/ slot' = slot
      <3>1. slot' = slot
        BY <2>1, <2>2, <2>3, ShiftFacts
      <3> QED
        BY <3>1 DEF Ordered
    <2>4. CASE slot[i] # NoFile /\ slot' = Shift(i)
      <3>1. /\ i \in Names /\ i + 1 \in Names
            /\ slot'[i + 1] = slot[i] /\ slot'[i] = NoFile
            /\ \A n \in Names \ {i, i + 1} : slot'[n] = slot[n]
        BY <2>1, <2>2, <2>4, ShiftFacts
      <3> SUFFICES ASSUME NEW m \in Names, NEW n \in Names, m < n,
                          slot'[m] # NoFile, slot'[n] # NoFile
                   PROVE  slot'[n] < slot'[m]
        BY DEF Ordered
      <3>2. m # i /\ n # i
        BY <3>1
      <3>3. CASE m = i + 1
        <4>1. i < n /\ n \notin {i, i + 1}
          BY <2>1, <3>2, <3>3 DEF Names
        <4> QED
          BY <2>4, <3>1, <3>3, <4>1 DEF Ordered
      <3>4. CASE n = i + 1
        <4>1. m < i /\ m \notin {i, i + 1}
          BY <2>1, <3>2, <3>4 DEF Names
        <4> QED
          BY <2>4, <3>1, <3>4, <4>1 DEF Ordered
      <3>5. CASE m # i + 1 /\ n # i + 1
        BY <3>1, <3>2, <3>5 DEF Ordered
      <3> QED
        BY <3>3, <3>4, <3>5
    <2> QED
      BY <2>1, <2>3, <2>4
  <1>2. ASSUME NEW w \in Writers, Open(w), slot' # slot PROVE Ordered'
    <2>1. slot' = [slot EXCEPT ![0] = born + 1] /\ slot[0] = NoFile
      BY <1>2 DEF Open
    <2>2. \A n \in Names : n # 0 => slot'[n] = slot[n]
      BY <2>1 DEF TypeInv, TypeOK
    <2>3. slot'[0] = born + 1
      BY <2>1 DEF TypeInv, TypeOK, Names
    <2>4. \A n \in Names : slot[n] # NoFile => slot[n] \in Nat /\ slot[n] < born + 1
      BY DEF TypeInv, TypeOK
    <2>5. \A m, n \in Names : m < n => n # 0
      BY DEF Names
    <2> QED
      BY <2>2, <2>3, <2>4, <2>5 DEF Ordered
  <1>3. slot' = slot \/ \E w \in Writers : Rename(w) \/ (Open(w) /\ slot' # slot)
    BY DEF Next, Begin, Stat, Append, Kill, Finished, vars
  <1>4. CASE slot' = slot
    BY <1>4 DEF Ordered
  <1> QED
    BY <1>1, <1>2, <1>3, <1>4

\* The second hook to begin beside another is noted in crowded.
LEMMA AloneNext ==
  ASSUME TypeInv, Alone, [Next]_vars
  PROVE  Alone' /\ (crowded => crowded')
  <1>1. ASSUME NEW w \in Writers, Begin(w) PROVE Alone' /\ (crowded => crowded')
    <2>1. CASE Move(w, "idle", "stat") /\ crowded' = (crowded \/ Active # {})
      <3>1. Active' \subseteq Active \cup {w}
        BY <2>1 DEF TypeInv, TypeOK, Active, Move
      <3>2. ~crowded' => Active = {}
        BY <2>1
      <3> QED
        BY <2>1, <3>1, <3>2 DEF Alone
    <2>2. CASE Move(w, "idle", "done") /\ UNCHANGED crowded
      <3>1. Active' \subseteq Active
        BY <2>2 DEF TypeInv, TypeOK, Active, Move, Working
      <3> QED
        BY <2>2, <3>1 DEF Alone
    <2> QED
      BY <1>1, <2>1, <2>2 DEF Begin
  <1>2. ASSUME NEW w \in Writers, Stat(w) \/ Rename(w) \/ Open(w) \/ Append(w) \/ Kill(w)
        PROVE  Active' \subseteq Active /\ crowded' = crowded
    <2>1. at' = [at EXCEPT ![w] = at'[w]] /\ at[w] \in Working /\ crowded' = crowded
      BY <1>2 DEF TypeInv, TypeOK, Stat, Rename, Open, Append, Kill, Move, Working
    <2> QED
      BY <2>1 DEF TypeInv, TypeOK, Active
  <1>3. CASE UNCHANGED vars
    BY <1>3 DEF Alone, Active, vars
  <1>4. CASE \E w \in Writers : Stat(w) \/ Rename(w) \/ Open(w) \/ Append(w) \/ Kill(w)
    BY <1>2, <1>4 DEF Alone
  <1> QED
    BY <1>1, <1>3, <1>4 DEF Next, Finished

LEMMA RenameFacts ==
  ASSUME TypeInv, NEW w \in Writers, Rename(w)
  PROVE  /\ index[w] \in 0..(Keep - 1)
         /\ index[w] \in Names /\ index[w] + 1 \in Names
         /\ slot' # slot => slot[index[w]] # NoFile /\ slot'[index[w] + 1] = slot[index[w]]
         /\ slot'[index[w]] = NoFile \/ slot' = slot
         /\ ~failed' => slot'[index[w]] = NoFile /\ ~failed
         /\ \A n \in Names \ {index[w], index[w] + 1} : slot'[n] = slot[n]
         /\ lines' = lines /\ born' = born
  <1> DEFINE i == index[w]
             S == 1..born \cup {NoFile}
  <1>1. /\ i \in 0..(Keep - 1)
        /\ (slot' = Shift(i) /\ failed' = failed) \/ (slot' = slot /\ failed' = TRUE)
        /\ failed \in BOOLEAN
        /\ slot \in [Names -> S] /\ NoFile \in S
        /\ lines' = lines /\ born' = born
    BY DEF TypeInv, TypeOK, Rename
  <1> HIDE DEF i, S
  <1>2. /\ i \in Names /\ i + 1 \in Names
        /\ slot' # slot => slot[i] # NoFile /\ slot'[i + 1] = slot[i]
        /\ slot'[i] = NoFile \/ slot' = slot
        /\ ~failed' => slot'[i] = NoFile /\ ~failed
        /\ \A n \in Names \ {i, i + 1} : slot'[n] = slot[n]
    <2>1. CASE slot' = Shift(i) /\ failed' = failed
      BY <1>1, <2>1, ShiftFacts
    <2>2. CASE slot' = slot /\ failed' = TRUE
      BY <1>1, <2>2, ShiftFacts
    <2> QED
      BY <1>1, <2>1, <2>2
  <1> QED
    BY <1>1, <1>2 DEF i

\* A failure of a rename is remembered.
LEMMA FailedStays ==
  ASSUME TypeInv, [Next]_vars, ~failed'
  PROVE  ~failed
  <1>1. CASE \E w \in Writers : Rename(w)
    BY <1>1, RenameFacts
  <1>2. CASE \A w \in Writers : ~Rename(w)
    BY <1>2 DEF Next, Begin, Stat, Open, Append, Kill, Finished, vars
  <1> QED
    BY <1>1, <1>2

\* What a hook that is alone has moved stays moved until it is done.
LEMMA CascadeNext ==
  ASSUME TypeInv, Alone, Cascade, [Next]_vars
  PROVE  Cascade'
  <1> USE AuditAssumption
  <1> SUFFICES ASSUME ~crowded', NEW v \in Writers, at'[v] = "rename"
               PROVE  /\ slot'[0] # NoFile => Size(slot[0])' >= Full
                      /\ ~failed' /\ index'[v] < Keep - 1 => slot'[index'[v] + 1] = NoFile
    BY DEF Cascade
  <1>0. ~crowded /\ (~failed' => ~failed)
    BY AloneNext, FailedStays
  <1>1. CASE at[v] = "rename" /\ UNCHANGED <<index, slot, lines>>
    BY <1>0, <1>1 DEF Cascade, Size
  <1>2. ASSUME NEW w \in Writers, Stat(w)
        PROVE  \/ at[v] = "rename" /\ index'[v] = index[v]
               \/ NeedsRotation /\ index'[v] = Keep - 1
    <2>1. CASE ~NeedsRotation /\ Move(w, "stat", "open") /\ UNCHANGED index
      BY <2>1 DEF TypeInv, TypeOK, Move
    <2>2. CASE NeedsRotation /\ Move(w, "stat", "rename")
               /\ index' = [index EXCEPT ![w] = Keep - 1]
      BY <2>2 DEF TypeInv, TypeOK, Move
    <2> QED
      BY <1>2, <2>1, <2>2 DEF Stat
  <1>3. CASE \E w \in Writers : Stat(w)
    <2>1. UNCHANGED <<slot, lines>>
      BY <1>3 DEF Stat
    <2>2. CASE at[v] = "rename" /\ index'[v] = index[v]
      BY <1>0, <2>1, <2>2 DEF Cascade, Size
    <2>3. CASE NeedsRotation /\ index'[v] = Keep - 1
      BY <2>1, <2>3 DEF NeedsRotation, Size
    <2> QED
      BY <1>2, <1>3, <2>2, <2>3
  <1>4. ASSUME NEW w \in Writers, Rename(w) \/ Open(w) \/ Append(w), v # w PROVE FALSE
    <2>1. at[w] \in Working /\ at' = [at EXCEPT ![w] = at'[w]]
      BY <1>4 DEF TypeInv, TypeOK, Rename, Open, Append, Move, Working
    <2>2. v \in Active /\ w \in Active
      BY <1>4, <2>1 DEF TypeInv, TypeOK, Active, Working
    <2> QED
      BY <1>0, <1>4, <2>2 DEF Alone
  <1>5. CASE Rename(v)
    <2>1. index[v] > 0 /\ index' = [index EXCEPT ![v] = @ - 1] /\ at[v] = "rename"
      BY <1>5 DEF TypeInv, TypeOK, Rename, Move
    <2>2. /\ index[v] \in 0..(Keep - 1) /\ lines' = lines
          /\ slot'[0] = slot[0] /\ (~failed' => slot'[index[v]] = NoFile)
      <3>1. 0 \in Names
        BY DEF Names
      <3> QED
        BY <1>5, <2>1, <3>1, RenameFacts
    <2>3. index'[v] + 1 = index[v]
      BY <2>1, <2>2 DEF TypeInv, TypeOK
    <2> QED
      BY <1>0, <2>1, <2>2, <2>3 DEF Cascade, Size
  <1>6. ~Open(v) /\ ~Append(v)
    BY DEF TypeInv, TypeOK, Open, Append, Move
  <1>7. ASSUME NEW w \in Writers, Begin(w) \/ Kill(w)
        PROVE  at[v] = "rename" /\ UNCHANGED <<index, slot, lines>>
    BY <1>7 DEF TypeInv, TypeOK, Begin, Kill, Move
  <1>8. CASE UNCHANGED vars
    BY <1>1, <1>8 DEF vars
  <1> QED
    BY <1>1, <1>3, <1>4, <1>5, <1>6, <1>7, <1>8 DEF Next, Finished

\* A file that was moved aside has reached the limit.
LEMMA FullNext ==
  ASSUME TypeInv, Alone, Cascade, RotatedAreFullAlone, [Next]_vars
  PROVE  RotatedAreFullAlone'
  <1> USE AuditAssumption
  <1> SUFFICES ASSUME ~crowded', NEW n \in Names \ {0}, slot'[n] # NoFile
               PROVE  Size(slot[n])' >= Full
    BY DEF RotatedAreFullAlone, RotatedAreFull
  <1>0. ~crowded
    BY AloneNext
  <1>1. \A m \in Names : slot[m] # NoFile => slot[m] \in 1..born
    BY DEF TypeInv, TypeOK
  <1>2. \A f \in 1..born : Size(f) \in Nat /\ Cardinality(lines'[f]) >= Size(f)
                           /\ Cardinality(lines'[f]) \in Nat
    <2>1. TypeInv'
      BY NextTyped
    <2>2. \A f \in 1..born : f \in 1..born' /\ Size(f) \in Nat /\ Size(f)' >= Size(f)
      BY FilesGrow DEF TypeInv
    <2> QED
      BY <2>1, <2>2, FS_CardinalityType DEF TypeInv, FilesFinite, Size
  <1>3. CASE slot'[n] = slot[n]
    BY <1>0, <1>1, <1>2, <1>3 DEF RotatedAreFullAlone, RotatedAreFull, Size
  <1>4. ASSUME NEW w \in Writers, Rename(w), slot'[n] # slot[n]
        PROVE  Size(slot[n])' >= Full
    <2>1. n = index[w] + 1 /\ slot'[n] = slot[index[w]] /\ slot[index[w]] # NoFile
      BY <1>4, RenameFacts
    <2>2. lines' = lines /\ at[w] = "rename" /\ index[w] \in Names
      BY <1>4, RenameFacts DEF Rename, Move
    <2>3. Size(slot[index[w]]) >= Full
      BY <1>0, <2>1, <2>2 DEF Cascade, RotatedAreFullAlone, RotatedAreFull
    <2> QED
      BY <2>1, <2>2, <2>3 DEF Size
  <1>5. ASSUME NEW w \in Writers, Open(w) PROVE slot'[n] = slot[n]
    BY <1>5 DEF TypeInv, TypeOK, Open
  <1>6. (\A w \in Writers : ~Rename(w) /\ ~Open(w)) => slot' = slot
    BY DEF Next, Begin, Stat, Append, Kill, Finished, vars
  <1> QED
    BY <1>3, <1>4, <1>5, <1>6

LEMMA InitRotation == Init => RotationInv
  <1> SUFFICES ASSUME Init PROVE RotationInv
    OBVIOUS
  <1>1. TypeInv
    BY InitTyped
  <1>2. \A n \in Names : slot[n] = NoFile
    BY DEF Init
  <1>3. \A w \in Writers : at[w] = "idle"
    BY DEF Init
  <1> QED
    BY <1>1, <1>2, <1>3 DEF RotationInv, Ordered, Alone, Cascade, Active, Working,
                            RotatedAreFullAlone, RotatedAreFull

LEMMA RotationKept == Spec => []RotationInv
  <1>1. RotationInv /\ [Next]_vars => RotationInv'
    BY NextTyped, OrderedNext, AloneNext, CascadeNext, FullNext DEF RotationInv
  <1> QED
    BY <1>1, InitRotation, PTL DEF Spec

\* As long as hooks do not overlap, killed or not, and whatever renames fail,
\* only files that have reached the limit are moved aside (RotatedAreFullAlone:
\* rotateIfNeeded, audit.go:67-80).
THEOREM OnlyFullFilesAreMoved == Spec => []RotatedAreFullAlone
  <1>1. RotationInv => RotatedAreFullAlone
    BY DEF RotationInv
  <1> QED
    BY <1>1, RotationKept, PTL

\* As long as hooks do not overlap and no rename has failed, what a rename
\* overwrites is the oldest file that is kept (DropsOldest: audit.go:75).
THEOREM OldestIsDropped == Spec => DropsOldest
  <1> USE AuditAssumption
  <1>1. ASSUME RotationInv, [Next]_vars
        PROVE  [~crowded /\ ~failed => \A f \in Kept \ Kept' : \A g \in Kept : f <= g]_vars
    <2> SUFFICES ASSUME ~crowded, ~failed, NEW f \in Kept \ Kept', NEW g \in Kept
                 PROVE  f <= g
      OBVIOUS
    <2>1. PICK m \in Names : f = slot[m] /\ f # NoFile
      BY DEF Kept
    <2>2. PICK n \in Names : g = slot[n] /\ g # NoFile
      BY DEF Kept
    <2>3. f \in Nat /\ g \in Nat
      BY <1>1, <2>1, <2>2 DEF RotationInv, TypeInv, TypeOK
    <2>4. \A k \in Names : slot'[k] # f
      BY <2>1 DEF Kept
    <2>5. PICK w \in Writers : Rename(w)
      <3>1. slot' # slot
        BY <2>1, <2>4
      <3>2. \A w \in Writers : ~Open(w)
        <4>1. ASSUME NEW w \in Writers, Open(w) PROVE slot'[m] = slot[m]
          BY <1>1, <2>1, <4>1 DEF RotationInv, TypeInv, TypeOK, Open
        <4> QED
          BY <2>1, <2>4, <4>1
      <3> QED
        BY <1>1, <3>1, <3>2 DEF Next, Begin, Stat, Append, Kill, Finished, vars
    <2>6. m = index[w] + 1 /\ slot[index[w]] # NoFile
      BY <1>1, <2>1, <2>4, <2>5, RenameFacts DEF RotationInv
    <2>7. index[w] \in 0..(Keep - 1) /\ at[w] = "rename"
      BY <1>1, <2>5, RenameFacts DEF RotationInv, Rename, Move
    <2>8. index[w] = Keep - 1
      BY <1>1, <2>1, <2>6, <2>7 DEF RotationInv, Cascade
    <2>9. n <= m
      BY <2>6, <2>7, <2>8 DEF Names
    <2> QED
      <3>1. CASE n = m
        BY <2>1, <2>2, <2>3, <3>1
      <3>2. CASE n < m
        BY <1>1, <2>1, <2>2, <2>3, <3>2 DEF RotationInv, Ordered
      <3> QED
        BY <2>9, <3>1, <3>2 DEF Names
  <1> QED
    BY <1>1, RotationKept, PTL DEF Spec, DropsOldest

-----------------------------------------------------------------------------
(* Size. *)

LEMMA InitBounded == Init => Bounded
  <1> SUFFICES ASSUME Init PROVE Bounded
    OBVIOUS
  <1>1. Active = {} /\ 1..born = {}
    BY DEF Init, Active, Working
  <1> QED
    BY <1>1, FS_EmptySet, AuditAssumption DEF Bounded

\* Hooks begin only below MaxActive.
LEMMA FewActive ==
  ASSUME TypeInv, Bounded, [Next]_vars
  PROVE  IsFiniteSet(Active') /\ Cardinality(Active') <= MaxActive
  <1> USE AuditAssumption
  <1>0. IsFiniteSet(Active) /\ Cardinality(Active) \in Nat /\ Cardinality(Active) <= MaxActive
    BY FS_CardinalityType DEF Bounded
  <1>1. CASE Active' \subseteq Active
    <2>1. IsFiniteSet(Active') /\ Cardinality(Active') <= Cardinality(Active)
      BY <1>0, <1>1, FS_Subset
    <2> QED
      BY <1>0, <2>1, FS_CardinalityType
  <1>2. CASE \E w \in Writers : Cardinality(Active) < MaxActive /\ Active' \subseteq Active \cup {w}
    <2>1. PICK w \in Writers : Cardinality(Active) < MaxActive /\ Active' \subseteq Active \cup {w}
      BY <1>2
    <2>2. /\ IsFiniteSet(Active \cup {w}) /\ Cardinality(Active \cup {w}) \in Nat
          /\ Cardinality(Active \cup {w}) <= Cardinality(Active) + 1
      BY <1>0, OneMore
    <2>3. IsFiniteSet(Active') /\ Cardinality(Active') <= Cardinality(Active \cup {w})
      BY <2>1, <2>2, FS_Subset
    <2> QED
      BY <1>0, <2>1, <2>2, <2>3, FS_CardinalityType
  <1>3. ASSUME NEW w \in Writers, Begin(w)
        PROVE  Cardinality(Active) < MaxActive /\ Active' \subseteq Active \cup {w}
    BY <1>3 DEF TypeInv, TypeOK, Begin, Move, Active
  <1>4. ASSUME NEW w \in Writers, Stat(w) \/ Rename(w) \/ Open(w) \/ Append(w) \/ Kill(w)
        PROVE  Active' \subseteq Active
    <2>1. at' = [at EXCEPT ![w] = at'[w]] /\ at[w] \in Working
      BY <1>4 DEF TypeInv, TypeOK, Stat, Rename, Open, Append, Kill, Move, Working
    <2> QED
      BY <2>1 DEF TypeInv, TypeOK, Active
  <1>5. UNCHANGED vars => Active' \subseteq Active
    BY DEF Active, vars
  <1> QED
    BY <1>1, <1>2, <1>3, <1>4, <1>5 DEF Next, Finished

\* Who is late for a full file stays so, and nobody joins: a hook reaches
\* the open of a full current file only from before it was full.
LEMMA NobodyJoins ==
  ASSUME TypeInv, [Next]_vars, ~failed', NEW f \in 1..born, Size(f) >= Full
  PROVE  Late(f)' \subseteq Late(f)
  <1> USE AuditAssumption
  <1> SUFFICES ASSUME NEW v \in Writers, v \in Late(f)' PROVE v \in Late(f)
    BY DEF Late
  <1>0. f # NoFile /\ f \in Nat
    BY DEF TypeInv, TypeOK
  <1>1. ASSUME NEW w \in Writers, Begin(w) PROVE v \in Late(f)
    BY <1>1 DEF TypeInv, TypeOK, Begin, Move, Late
  <1>2. ASSUME NEW w \in Writers, Stat(w) PROVE v \in Late(f)
    <2>1. UNCHANGED <<fd, slot>>
      BY <1>2 DEF Stat
    <2>2. CASE v # w
      BY <1>2, <2>1, <2>2 DEF TypeInv, TypeOK, Stat, Move, Late
    <2>3. CASE v = w
      <3>1. at'[v] = "open" /\ slot[0] = f /\ ~NeedsRotation
        BY <1>2, <2>1, <2>3 DEF TypeInv, TypeOK, Stat, Move, Late
      <3> QED
        BY <1>0, <3>1 DEF NeedsRotation
    <2> QED
      BY <2>2, <2>3
  <1>3. ASSUME NEW w \in Writers, Rename(w) PROVE v \in Late(f)
    <2>1. slot'[0] = slot[0] \/ slot'[0] = NoFile
      <3>1. 0 \in Names /\ (index[w] # 0 => 0 \notin {index[w], index[w] + 1})
        BY <1>3, RenameFacts DEF Names
      <3> QED
        BY <1>3, <3>1, RenameFacts
    <2>2. fd' = fd /\ index[w] \in Nat
      BY <1>3 DEF TypeInv, TypeOK, Rename
    <2>3. CASE v # w
      BY <1>0, <1>3, <2>1, <2>2, <2>3 DEF TypeInv, TypeOK, Rename, Move, Late
    <2>4. CASE v = w
      <3>1. at'[v] = "open" /\ slot'[0] = f
        BY <1>3, <2>2, <2>4 DEF TypeInv, TypeOK, Rename, Move, Late
      <3>2. index[w] = 0
        BY <1>3, <2>2, <2>4, <3>1 DEF TypeInv, TypeOK, Rename, Move
      <3> QED
        BY <1>0, <1>3, <3>1, <3>2, RenameFacts
    <2> QED
      BY <2>3, <2>4
  <1>4. ASSUME NEW w \in Writers, Open(w) PROVE v \in Late(f)
    <2>1. CASE slot[0] # NoFile /\ Move(w, "open", "append") /\ slot' = slot
               /\ fd' = [fd EXCEPT ![w] = slot[0]]
      BY <2>1 DEF TypeInv, TypeOK, Move, Late
    <2>2. CASE slot[0] = NoFile /\ Move(w, "open", "append") /\ fd' = [fd EXCEPT ![w] = born']
               /\ born' = born + 1 /\ slot' = [slot EXCEPT ![0] = born']
      <3>1. born' # f /\ slot'[0] = born' /\ fd'[w] = born'
        BY <2>2 DEF TypeInv, TypeOK, Names
      <3> QED
        BY <2>2, <3>1 DEF TypeInv, TypeOK, Move, Late
    <2>3. CASE Move(w, "open", "done") /\ UNCHANGED <<fd, slot>>
      BY <2>3 DEF TypeInv, TypeOK, Move, Late
    <2> QED
      BY <1>4, <2>1, <2>2, <2>3 DEF Open
  <1>5. ASSUME NEW w \in Writers, Append(w) PROVE v \in Late(f)
    BY <1>0, <1>5 DEF TypeInv, TypeOK, Append, Move, Late
  <1>6. ASSUME NEW w \in Writers, Kill(w) PROVE v \in Late(f)
    BY <1>0, <1>6 DEF TypeInv, TypeOK, Kill, Late
  <1>7. UNCHANGED vars => v \in Late(f)
    BY DEF Late, vars
  <1> QED
    BY <1>1, <1>2, <1>3, <1>4, <1>5, <1>6, <1>7 DEF Next, Finished

\* An append adds one entry at most, and takes its hook off the late ones.
LEMMA AppendFacts ==
  ASSUME TypeInv, Bounded, NEW w \in Writers, Append(w)
  PROVE  /\ born' = born /\ fd[w] \in 1..born
         /\ w \in Active /\ w \in Late(fd[w])
         /\ \A f \in 1..born : w \notin Late(f)' /\ Late(f)' \subseteq Late(f)
         /\ \A f \in 1..born : /\ f # fd[w] => Size(f)' = Size(f)
                               /\ Size(f)' <= Size(f) + 1
  <1>1. /\ at[w] = "append" /\ fd[w] \in 1..born
        /\ born' = born /\ slot' = slot
        /\ at' = [at EXCEPT ![w] = "done"]
        /\ fd' = [fd EXCEPT ![w] = NoFile]
        /\ lines' = [lines EXCEPT ![fd[w]] = @ \cup {w}]
    BY DEF TypeInv, Descriptors, Append, Move
  <1>2. w \in Active /\ w \in Late(fd[w])
    BY <1>1 DEF Active, Working, Late
  <1>3. \A f \in 1..born : w \notin Late(f)' /\ Late(f)' \subseteq Late(f)
    BY <1>1 DEF TypeInv, TypeOK, Late
  <1>4. \A f \in 1..born : f # fd[w] => Size(f)' = Size(f)
    BY <1>1 DEF TypeInv, TypeOK, Size
  <1>5. \A f \in 1..born : Size(f)' <= Size(f) + 1
    <2> SUFFICES ASSUME NEW f \in 1..born PROVE Cardinality(lines'[f]) <= Cardinality(lines[f]) + 1
      BY DEF Size
    <2>1. lines'[f] = lines[f] \/ lines'[f] = lines[f] \cup {w}
      BY <1>1 DEF TypeInv, TypeOK
    <2>2. IsFiniteSet(lines[f])
      BY DEF TypeInv, FilesFinite
    <2>3. Cardinality(lines[f]) \in Nat
      BY <2>2, FS_CardinalityType
    <2>4. /\ Cardinality(lines[f] \cup {w}) \in Nat
          /\ Cardinality(lines[f] \cup {w}) <= Cardinality(lines[f]) + 1
      BY <2>2, OneMore
    <2>5. CASE lines'[f] = lines[f]
      BY <2>3, <2>5
    <2>6. CASE lines'[f] = lines[f] \cup {w}
      BY <2>4, <2>6
    <2> QED
      BY <2>1, <2>5, <2>6
  <1> QED
    BY <1>1, <1>2, <1>3, <1>4, <1>5

LEMMA BoundedNext ==
  ASSUME TypeInv, Bounded, [Next]_vars
  PROVE  Bounded'
  <1> USE AuditAssumption
  <1> SUFFICES ASSUME ~failed', NEW f \in 1..born', Size(f)' >= Full
               PROVE  Size(f)' + Cardinality(Late(f)') < Full + MaxActive
    BY FewActive DEF Bounded
  <1>1. TypeInv' /\ born \in Nat /\ born' >= born /\ ~failed
    BY NextTyped, FilesGrow, FailedStays DEF TypeInv, TypeOK
  <1>2. Size(f)' \in Nat
    BY <1>1, FS_CardinalityType DEF TypeInv, FilesFinite, Size
  <1>3. f \in 1..born
    <2>1. ASSUME f \notin 1..born PROVE Size(f)' = 0
      <3>1. PICK w \in Writers : Open(w) /\ born' = born + 1
        BY <1>1, <2>1 DEF Next, Begin, Stat, Rename, Open, Append, Kill, Finished, vars
      <3>2. f = born' /\ lines' = [g \in 1..born' |-> IF g = born' THEN {} ELSE lines[g]]
        BY <1>1, <2>1, <3>1 DEF Open
      <3> QED
        BY <3>2, FS_EmptySet DEF Size
    <2> QED
      BY <2>1
  <1>4. /\ Size(f) \in Nat
        /\ Late(f) \subseteq Active
        /\ IsFiniteSet(Active) /\ IsFiniteSet(Late(f))
        /\ Cardinality(Late(f)) \in Nat
        /\ Cardinality(Active) \in Nat /\ Cardinality(Active) <= MaxActive
    <2>1. Late(f) \subseteq Active
      BY DEF Late, Active, Working
    <2>2. IsFiniteSet(Active) /\ IsFiniteSet(Late(f))
      BY <2>1, FS_Subset DEF Bounded
    <2> QED
      BY <1>3, <2>1, <2>2, FS_CardinalityType DEF Bounded, TypeInv, FilesFinite, Size
  <1>5. ASSUME NEW w \in Writers, Append(w), fd[w] = f
        PROVE  Size(f)' + Cardinality(Late(f)') < Full + MaxActive
    <2>1. CASE Size(f) >= Full
      <3>1. w \in Late(f) /\ Late(f)' \in SUBSET (Late(f) \ {w})
        BY <1>3, <1>5, AppendFacts
      <3>2. Cardinality(Late(f)') \in Nat /\ Cardinality(Late(f)') <= Cardinality(Late(f)) - 1
        BY <1>4, <3>1, OneLess
      <3>3. Size(f)' <= Size(f) + 1
        BY <1>5, AppendFacts
      <3>4. Size(f) + Cardinality(Late(f)) < Full + MaxActive
        BY <1>1, <1>3, <2>1 DEF Bounded
      <3> QED
        BY <1>2, <1>4, <3>2, <3>3, <3>4
    <2>2. CASE Size(f) < Full
      <3>1. w \in Active /\ Late(f)' \in SUBSET (Active \ {w})
        BY <1>3, <1>4, <1>5, AppendFacts
      <3>2. Cardinality(Late(f)') \in Nat /\ Cardinality(Late(f)') <= Cardinality(Active) - 1
        BY <1>4, <3>1, OneLess
      <3>3. Size(f)' <= Size(f) + 1
        BY <1>5, AppendFacts
      <3> QED
        BY <1>2, <1>4, <2>2, <3>2, <3>3
    <2> QED
      BY <1>4, <2>1, <2>2
  <1>6. ASSUME \A w \in Writers : Append(w) => fd[w] # f
        PROVE  Size(f)' = Size(f)
    <2>1. CASE \E w \in Writers : Append(w)
      BY <1>3, <1>6, <2>1, AppendFacts
    <2>2. ASSUME NEW w \in Writers, Open(w) PROVE lines'[f] = lines[f]
      BY <1>1, <1>3, <2>2 DEF TypeInv, TypeOK, Open
    <2>3. CASE \A w \in Writers : ~Append(w) /\ ~Open(w)
      BY <2>3 DEF Next, Begin, Stat, Rename, Kill, Finished, vars, Size
    <2> QED
      BY <2>1, <2>2, <2>3 DEF Size
  <1>7. CASE Size(f)' = Size(f)
    <2>1. Late(f)' \subseteq Late(f)
      BY <1>3, <1>7, NobodyJoins
    <2>2. Cardinality(Late(f)') \in Nat /\ Cardinality(Late(f)') <= Cardinality(Late(f))
      BY <1>4, <2>1, FS_Subset, FS_CardinalityType
    <2>3. Size(f) + Cardinality(Late(f)) < Full + MaxActive
      BY <1>1, <1>3, <1>7 DEF Bounded
    <2> QED
      BY <1>4, <1>7, <2>2, <2>3
  <1> QED
    BY <1>5, <1>6, <1>7

\* However many hooks overlap, as long as no rename has failed no file of the
\* log outgrows its limit by as much as the number of hooks that run at a time
\* (SizeBounded: audit.go:71).
THEOREM FilesStaySmall == Spec => []SizeBounded
  <1>1. TypeInv /\ Bounded => SizeBounded
    <2> SUFFICES ASSUME TypeInv, Bounded, ~failed, NEW f \in 1..born
                 PROVE  Size(f) < Full + MaxActive
      BY DEF SizeBounded
    <2>1. Late(f) \subseteq Active
      BY DEF Late, Active, Working
    <2>2. Size(f) \in Nat /\ Cardinality(Late(f)) \in Nat
      BY <2>1, FS_Subset, FS_CardinalityType DEF Bounded, TypeInv, FilesFinite, Size
    <2> QED
      BY <2>2, AuditAssumption DEF Bounded
  <1>2. Spec => []Bounded
    <2>1. TypeInv /\ Bounded /\ [Next]_vars => Bounded'
      BY BoundedNext
    <2> QED
      BY <2>1, InitBounded, Typed, PTL DEF Spec
  <1> QED
    BY <1>1, <1>2, Typed, PTL

=============================================================================
