------------------------- MODULE LogRotation_proofs -------------------------
(***************************************************************************)
(* Theorems about LogRotation, for any set of callers and any limits.      *)
(***************************************************************************)
EXTENDS LogRotation, FiniteSetTheorems, TLAPS

Types ==
    /\ caller \in [Callers -> {"idle", "lock", "locked", "unlock"}]
    /\ owner \in Callers \cup {NoOne}
    /\ threw \subseteq Callers
    /\ exists \subseteq Seconds /\ undeleted \subseteq exists
    /\ modified \in [Seconds -> Seconds]
    /\ lines \in [Seconds -> Seq(Line)]
    /\ length \in [Seconds -> Nat]
    /\ clock \in Seconds /\ count \in 0..MaxLines /\ tied \in BOOLEAN

Mutex == \A t \in Callers : caller[t] \in {"locked", "unlock"} => owner = t

\* The lines of a file rise, and are older than the next one.
Rising(f) ==
    \A i \in DOMAIN lines[f] :
        /\ lines[f][i].n < count
        /\ \A j \in DOMAIN lines[f] : i < j => lines[f][i].n < lines[f][j].n

\* A full file is written to in the second it got its name or when it could not be deleted.
Bounded(f) ==
    \A i \in DOMAIN lines[f] :
        lines[f][i].from >= maxLogFileSize => lines[f][i].at = f \/ f \in undeleted

Content ==
    \A f \in Seconds :
        /\ Rising(f) /\ Bounded(f)
        /\ f \notin exists => lines[f] = <<>> /\ length[f] = 0
        /\ f \in exists => f <= modified[f] /\ modified[f] <= clock

Limit == Cardinality(exists) <= maxLogFiles

Older(f, g) == \A i \in DOMAIN lines[f], j \in DOMAIN lines[g] : lines[f][i].n < lines[g][j].n

Order ==
    ~tied => \A f \in exists, g \in exists \ undeleted : modified[f] < modified[g] => Older(f, g)

IInv == Types /\ Mutex /\ Content /\ Limit /\ Order

-----------------------------------------------------------------------------
(* Where a message goes.                                                   *)

LEMMA SecondsAreNumbers ==
    /\ Seconds \subseteq Nat
    /\ \A S \in SUBSET Seconds : IsFiniteSet(S) /\ Cardinality(S) \in Nat
  <1>1. LastSecond \in Int /\ 0 \in Int
    BY ConstantsAssumption
  <1>2. IsFiniteSet(0..LastSecond)
    BY <1>1, FS_Interval
  <1>3. ASSUME NEW S \in SUBSET Seconds
        PROVE  IsFiniteSet(S) /\ Cardinality(S) \in Nat
    <2>1. IsFiniteSet(S)
      BY <1>2, FS_Subset DEF Seconds
    <2> QED
      BY <2>1, FS_CardinalityType
  <1> QED
    BY <1>3, ConstantsAssumption DEF Seconds

\* A target is a file of the directory or has the name of the current second; a new
\* name is taken only below the limit, and a file that goes is an oldest one.
Placed(target) ==
    /\ target.path \in Seconds
    /\ \/ /\ target.delete = {}
          /\ \/ target.path \in Latest /\ ~Full(target.path)
             \/ target.path = clock /\ (exists = {} \/ Cardinality(exists) < maxLogFiles)
       \/ /\ target.delete = {target.path}
          /\ target.path \in Oldest

LEMMA TargetPlaced ==
    ASSUME Types, NEW target \in Targets
    PROVE  Placed(target)
  <1>1. CASE exists = {}
    BY <1>1 DEF Types, Targets, Placed, newLogFilePath
  <1>2. CASE exists # {}
    <2>1. PICK p \in Extremes : target = Rotation(p[1], p[2])
      BY <1>2 DEF Targets
    <2>2. p[1] \in Oldest /\ p[2] \in Latest /\ p[1] \in Seconds /\ p[2] \in Seconds
      BY <2>1 DEF Extremes, Oldest, Latest, Types
    <2>3. CASE ~Full(p[2])
      BY <2>1, <2>2, <2>3 DEF Rotation, Placed
    <2>4. CASE Full(p[2]) /\ Cardinality(exists) >= maxLogFiles
      BY <2>1, <2>2, <2>4 DEF Rotation, Placed
    <2>5. CASE Full(p[2]) /\ ~(Cardinality(exists) >= maxLogFiles)
      <3>1. Cardinality(exists) \in Nat
        BY SecondsAreNumbers DEF Types
      <3> QED
        BY <2>1, <2>2, <2>5, <3>1, ConstantsAssumption DEF Rotation, Placed, newLogFilePath, Types
    <2> QED
      BY <2>3, <2>4, <2>5
  <1> QED
    BY <1>1, <1>2

\* Without a tie the file that goes is the only oldest one, and one that is continued is
\* the only latest one, unless its name is the current second.
Unrivalled(target) ==
    /\ target.delete # {} =>
          \A g \in exists : g # target.path => modified[target.path] < modified[g]
    /\ target.delete = {} /\ target.path \in exists /\ target.path # clock =>
          \A g \in exists : g # target.path => modified[g] < modified[target.path]

LEMMA NoTieUnrivalled ==
    ASSUME Types, ~Tie, NEW target \in Targets
    PROVE  Unrivalled(target)
  <1>1. CASE exists = {}
    BY <1>1 DEF Targets, Unrivalled
  <1>2. CASE exists # {}
    <2>1. PICK p \in Extremes : target = Rotation(p[1], p[2])
      BY <1>2 DEF Targets
    <2>2. p[1] \in Oldest /\ p[2] \in Latest
      BY <2>1 DEF Extremes
    <2>3. ASSUME NEW q \in Extremes
          PROVE  Rotation(q[1], q[2]) = target
      <3>1. Rotation(q[1], q[2]) \in Targets
        BY <1>2 DEF Targets
      <3> QED
        BY <3>1 DEF Tie
    <2>a. \A f \in exists : modified[f] \in Int
      <3>1. \A f \in exists : modified[f] \in Seconds
        BY DEF Types
      <3>2. Seconds \subseteq Int
        BY ConstantsAssumption DEF Seconds
      <3> QED
        BY <3>1, <3>2
    <2>4. ASSUME NEW o \in Oldest, NEW l \in Latest, Oldest = Latest => o = l
          PROVE  Rotation(o, l) = target
      <3>1. <<o, l>> \in Extremes
        BY <2>4 DEF Extremes
      <3> QED
        BY <3>1, <2>3
    <2>5. ASSUME target.delete # {}, NEW g \in exists, g # target.path
          PROVE  modified[target.path] < modified[g]
      <3>1. target = [path |-> p[1], delete |-> {p[1]}] /\ Full(p[2])
        BY <2>1, <2>5 DEF Rotation
      <3>2. g \notin Oldest
        <4> SUFFICES ASSUME g \in Oldest PROVE FALSE
          OBVIOUS
        <4>1. CASE Oldest = Latest
          <5>1. Rotation(g, g) = target
            BY <2>4, <4>1
          <5> QED
            BY <5>1, <3>1, <2>5 DEF Rotation
        <4>2. CASE Oldest # Latest
          <5>1. Rotation(g, p[2]) = target
            BY <2>4, <2>2, <4>2
          <5> QED
            BY <5>1, <3>1, <2>5 DEF Rotation
        <4> QED
          BY <4>1, <4>2
      <3> QED
        BY <2>5, <2>a, <3>1, <3>2, <2>2 DEF Oldest
    <2>6. ASSUME target.delete = {}, target.path \in exists, target.path # clock,
                 NEW g \in exists, g # target.path
          PROVE  modified[g] < modified[target.path]
      <3>1. target = [path |-> p[2], delete |-> {}]
        BY <2>1, <2>6 DEF Rotation, newLogFilePath
      <3>2. g \notin Latest
        <4> SUFFICES ASSUME g \in Latest PROVE FALSE
          OBVIOUS
        <4>1. PICK o \in Oldest : Rotation(o, g) = target
          BY <2>2, <2>4
        <4> QED
          BY <4>1, <3>1, <2>6 DEF Rotation, newLogFilePath
      <3> QED
        BY <2>6, <2>a, <3>1, <3>2, <2>2 DEF Latest
    <2> QED
      BY <2>5, <2>6 DEF Unrivalled
  <1> QED
    BY <1>1, <1>2

-----------------------------------------------------------------------------
(* The invariant.                                                          *)

LEMMA InitIInv == Init => IInv
  <1> SUFFICES ASSUME Init PROVE IInv
    OBVIOUS
  <1> USE DEF Init
  <1>1. 0 \in Seconds /\ 0 \in 0..MaxLines
    BY ConstantsAssumption DEF Seconds
  <1>2. Types
    <2>1. lines \in [Seconds -> Seq(Line)] /\ length \in [Seconds -> Nat]
      OBVIOUS
    <2> QED
      BY <1>1, <2>1 DEF Types
  <1>3. Mutex
    BY DEF Mutex
  <1>4. Content
    BY <1>1 DEF Content, Rising, Bounded
  <1>5. Limit
    BY FS_EmptySet, ConstantsAssumption DEF Limit
  <1>6. Order
    BY DEF Order
  <1> QED
    BY <1>2, <1>3, <1>4, <1>5, <1>6 DEF IInv

\* What a write does to the file it goes to, and to no other: nothing, or the file is new
\* since the current second, and may have a new last line.  The lines it had are gone with
\* the file or there still.
Filed(target, gone) ==
    LET f == target.path IN
    /\ gone \in {target.delete, {}}
    /\ exists' = exists \cup {f}
    /\ \A g \in Seconds \ {f} :
          lines'[g] = lines[g] /\ length'[g] = length[g] /\ modified'[g] = modified[g]
    /\ \A i \in DOMAIN lines'[f] :
          \/ /\ i = Len(lines'[f]) /\ count' = count + 1
             /\ lines'[f][i] = [n |-> count, at |-> clock, from |-> KeptLength(f, gone)]
          \/ gone = {} /\ i \in DOMAIN lines[f] /\ lines'[f][i] = lines[f][i]
    /\ gone = {} =>
          \A i \in DOMAIN lines[f] : i \in DOMAIN lines'[f] /\ lines'[f][i] = lines[f][i]
    /\ \/ modified'[f] = clock
       \/ gone = {} /\ f \in exists /\ modified'[f] = modified[f] /\ lines'[f] = lines[f]
    /\ clock' = clock /\ count' \in {count, count + 1}
    /\ undeleted' = (undeleted \cup target.delete) \ gone
    /\ tied' = (tied \/ Tie)
    /\ lines' \in [Seconds -> Seq(Line)] /\ length' \in [Seconds -> Nat]
    /\ modified' \in [Seconds -> Seconds] /\ count' \in 0..MaxLines

LEMMA AppendFiled ==
    ASSUME IInv, NEW t \in Callers, NEW target \in Targets, NEW gone \in {target.delete, {}},
           NEW size \in Sizes, AppendLine(t, target.path, gone, size),
           undeleted' = (undeleted \cup target.delete) \ gone, tied' = (tied \/ Tie)
    PROVE  Filed(target, gone)
  <1> DEFINE f == target.path
             old == Kept(f, gone)
             new == [n |-> count, at |-> clock, from |-> KeptLength(f, gone)]
  <1>1. Placed(target) /\ f \in Seconds
    BY TargetPlaced DEF IInv, Placed
  <1>2. size \in Nat /\ MaxLines \in Nat /\ count \in Nat /\ count < MaxLines /\ count' = count + 1
    BY ConstantsAssumption DEF IInv, Types, AppendLine
  <1>3. KeptLength(f, gone) \in Nat /\ old \in Seq(Line)
    BY <1>1 DEF IInv, Types, KeptLength, Kept
  <1>4. new \in Line
    BY <1>2, <1>3 DEF IInv, Types, Line
  <1>5. /\ lines' = [lines EXCEPT ![f] = Append(old, new)]
        /\ length' = [length EXCEPT ![f] = KeptLength(f, gone) + size]
        /\ modified' = [modified EXCEPT ![f] = clock]
        /\ exists' = exists \cup {f} /\ clock' = clock
    BY DEF AppendLine
  <1>6. gone = {} => old = lines[f]
    BY DEF Kept
  <1>7. gone # {} => old = <<>>
    BY <1>1 DEF Kept, Placed
  <1> HIDE DEF old, new
  <1>8. Append(old, new) \in Seq(Line)
    BY <1>3, <1>4
  <1>9. lines'[f] = Append(old, new)
    BY <1>1, <1>5 DEF IInv, Types
  <1>10. /\ Len(old) \in Nat /\ DOMAIN old = 1..Len(old)
         /\ Len(lines'[f]) = Len(old) + 1
         /\ DOMAIN lines'[f] = 1..(Len(old) + 1)
         /\ lines'[f][Len(old) + 1] = new
         /\ \A i \in 1..Len(old) : lines'[f][i] = old[i]
    BY <1>3, <1>4, <1>9
  <1>11. ASSUME NEW i \in DOMAIN lines'[f]
         PROVE  \/ i = Len(lines'[f]) /\ lines'[f][i] = new
                \/ gone = {} /\ i \in DOMAIN lines[f] /\ lines'[f][i] = lines[f][i]
    <2>1. i = Len(old) + 1 \/ i \in 1..Len(old)
      BY <1>10
    <2>2. Len(old) # 0 => gone = {}
      BY <1>7
    <2> QED
      BY <1>6, <1>10, <2>1, <2>2
  <1>12. gone = {} =>
             \A i \in DOMAIN lines[f] : i \in DOMAIN lines'[f] /\ lines'[f][i] = lines[f][i]
    BY <1>6, <1>10
  <1>13. \A g \in Seconds \ {f} :
             lines'[g] = lines[g] /\ length'[g] = length[g] /\ modified'[g] = modified[g]
    BY <1>5 DEF IInv, Types
  <1>14. modified'[f] = clock
    BY <1>1, <1>5 DEF IInv, Types
  <1>15. count' \in 0..MaxLines
    BY <1>2
  <1>16. lines' \in [Seconds -> Seq(Line)] /\ modified' \in [Seconds -> Seconds]
    BY <1>5, <1>8 DEF IInv, Types
  <1>17. length' \in [Seconds -> Nat]
    <2>1. KeptLength(f, gone) + size \in Nat
      BY <1>2, <1>3
    <2> QED
      BY <1>5, <2>1 DEF IInv, Types
  <1> QED
    BY <1>2, <1>5, <1>11, <1>12, <1>13, <1>14, <1>15, <1>16, <1>17 DEF Filed, new

LEMMA NothingFiled ==
    ASSUME IInv, NEW t \in Callers, NEW target \in Targets, NEW gone \in {target.delete, {}},
           AppendNothing(t, target.path, gone),
           undeleted' = (undeleted \cup target.delete) \ gone, tied' = (tied \/ Tie)
    PROVE  Filed(target, gone)
  <1> DEFINE f == target.path
             when == IF f \in exists \ gone THEN modified[f] ELSE clock
  <1>1. Placed(target) /\ f \in Seconds
    BY TargetPlaced DEF IInv, Placed
  <1>2. /\ lines' = [lines EXCEPT ![f] = Kept(f, gone)]
        /\ length' = [length EXCEPT ![f] = KeptLength(f, gone)]
        /\ exists' = exists \cup {f} /\ clock' = clock /\ count' = count
    BY DEF AppendNothing
  <1>3. modified' = [modified EXCEPT ![f] = when]
    BY <1>1 DEF AppendNothing, IInv, Types
  <1>4. Kept(f, gone) \in Seq(Line) /\ KeptLength(f, gone) \in Nat /\ when \in Seconds
    BY <1>1 DEF Kept, KeptLength, IInv, Types
  <1>5. gone = {} => Kept(f, gone) = lines[f]
    BY DEF Kept
  <1>6. gone # {} => Kept(f, gone) = <<>> /\ f \in gone
    BY <1>1 DEF Kept, Placed
  <1>7. lines'[f] = Kept(f, gone) /\ modified'[f] = when
    BY <1>1, <1>2, <1>3 DEF IInv, Types
  <1>8. \A g \in Seconds \ {f} :
            lines'[g] = lines[g] /\ length'[g] = length[g] /\ modified'[g] = modified[g]
    BY <1>2, <1>3 DEF IInv, Types
  <1>9. \A i \in DOMAIN lines'[f] :
            gone = {} /\ i \in DOMAIN lines[f] /\ lines'[f][i] = lines[f][i]
    <2>1. gone # {} => DOMAIN lines'[f] = {}
      BY <1>6, <1>7
    <2> QED
      BY <1>5, <1>7, <2>1
  <1>10. \/ modified'[f] = clock
         \/ gone = {} /\ f \in exists /\ modified'[f] = modified[f] /\ lines'[f] = lines[f]
    BY <1>5, <1>6, <1>7
  <1>11. /\ lines' \in [Seconds -> Seq(Line)] /\ length' \in [Seconds -> Nat]
         /\ modified' \in [Seconds -> Seconds] /\ count' \in 0..MaxLines
    BY <1>2, <1>3, <1>4 DEF IInv, Types
  <1> QED
    BY <1>2, <1>5, <1>7, <1>8, <1>9, <1>10, <1>11 DEF Filed

-----------------------------------------------------------------------------
(* A message is written.                                                   *)

LEMMA FiledContent ==
    ASSUME IInv, NEW target \in Targets, NEW gone, Filed(target, gone)
    PROVE  Content' /\ exists' \subseteq Seconds /\ undeleted' \subseteq exists'
  <1> DEFINE f == target.path
  <1>1. Placed(target) /\ f \in Seconds /\ target.delete \in {{}, {f}} /\ gone \in {{}, target.delete}
    BY TargetPlaced DEF IInv, Placed, Filed
  <1>2. /\ exists' = exists \cup {f} /\ clock' = clock
        /\ \A g \in Seconds \ {f} :
              lines'[g] = lines[g] /\ length'[g] = length[g] /\ modified'[g] = modified[g]
        /\ count' \in {count, count + 1}
        /\ undeleted' = (undeleted \cup target.delete) \ gone
    BY DEF Filed
  <1>3. count \in Nat /\ clock \in Nat /\ Seconds \subseteq Nat /\ maxLogFileSize \in Nat \ {0}
    BY SecondsAreNumbers, ConstantsAssumption DEF IInv, Types
  <1>4. ASSUME NEW g \in Seconds, NEW i \in DOMAIN lines[g]
        PROVE  lines[g][i].n \in Nat /\ lines[g][i].n < count /\ lines[g][i].n < count'
    <2>1. lines[g] \in Seq(Line)
      BY DEF IInv, Types
    <2>2. lines[g][i] \in Line
      BY <2>1
    <2>3. lines[g][i].n \in Nat
      BY <2>2, ConstantsAssumption DEF Line
    <2>4. lines[g][i].n < count
      BY DEF IInv, Content, Rising
    <2> QED
      BY <1>2, <1>3, <2>3, <2>4
  <1>5. ASSUME NEW i \in DOMAIN lines'[f]
        PROVE  \/ /\ i = Len(lines'[f]) /\ count' = count + 1
                  /\ lines'[f][i].n = count /\ lines'[f][i].at = clock
                  /\ lines'[f][i].from = KeptLength(f, gone)
               \/ gone = {} /\ i \in DOMAIN lines[f] /\ lines'[f][i] = lines[f][i]
    BY DEF Filed
  <1>6. ASSUME NEW i \in DOMAIN lines'[f], NEW j \in DOMAIN lines'[f], i < j
        PROVE  lines'[f][i].n < lines'[f][j].n
    <2>1. lines'[f] \in Seq(Line)
      BY <1>1 DEF Filed
    <2>2. i \in Nat /\ j \in Nat /\ j <= Len(lines'[f]) /\ Len(lines'[f]) \in Nat
      BY <2>1
    <2>3. i # Len(lines'[f])
      BY <1>6, <2>2
    <2>4. gone = {} /\ i \in DOMAIN lines[f] /\ lines'[f][i] = lines[f][i]
      BY <1>5, <2>3
    <2>5. CASE lines'[f][j].n = count
      BY <1>1, <1>4, <2>4, <2>5
    <2>6. CASE j \in DOMAIN lines[f] /\ lines'[f][j] = lines[f][j]
      BY <1>1, <1>6, <2>4, <2>6 DEF IInv, Content, Rising
    <2> QED
      BY <1>5, <2>5, <2>6
  <1>7. Rising(f)'
    <2>1. ASSUME NEW i \in DOMAIN lines'[f]
          PROVE  lines'[f][i].n < count'
      <3>1. lines'[f][i].n = count /\ count' = count + 1 => lines'[f][i].n < count'
        BY <1>3
      <3>2. i \in DOMAIN lines[f] => lines[f][i].n < count'
        BY <1>1, <1>4
      <3> QED
        BY <1>5, <3>1, <3>2
    <2> QED
      BY <1>6, <2>1 DEF Rising
  <1>8. Bounded(f)'
    <2> SUFFICES ASSUME NEW i \in DOMAIN lines'[f], lines'[f][i].from >= maxLogFileSize
                 PROVE  lines'[f][i].at = f \/ f \in undeleted'
      BY DEF Bounded
    <2>1. CASE gone = {} /\ i \in DOMAIN lines[f] /\ lines'[f][i] = lines[f][i]
      BY <1>1, <1>2, <2>1 DEF IInv, Content, Bounded
    <2>2. CASE lines'[f][i].at = clock /\ lines'[f][i].from = KeptLength(f, gone)
      <3>1. gone = {} /\ Full(f)
        BY <1>1, <1>3, <2>2 DEF KeptLength, Full
      <3> QED
        BY <1>1, <1>2, <2>2, <3>1 DEF Placed
    <2> QED
      BY <1>5, <2>1, <2>2
  <1>9. f <= modified'[f] /\ modified'[f] <= clock
    <2>1. f \in exists => f <= modified[f] /\ modified[f] <= clock
      BY <1>1 DEF IInv, Content
    <2>2. f \in exists \/ f = clock
      BY <1>1 DEF Placed, Latest, Oldest
    <2>3. modified[f] \in Nat /\ f \in Nat
      BY <1>1, <1>3 DEF IInv, Types
    <2>4. modified'[f] = clock \/ (f \in exists /\ modified'[f] = modified[f])
      BY DEF Filed
    <2>5. f <= clock
      BY <1>3, <2>1, <2>2, <2>3
    <2> QED
      BY <1>3, <2>1, <2>4, <2>5
  <1> HIDE DEF f
  <1>10. ASSUME NEW g \in Seconds \ {f}
         PROVE  (Rising(g) /\ Bounded(g))'
    <2>1. Rising(g) /\ Bounded(g) /\ lines'[g] = lines[g]
      BY <1>2 DEF IInv, Content
    <2>2. Rising(g)'
      BY <1>4, <2>1 DEF Rising
    <2>3. g \in undeleted => g \in undeleted'
      BY <1>1, <1>2
    <2> QED
      BY <2>1, <2>2, <2>3 DEF Bounded
  <1>11. ASSUME NEW g \in Seconds \ {f}
         PROVE  /\ g \notin exists' => lines'[g] = <<>> /\ length'[g] = 0
                /\ g \in exists' => g <= modified'[g] /\ modified'[g] <= clock'
    BY <1>2 DEF IInv, Content
  <1>12. Content'
    <2> SUFFICES ASSUME NEW g \in Seconds
                 PROVE  /\ (Rising(g) /\ Bounded(g))'
                        /\ g \notin exists' => lines'[g] = <<>> /\ length'[g] = 0
                        /\ g \in exists' => g <= modified'[g] /\ modified'[g] <= clock'
      BY DEF Content
    <2>1. CASE g = f
      BY <1>2, <1>7, <1>8, <1>9, <2>1
    <2>2. CASE g # f
      BY <1>10, <1>11, <2>2
    <2> QED
      BY <2>1, <2>2
  <1>13. exists' \subseteq Seconds /\ undeleted' \subseteq exists'
    BY <1>1, <1>2 DEF IInv, Types
  <1> QED
    BY <1>12, <1>13

LEMMA FiledLimit ==
    ASSUME IInv, NEW target \in Targets, NEW gone, Filed(target, gone)
    PROVE  Limit'
  <1>1. exists' = exists \cup {target.path}
    BY DEF Filed
  <1>2. IsFiniteSet(exists) /\ Cardinality(exists) \in Nat
    BY SecondsAreNumbers DEF IInv, Types
  <1>3. CASE target.path \in exists
    <2>1. exists' = exists
      BY <1>1, <1>3
    <2> QED
      BY <2>1 DEF IInv, Limit
  <1>4. CASE target.path \notin exists
    <2>1. exists = {} \/ Cardinality(exists) < maxLogFiles
      BY <1>4, TargetPlaced DEF IInv, Placed, Latest, Oldest
    <2>2. Cardinality(exists) < maxLogFiles
      BY <2>1, FS_EmptySet, ConstantsAssumption
    <2>3. Cardinality(exists') = Cardinality(exists) + 1
      BY <1>1, <1>2, <1>4, FS_AddElement
    <2> QED
      BY <1>2, <2>2, <2>3, ConstantsAssumption DEF Limit
  <1> QED
    BY <1>3, <1>4

LEMMA FiledOrder ==
    ASSUME IInv, NEW target \in Targets, NEW gone, Filed(target, gone)
    PROVE  Order'
  <1> DEFINE f == target.path
  <1> SUFFICES ASSUME ~tied', NEW g \in exists', NEW h \in exists' \ undeleted',
                      modified'[g] < modified'[h],
                      NEW i \in DOMAIN lines'[g], NEW j \in DOMAIN lines'[h]
               PROVE  lines'[g][i].n < lines'[h][j].n
    BY DEF Order, Older
  <1>1. /\ Placed(target) /\ f \in Seconds /\ ~tied /\ Unrivalled(target)
        /\ target.delete \in {{}, {f}} /\ gone \in {{}, target.delete}
    BY TargetPlaced, NoTieUnrivalled DEF IInv, Placed, Filed
  <1>2. /\ exists' = exists \cup {f}
        /\ \A k \in Seconds \ {f} : lines'[k] = lines[k] /\ modified'[k] = modified[k]
        /\ undeleted' = (undeleted \cup target.delete) \ gone
    BY DEF Filed
  <1>3. /\ Seconds \subseteq Nat /\ clock \in Nat
        /\ \A k \in exists : k \in Seconds /\ modified[k] \in Nat /\ k <= modified[k] /\ modified[k] <= clock
    BY SecondsAreNumbers DEF IInv, Types, Content
  <1>4. \A k \in exists, l \in exists \ undeleted : modified[k] < modified[l] => Older(k, l)
    BY <1>1 DEF IInv, Order
  <1>5. CASE g # f /\ h # f
    BY <1>1, <1>2, <1>3, <1>4, <1>5 DEF Older
  <1>6. CASE gone = {} /\ f \in exists /\ modified'[f] = modified[f] /\ lines'[f] = lines[f]
    <2>1. /\ g \in exists /\ h \in exists \ undeleted
          /\ lines'[g] = lines[g] /\ modified'[g] = modified[g]
          /\ lines'[h] = lines[h] /\ modified'[h] = modified[h]
      BY <1>2, <1>3, <1>6
    <2> QED
      BY <1>4, <2>1 DEF Older
  <1>7. CASE modified'[f] = clock /\ g = f
    <2>1. h # f /\ h \in exists /\ modified'[g] = clock
      BY <1>2, <1>3, <1>7
    <2>2. modified'[h] = modified[h] /\ modified[h] \in Nat /\ modified[h] <= clock
      BY <1>2, <1>3, <2>1
    <2> QED
      BY <1>3, <2>1, <2>2
  <1>8. CASE modified'[f] = clock /\ g # f /\ h = f
    <2>1. g \in exists /\ g \in Seconds /\ lines'[g] = lines[g] /\ modified[g] < clock
      BY <1>2, <1>3, <1>8
    <2>2. CASE lines'[f][j].n = count
      <3>1. lines[g][i].n < count
        BY <2>1 DEF IInv, Content, Rising
      <3> QED
        BY <1>8, <2>1, <2>2, <3>1
    <2>3. CASE gone = {} /\ j \in DOMAIN lines[f] /\ lines'[f][j] = lines[f][j]
      <3>1. f \in exists
        BY <1>1, <2>3 DEF IInv, Content
      <3>2. target.delete = {} /\ f \notin undeleted
        BY <1>1, <1>2, <1>8, <2>3
      <3>3. modified[g] < modified[f]
        <4>1. CASE f = clock
          BY <1>3, <2>1, <3>1, <4>1
        <4>2. CASE f # clock
          BY <1>1, <1>8, <2>1, <3>1, <3>2, <4>2 DEF Unrivalled
        <4> QED
          BY <4>1, <4>2
      <3> QED
        BY <1>4, <1>8, <2>1, <2>3, <3>1, <3>2, <3>3 DEF Older
    <2>4. lines'[f][j].n = count \/ (gone = {} /\ j \in DOMAIN lines[f] /\ lines'[f][j] = lines[f][j])
      BY <1>8 DEF Filed
    <2> QED
      BY <2>2, <2>3, <2>4
  <1>9. \/ modified'[f] = clock
        \/ gone = {} /\ f \in exists /\ modified'[f] = modified[f] /\ lines'[f] = lines[f]
    BY DEF Filed
  <1> QED
    BY <1>5, <1>6, <1>7, <1>8, <1>9

LEMMA WriteFiled ==
    ASSUME IInv, NEW t \in Callers, Write(t)
    PROVE  /\ \E target \in Targets : \E gone : Filed(target, gone)
           /\ caller' = [caller EXCEPT ![t] = "unlock"] /\ caller[t] = "locked"
           /\ owner' = owner /\ threw' = threw
  <1>1. PICK target \in Targets :
           \E gone \in {target.delete, {}} :
              /\ \/ \E size \in Sizes : AppendLine(t, target.path, gone, size)
                 \/ AppendNothing(t, target.path, gone)
              /\ undeleted' = (undeleted \cup target.delete) \ gone
              /\ tied' = (tied \/ Tie)
    BY DEF Write
  <1>2. PICK gone \in {target.delete, {}} :
           /\ \/ \E size \in Sizes : AppendLine(t, target.path, gone, size)
              \/ AppendNothing(t, target.path, gone)
           /\ undeleted' = (undeleted \cup target.delete) \ gone
           /\ tied' = (tied \/ Tie)
    BY <1>1
  <1>3. Filed(target, gone)
    BY <1>2, AppendFiled, NothingFiled
  <1>4. /\ caller' = [caller EXCEPT ![t] = "unlock"] /\ caller[t] = "locked"
        /\ owner' = owner /\ threw' = threw
    <2>1. CASE AppendNothing(t, target.path, gone)
      BY <2>1 DEF AppendNothing, Goes
    <2>2. ASSUME NEW size \in Sizes, AppendLine(t, target.path, gone, size)
          PROVE  /\ caller' = [caller EXCEPT ![t] = "unlock"] /\ caller[t] = "locked"
                 /\ owner' = owner /\ threw' = threw
      BY <2>2 DEF AppendLine, Goes
    <2> QED
      BY <1>2, <2>1, <2>2
  <1> QED
    BY <1>3, <1>4

-----------------------------------------------------------------------------
(* The other steps.                                                        *)

\* The invariant depends on the data only through these.
LEMMA DataUnchanged ==
    ASSUME IInv, UNCHANGED <<fileVars, count, historyVars>>, clock' \in Seconds, clock <= clock'
    PROVE  (Content /\ Limit /\ Order)'
  <1>1. /\ Seconds \subseteq Nat /\ clock \in Seconds
        /\ \A f \in Seconds : modified[f] \in Seconds
    BY SecondsAreNumbers DEF IInv, Types
  <1>2. Content'
    <2> SUFFICES ASSUME NEW f \in Seconds
                 PROVE  /\ (Rising(f) /\ Bounded(f))'
                        /\ f \notin exists => lines[f] = <<>> /\ length[f] = 0
                        /\ f \in exists => f <= modified[f] /\ modified[f] <= clock'
      BY DEF Content, fileVars
    <2>1. /\ Rising(f) /\ Bounded(f)
          /\ f \notin exists => lines[f] = <<>> /\ length[f] = 0
          /\ f \in exists => f <= modified[f] /\ modified[f] <= clock
      BY DEF IInv, Content
    <2>2. (Rising(f) /\ Bounded(f))'
      BY <2>1 DEF Rising, Bounded, fileVars, historyVars
    <2>3. modified[f] \in Nat /\ clock \in Nat /\ clock' \in Nat
      BY <1>1
    <2>4. modified[f] <= clock => modified[f] <= clock'
      BY <2>3
    <2> QED
      BY <2>1, <2>2, <2>4
  <1>3. Limit'
    BY DEF IInv, Limit, fileVars
  <1>4. Order'
    BY DEF IInv, Order, Older, fileVars, historyVars
  <1> QED
    BY <1>2, <1>3, <1>4

LEMMA RemoveStep ==
    ASSUME IInv, NEW target \in Targets, target.delete # {},
           exists' = exists \ target.delete,
           lines' = [lines EXCEPT ![target.path] = <<>>],
           length' = [length EXCEPT ![target.path] = 0],
           undeleted' = undeleted \ target.delete,
           tied' = (tied \/ Tie), UNCHANGED <<modified, clock, count>>
    PROVE  /\ exists' \subseteq Seconds /\ undeleted' \subseteq exists'
           /\ lines' \in [Seconds -> Seq(Line)] /\ length' \in [Seconds -> Nat]
           /\ (Content /\ Limit /\ Order)'
  <1> DEFINE f == target.path
  <1>1. f \in exists /\ f \in Seconds /\ target.delete = {f}
    BY TargetPlaced DEF IInv, Placed, Oldest
  <1>2. /\ exists' = exists \ {f} /\ lines'[f] = <<>> /\ length'[f] = 0
        /\ \A g \in Seconds : g # f => lines'[g] = lines[g] /\ length'[g] = length[g]
        /\ undeleted' = undeleted \ {f}
    BY <1>1 DEF IInv, Types
  <1>3. /\ exists' \subseteq Seconds /\ undeleted' \subseteq exists'
        /\ lines' \in [Seconds -> Seq(Line)] /\ length' \in [Seconds -> Nat]
    BY <1>1, <1>2 DEF IInv, Types
  <1>4. Content'
    <2> SUFFICES ASSUME NEW g \in Seconds
                 PROVE  /\ (Rising(g) /\ Bounded(g))'
                        /\ g \notin exists' => lines'[g] = <<>> /\ length'[g] = 0
                        /\ g \in exists' => g <= modified[g] /\ modified[g] <= clock
      BY DEF Content
    <2>1. CASE g = f
      BY <1>2, <2>1 DEF Rising, Bounded
    <2>2. CASE g # f
      BY <1>2, <2>2 DEF IInv, Content, Rising, Bounded
    <2> QED
      BY <2>1, <2>2
  <1>5. Limit'
    <2>1. IsFiniteSet(exists) /\ Cardinality(exists) \in Nat
      BY SecondsAreNumbers DEF IInv, Types
    <2>2. Cardinality(exists') = Cardinality(exists) - 1
      BY <1>1, <1>2, <2>1, FS_RemoveElement, ZenonT(40)
    <2> QED
      BY <2>1, <2>2, ConstantsAssumption DEF IInv, Limit
  <1>6. Order'
    <2> SUFFICES ASSUME ~tied', NEW g \in exists', NEW h \in exists' \ undeleted', modified[g] < modified[h]
                 PROVE  Older(g, h)'
      BY DEF Order
    <2>1. Older(g, h) /\ g \in Seconds /\ h \in Seconds
      BY <1>2 DEF IInv, Order, Types
    <2> QED
      BY <1>2, <2>1 DEF Older
  <1> QED
    BY <1>3, <1>4, <1>5, <1>6

LEMMA Step == IInv /\ [Next]_vars => IInv'
  <1> SUFFICES ASSUME IInv, [Next]_vars PROVE IInv'
    OBVIOUS
  <1> USE DEF IInv
  <1>0. clock \in Seconds /\ clock \in Nat /\ clock <= clock
    BY SecondsAreNumbers DEF Types
  <1>1. ASSUME NEW t \in Callers, Call(t)
        PROVE  IInv'
    <2>1. Types' /\ Mutex'
      BY <1>1 DEF Types, Mutex, Call, Goes, fileVars, historyVars
    <2> QED
      BY <1>0, <1>1, <2>1, DataUnchanged DEF Call
  <1>2. ASSUME NEW t \in Callers, Lock(t)
        PROVE  IInv'
    <2>1. Types' /\ Mutex'
      BY <1>2, ConstantsAssumption DEF Types, Mutex, Lock, Goes, fileVars, historyVars
    <2> QED
      BY <1>0, <1>2, <2>1, DataUnchanged DEF Lock
  <1>3. ASSUME NEW t \in Callers, ToStringThrows(t)
        PROVE  IInv'
    <2>1. Types' /\ Mutex'
      BY <1>3 DEF Types, Mutex, ToStringThrows, Goes, fileVars, historyVars
    <2> QED
      BY <1>0, <1>3, <2>1, DataUnchanged DEF ToStringThrows
  <1>4. ASSUME NEW t \in Callers, Write(t)
        PROVE  IInv'
    <2>0. PICK target \in Targets : \E gone : Filed(target, gone)
      BY <1>4, WriteFiled
    <2>1. PICK gone : Filed(target, gone)
      BY <2>0
    <2>2. Mutex' /\ owner' = owner /\ threw' = threw
          /\ caller' \in [Callers -> {"idle", "lock", "locked", "unlock"}]
      BY <1>4, WriteFiled DEF Types, Mutex
    <2>3. Content' /\ exists' \subseteq Seconds /\ undeleted' \subseteq exists'
      BY <2>1, FiledContent
    <2>4. Types'
      BY <2>1, <2>2, <2>3 DEF Types, Filed
    <2> QED
      BY <2>1, <2>2, <2>3, <2>4, FiledLimit, FiledOrder
  <1>5. ASSUME NEW t \in Callers, WriteNothing(t)
        PROVE  IInv'
    <2>1. Mutex'
      BY <1>5 DEF Types, Mutex, WriteNothing, Goes
    <2>2. /\ caller' \in [Callers -> {"idle", "lock", "locked", "unlock"}]
          /\ UNCHANGED <<owner, threw, clock, count>>
      BY <1>5 DEF Types, WriteNothing, Goes
    <2>3. CASE UNCHANGED <<fileVars, historyVars>>
      <3>1. Types'
        BY <2>2, <2>3 DEF Types, fileVars, historyVars
      <3> QED
        BY <1>0, <2>1, <2>2, <2>3, <3>1, DataUnchanged
    <2>4. CASE \E target \in Targets :
                  /\ target.delete # {}
                  /\ exists' = exists \ target.delete
                  /\ lines' = [lines EXCEPT ![target.path] = <<>>]
                  /\ length' = [length EXCEPT ![target.path] = 0]
                  /\ undeleted' = undeleted \ target.delete
                  /\ tied' = (tied \/ Tie)
                  /\ UNCHANGED modified
      <3>1. /\ exists' \subseteq Seconds /\ undeleted' \subseteq exists'
            /\ lines' \in [Seconds -> Seq(Line)] /\ length' \in [Seconds -> Nat]
            /\ (Content /\ Limit /\ Order)'
            /\ UNCHANGED modified /\ tied' = (tied \/ Tie)
        BY <2>2, <2>4, RemoveStep
      <3>2. Types'
        BY <2>2, <3>1 DEF Types
      <3> QED
        BY <2>1, <3>1, <3>2
    <2> QED
      BY <1>5, <2>3, <2>4 DEF WriteNothing
  <1>6. ASSUME NEW t \in Callers, Unlock(t)
        PROVE  IInv'
    <2>1. owner = t
      BY <1>6 DEF Mutex, Unlock, Goes
    <2>2. Types' /\ Mutex'
      BY <1>6, <2>1 DEF Types, Mutex, Unlock, Goes, fileVars, historyVars
    <2> QED
      BY <1>0, <1>6, <2>2, DataUnchanged DEF Unlock
  <1>7. CASE Tick
    <2>1. clock' \in Seconds /\ clock <= clock'
      BY <1>0, <1>7, ConstantsAssumption DEF Tick, Seconds
    <2>2. Types' /\ Mutex'
      BY <1>7, <2>1 DEF Types, Mutex, Tick, fileVars, historyVars
    <2> QED
      BY <1>7, <2>1, <2>2, DataUnchanged DEF Tick
  <1>8. CASE UNCHANGED vars
    <2>1. Types' /\ Mutex'
      BY <1>8 DEF Types, Mutex, vars, fileVars, historyVars
    <2> QED
      BY <1>0, <1>8, <2>1, DataUnchanged DEF vars
  <1> QED
    BY <1>1, <1>2, <1>3, <1>4, <1>5, <1>6, <1>7, <1>8 DEF Next, CallerStep

LEMMA Invariant == Spec => []IInv
  <1> QED
    BY InitIInv, Step, PTL DEF Spec

-----------------------------------------------------------------------------

\* Every variable keeps its type, two callers are never between the lock and its end
\* together, and a file holds no line twice (LogRotation!TypeOK).
THEOREM TypeCorrect == Spec => []TypeOK
  <1>1. ASSUME IInv, NEW f \in Seconds
        PROVE  ToSet(lines[f]) \subseteq Line /\ IsInjective(lines[f])
    <2>1. lines[f] \in Seq(Line)
      BY <1>1 DEF IInv, Types
    <2>2. ASSUME NEW a \in DOMAIN lines[f]
          PROVE  a \in Nat /\ lines[f][a] \in Line /\ lines[f][a].n \in Nat
      <3>1. a \in Nat /\ lines[f][a] \in Line
        BY <2>1
      <3> QED
        BY <3>1, ConstantsAssumption DEF Line
    <2>3. ASSUME NEW a \in DOMAIN lines[f], NEW b \in DOMAIN lines[f], a # b
          PROVE  lines[f][a] # lines[f][b]
      <3>1. /\ a < b => lines[f][a].n < lines[f][b].n
            /\ b < a => lines[f][b].n < lines[f][a].n
        BY <1>1 DEF IInv, Content, Rising
      <3>2. a \in Nat /\ b \in Nat /\ lines[f][a].n \in Nat /\ lines[f][b].n \in Nat
        BY <2>2
      <3> QED
        BY <2>3, <3>1, <3>2
    <2> QED
      BY <2>2, <2>3 DEF ToSet, IsInjective
  <1>2. IInv => TypeOK
    BY <1>1 DEF IInv, Types, Mutex, Content, TypeOK
  <1> QED
    BY <1>2, Invariant, PTL

\* log4j keeps at most maxLogFiles files, and appends to a full one only in the second
\* that is its name or when it could not delete it (LogRotation!FilesBounded).
THEOREM SizeBounded == Spec => []FilesBounded
  <1>1. IInv => FilesBounded
    BY DEF IInv, Types, Content, Limit, Bounded, FilesBounded, ToSet
  <1> QED
    BY <1>1, Invariant, PTL

\* However names are used again and deletions fail, the lines of a file are in the order
\* they were logged; and unless the path was ever chosen between files that tied, so are
\* the files in the order of their modification times, but for the old lines of one that
\* could not be deleted (LogRotation!LogsInOrder).
THEOREM InOrder == Spec => []LogsInOrder
  <1>1. IInv => LogsInOrder
    BY DEF IInv, Types, Content, Rising, Order, Older, LogsInOrder, ToSet
  <1> QED
    BY <1>1, Invariant, PTL

\* Under the same conditions rotation deletes only lines older than all that stay
\* (LogRotation!OldLinesGo).
THEOREM OldestGoes == Spec => OldLinesGo
  <1> DEFINE Fair == \A f \in exists : \A x \in ToSet(lines[f]) \ ToSet(lines'[f]) :
                ~tied' =>
                   \A g \in exists \ ({f} \cup undeleted) : \A y \in ToSet(lines[g]) : x.n < y.n
  <1>1. ASSUME IInv, [Next]_vars
        PROVE  Fair
    <2> SUFFICES ASSUME NEW f \in exists, ~tied',
                        NEW x \in ToSet(lines[f]), x \notin ToSet(lines'[f]),
                        NEW g \in exists \ ({f} \cup undeleted)
                 PROVE  \A y \in ToSet(lines[g]) : x.n < y.n
      OBVIOUS
    <2>1. f \in Seconds /\ g \in Seconds
      BY <1>1 DEF IInv, Types
    <2>2. PICK i \in DOMAIN lines[f] : x = lines[f][i]
      BY DEF ToSet
    <2>3. ~(i \in DOMAIN lines'[f] /\ lines'[f][i] = lines[f][i])
      BY <2>2 DEF ToSet
    <2>4. PICK target \in Targets : target.delete # {} /\ f = target.path /\ tied' = (tied \/ Tie)
      <3>1. lines' # lines
        BY <2>3
      <3>2. PICK t \in Callers : Write(t) \/ WriteNothing(t)
        BY <1>1, <3>1 DEF Next, CallerStep, Call, Lock, ToStringThrows, Unlock, Tick, vars, fileVars
      <3>3. CASE Write(t)
        <4>0. PICK target \in Targets : \E gone : Filed(target, gone)
          BY <1>1, <3>3, WriteFiled
        <4>1. PICK gone : Filed(target, gone)
          BY <4>0
        <4>2. f = target.path
          BY <2>1, <2>3, <4>1 DEF Filed
        <4>3. gone # {} /\ gone \in {target.delete, {}} /\ tied' = (tied \/ Tie)
          BY <2>3, <4>1, <4>2 DEF Filed
        <4> QED
          BY <4>2, <4>3
      <3>4. CASE WriteNothing(t)
        BY <1>1, <2>1, <2>3, <3>4 DEF WriteNothing, fileVars, IInv, Types
      <3> QED
        BY <3>2, <3>3, <3>4
    <2>5. modified[f] < modified[g]
      BY <1>1, <2>4, NoTieUnrivalled DEF IInv, Unrivalled
    <2>6. Older(f, g)
      BY <1>1, <2>4, <2>5 DEF IInv, Order
    <2> QED
      BY <2>2, <2>6 DEF Older, ToSet
  <1> QED
    BY <1>1, Invariant, PTL DEF Spec, OldLinesGo

=============================================================================
