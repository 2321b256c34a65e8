-------------------------- MODULE ClusterGenProofs --------------------------
(***************************************************************************)
(* The invariants of the cluster generator, for every command line.  That  *)
(* a group is kept under one name only rests on what ClusterDataProofs     *)
(* shows of groupID, which Group.ID computes.                              *)
(***************************************************************************)
EXTENDS ClusterGen, ClusterDataProofs

\* Append keeps the operators of the array different and at most four.
LEMMA AppendKeepsApart ==
  ASSUME NEW h \in Groups, Len(h) <= 4, NEW D \in SUBSET (Nat \ {0}), h \in Seq(D), NEW o \in D
  PROVE  /\ Appended(h, o) \in Groups /\ Appended(h, o) \in Seq(D)
         /\ Len(Appended(h, o)) <= 4
<1>1. CASE o = 0 \/ o \in Range(h) \/ Len(h) = 4
  BY <1>1 DEF Appended
<1>2. CASE ~(o = 0 \/ o \in Range(h) \/ Len(h) = 4)
  <2> DEFINE n == Len(h)
             a == Append(h, o)
  <2>1. Appended(h, o) = a /\ n \in Nat /\ n < 4 /\ h \in Seq(Nat) /\ o \in Nat
    <3>1. h \in Seq(Nat) /\ n \in Nat /\ n # 4 /\ n <= 4 /\ o \in Nat
      BY <1>2 DEF Groups
    <3>2. Appended(h, o) = a
      BY <1>2 DEF Appended
    <3>3. n < 4
      <4> HIDE DEF n
      <4>1. QED
        BY <3>1
    <3>4. QED
      BY <3>1, <3>2, <3>3
  <2>2. /\ a \in Seq(Nat) /\ a \in Seq(D)
        /\ Len(a) = n + 1 /\ DOMAIN a = 1 .. n + 1
        /\ a[n + 1] = o
        /\ \A k \in 1 .. n : a[k] = h[k]
    BY <2>1
  <2>3. DOMAIN h = 1 .. n /\ \A k \in 1 .. n : h[k] # o
    BY <1>2, <2>1 DEF Range
  <2>4. \A k, l \in 1 .. n : h[k] = h[l] => k = l
    BY <2>3 DEF Groups
  <2> HIDE DEF n, a
  <2>5. ASSUME NEW k \in 1 .. n + 1, NEW l \in 1 .. n + 1, a[k] = a[l] PROVE k = l
    BY <2>1, <2>2, <2>3, <2>4, <2>5
  <2>6. a \in Groups
    BY <2>2, <2>5 DEF Groups
  <2>7. QED
    BY <2>1, <2>2, <2>6
<1>3. QED
  BY <1>1, <1>2

\* The name of a full group is a full group, and its own name.
LEMMA NameOfFull ==
  ASSUME NEW h \in FullGroups
  PROVE  /\ ID(h) \in FullGroups /\ ID(ID(h)) = ID(h)
         /\ Range(ID(h)) = Range(h) /\ Cardinality(Range(h)) = 4
<1>1. h \in Groups /\ Len(h) = 4 /\ Range(h) \subseteq Draws
  BY DEF FullGroups
<1>2. ID(h) \in Groups /\ InGroup(ID(h)) = InGroup(h)
  BY <1>1, NameTellsGroup DEF ID
<1>3. Cardinality(InGroup(h)) = 4 /\ Len(ID(h)) = 4
  BY <1>1, <1>2, GroupSize
<1>4. ID(ID(h)) = ID(h)
  BY <1>1, <1>2, GroupTellsName DEF ID
<1>5. Range(ID(h)) = InGroup(ID(h)) /\ Range(h) = InGroup(h)
  BY DEF Range, InGroup
<1>6. QED
  BY <1>1, <1>2, <1>3, <1>4, <1>5 DEF FullGroups

-----------------------------------------------------------------------------
(* The inductive invariant *)

\* The flags are numbers.
LEMMA FlagTypes ==
  ASSUME TypeOK
  PROVE  /\ flags.operators \in Nat /\ flags.validators \in Nat /\ flags.maxGroups \in Nat
         /\ Draws \in SUBSET (Nat \ {0}) /\ i \in Nat
<1>1. flags \in [operators : Nat, validators : Nat, maxGroups : Nat]
  BY FlagsAssumption DEF TypeOK
<1>2. QED
  BY <1>1 DEF TypeOK, Draws

\* The invariant holds before the first draw.
LEMMA InitInv == Init => IInv
<1> SUFFICES ASSUME Init PROVE IInv
  OBVIOUS
<1> USE DEF Init
<1>1. flags \in [operators : Nat, validators : Nat, maxGroups : Nat]
  BY FlagsAssumption
<1>2. DOMAIN groups = {} /\ IsFiniteSet({}) /\ Cardinality({}) = 0
  BY FS_EmptySet
<1>3. g \in Seq(Draws) /\ Len(g) = 0 /\ g \in Groups
  BY DEF Groups
<1>4. TypeOK
  BY <1>1, <1>2, <1>3 DEF TypeOK, Writers
<1>5. NamesAreSorted /\ WithinLimit
  BY <1>1, <1>2 DEF NamesAreSorted, WithinLimit
<1>6. SharePlaces = {}
  BY <1>2 DEF SharePlaces
<1>7. SharesCounted
  BY <1>2, <1>6 DEF SharesCounted, ShareCount
<1>8. QED
  BY <1>3, <1>4, <1>5, <1>7 DEF IInv, DrawnApart, WrittenSoFar

\* A share that is added has its place behind those of its group, and the group
\* is a new one only within the limit.
LEMMA AddShareKeeps ==
  ASSUME IInv, AddShare
  PROVE  IInv'
<1> DEFINE id0 == ID(g)
           old == Shares(id0)
           new == <<id0, Len(old) + 1>>
<1> USE DEF IInv
<1>1. /\ Generating /\ Len(g) = 4 /\ (id0 \in DOMAIN groups \/ ~Full)
      /\ groups' = [id \in DOMAIN groups \cup {id0} |->
                      IF id = id0 THEN Append(old, g) ELSE groups[id]]
      /\ i' = i + 1 /\ g' = <<>>
      /\ UNCHANGED <<flags, place, writing, stats, clustersFile, statsFile>>
  BY DEF AddShare, fileVars
<1>2. g \in FullGroups
  <2>1. g \in Seq(Draws) /\ g \in Groups
    BY DEF TypeOK, DrawnApart
  <2>2. Range(g) \subseteq Draws
    BY <2>1 DEF Range
  <2>3. QED
    BY <1>1, <2>1, <2>2 DEF FullGroups
<1>3. id0 \in FullGroups /\ ID(id0) = id0
  BY <1>2, NameOfFull
<1>4. old \in Seq(FullGroups) /\ (id0 \in DOMAIN groups => old = groups[id0])
      /\ (id0 \notin DOMAIN groups => old = <<>>)
  BY DEF Shares, TypeOK
<1> HIDE DEF id0, old
<1>5. /\ DOMAIN groups' = DOMAIN groups \cup {id0}
      /\ groups'[id0] = Append(old, g)
      /\ \A id \in DOMAIN groups : id # id0 => groups'[id] = groups[id]
  BY <1>1
<1>6. /\ Append(old, g) \in Seq(FullGroups)
      /\ Len(old) \in Nat /\ DOMAIN old = 1 .. Len(old)
      /\ DOMAIN Append(old, g) = 1 .. Len(old) + 1
      /\ Append(old, g)[Len(old) + 1] = g
      /\ \A k \in 1 .. Len(old) : Append(old, g)[k] = old[k]
  BY <1>2, <1>4
<1>7. Draws' = Draws /\ FullGroups' = FullGroups
  BY <1>1 DEF Draws, FullGroups
<1>8. TypeOK'
  <2>1. flags' \in Flags /\ place' \in {"generating", "writing", "exited", "panicked"}
        /\ writing' \subseteq Writers' /\ Len(clustersFile') <= 1 /\ Len(statsFile') <= 1
    BY <1>1 DEF TypeOK, Writers
  <2>2. g' \in Seq(Draws') /\ Len(g') <= 4
    BY <1>1
  <2>3. i' \in 0 .. flags'.validators
    BY <1>1, FlagTypes DEF Generating
  <2>4. \A id \in DOMAIN groups' : id \in FullGroups' /\ groups'[id] \in Seq(FullGroups')
    BY <1>3, <1>5, <1>6, <1>7 DEF TypeOK
  <2>5. QED
    BY <2>1, <2>2, <2>3, <2>4 DEF TypeOK
<1>9. DrawnApart'
  BY <1>1 DEF DrawnApart, Groups
<1>10. NamesAreSorted'
  <2>1. IsFiniteSet(DOMAIN groups')
    BY <1>5, FS_AddElement DEF NamesAreSorted
  <2>2. ASSUME NEW id \in DOMAIN groups', id # id0
        PROVE  ID(id) = id /\ \A k \in DOMAIN groups'[id] : ID(groups'[id][k]) = id
    BY <1>5, <2>2 DEF NamesAreSorted
  <2>3. ASSUME NEW k \in DOMAIN groups'[id0] PROVE ID(groups'[id0][k]) = id0
    <3>1. CASE k = Len(old) + 1
      BY <1>5, <1>6, <3>1 DEF id0
    <3>2. CASE k \in 1 .. Len(old)
      <4>1. id0 \in DOMAIN groups /\ old = groups[id0]
        BY <1>4, <3>2
      <4>2. QED
        BY <1>5, <1>6, <3>2, <4>1 DEF NamesAreSorted
    <3>3. QED
      BY <1>5, <1>6, <3>1, <3>2
  <2>4. QED
    BY <1>3, <2>1, <2>2, <2>3 DEF NamesAreSorted
<1>11. WithinLimit'
  <2>1. CASE id0 \in DOMAIN groups
    <3>1. DOMAIN groups' = DOMAIN groups
      BY <1>5, <2>1
    <3>2. QED
      BY <1>1, <3>1 DEF WithinLimit
  <2>2. CASE id0 \notin DOMAIN groups /\ ~Full
    <3>1. /\ Cardinality(DOMAIN groups') = Cardinality(DOMAIN groups) + 1
          /\ Cardinality(DOMAIN groups) \in Nat
      BY <1>5, <2>2, FS_AddElement, FS_CardinalityType DEF NamesAreSorted
    <3>2. flags.maxGroups > 0 => Cardinality(DOMAIN groups) < flags.maxGroups
      BY <2>2, <3>1, FlagTypes DEF Full
    <3>3. QED
      BY <1>1, <3>1, <3>2, FlagTypes DEF WithinLimit
  <2>3. QED
    BY <1>1, <2>1, <2>2
<1>12. SharesCounted'
  <2>1. \A id : id \in DOMAIN groups' <=> id \in DOMAIN groups \/ id = id0
    BY <1>5
  <2>2. SharePlaces' = SharePlaces \cup {new}
    <3>1. ASSUME NEW p \in SharePlaces' PROVE p \in SharePlaces \cup {new}
      <4>1. PICK id \in DOMAIN groups' : p \in {id} \X DOMAIN groups'[id]
        BY <3>1 DEF SharePlaces
      <4>2. CASE id # id0
        BY <1>5, <4>1, <4>2 DEF SharePlaces
      <4>3. CASE id = id0
        <5>1. PICK k \in 1 .. Len(old) + 1 : p = <<id0, k>>
          BY <1>5, <1>6, <4>1, <4>3
        <5>2. CASE k = Len(old) + 1
          BY <5>1, <5>2
        <5>3. CASE k # Len(old) + 1
          <6>1. k \in DOMAIN old
            BY <1>6, <5>3
          <6>2. id0 \in DOMAIN groups /\ p \in {id0} \X DOMAIN groups[id0]
            BY <1>4, <1>6, <5>1, <6>1
          <6>3. QED
            BY <6>2 DEF SharePlaces
        <5>4. QED
          BY <5>2, <5>3
      <4>4. QED
        BY <4>2, <4>3
    <3>2. ASSUME NEW p \in SharePlaces PROVE p \in SharePlaces'
      <4>1. PICK id \in DOMAIN groups : p \in {id} \X DOMAIN groups[id]
        BY <3>2 DEF SharePlaces
      <4>2. DOMAIN groups[id] \subseteq DOMAIN groups'[id]
        <5>1. CASE id = id0
          BY <1>4, <1>5, <1>6, <5>1
        <5>2. CASE id # id0
          BY <1>5, <5>2
        <5>3. QED
          BY <5>1, <5>2
      <4>3. p \in {id} \X DOMAIN groups'[id]
        BY <4>1, <4>2
      <4>4. QED
        BY <1>5, <4>3 DEF SharePlaces
    <3>3. new \in SharePlaces'
      <4>1. Len(old) + 1 \in DOMAIN groups'[id0]
        BY <1>5, <1>6
      <4>2. QED
        BY <1>5, <4>1 DEF SharePlaces
    <3>4. QED
      BY <3>1, <3>2, <3>3
  <2>3. new \notin SharePlaces
    <3>1. SUFFICES ASSUME new \in SharePlaces PROVE FALSE
      OBVIOUS
    <3>2. PICK id \in DOMAIN groups : new \in {id} \X DOMAIN groups[id]
      BY <3>1 DEF SharePlaces
    <3>3. id = id0 /\ Len(old) + 1 \in DOMAIN old
      BY <1>4, <3>2
    <3>4. QED
      BY <1>6, <3>3
  <2>4. /\ IsFiniteSet(SharePlaces \cup {new})
        /\ Cardinality(SharePlaces \cup {new}) = Cardinality(SharePlaces) + 1
    BY <2>3, FS_AddElement DEF SharesCounted
  <2>5. QED
    BY <1>1, <2>2, <2>4 DEF SharesCounted, ShareCount
<1>13. WrittenSoFar'
  BY <1>1 DEF WrittenSoFar, Generating
<1>14. QED
  BY <1>8, <1>9, <1>10, <1>11, <1>12, <1>13 DEF IInv

\* A step that leaves the groups and their index alone keeps what is said of them.
LEMMA GroupsKept ==
  ASSUME IInv, UNCHANGED <<flags, groups, i>>
  PROVE  /\ NamesAreSorted' /\ WithinLimit' /\ SharesCounted'
         /\ Draws' = Draws /\ ShareCount' = ShareCount
         /\ \A id \in DOMAIN groups' :
              id \in FullGroups' /\ groups'[id] \in Seq(FullGroups')
         /\ flags' \in Flags /\ i' \in 0 .. flags'.validators
<1>1. Draws' = Draws /\ FullGroups' = FullGroups /\ SharePlaces' = SharePlaces
  BY DEF Draws, FullGroups, SharePlaces
<1>2. NamesAreSorted' /\ WithinLimit' /\ SharesCounted' /\ ShareCount' = ShareCount
  BY <1>1 DEF IInv, NamesAreSorted, WithinLimit, SharesCounted, ShareCount
<1>3. QED
  BY <1>1, <1>2 DEF IInv, TypeOK

\* Every step keeps the invariant.
LEMMA StepInv == IInv /\ [Next]_vars => IInv'
<1> SUFFICES ASSUME IInv, [Next]_vars PROVE IInv'
  OBVIOUS
<1>1. ASSUME NEW o \in Draws, Draw(o) PROVE IInv'
  <2>1. UNCHANGED <<flags, groups, i, place, writing, stats, clustersFile, statsFile>>
    BY <1>1 DEF Draw, fileVars
  <2>2. g \in Groups /\ g \in Seq(Draws) /\ Len(g) <= 4 /\ Draws \in SUBSET (Nat \ {0})
    BY FlagTypes DEF IInv, TypeOK, DrawnApart
  <2>3. g' \in Groups /\ g' \in Seq(Draws) /\ Len(g') <= 4
    BY <1>1, <2>2, AppendKeepsApart DEF Draw
  <2>4. TypeOK'
    BY <2>1, <2>3, GroupsKept DEF IInv, TypeOK, Writers
  <2>5. WrittenSoFar'
    BY <2>1, GroupsKept DEF IInv, WrittenSoFar
  <2>6. QED
    BY <2>1, <2>3, <2>4, <2>5, GroupsKept DEF IInv, DrawnApart
<1>2. CASE AddShare
  BY <1>2, AddShareKeeps
<1>3. CASE Retry
  <2>1. /\ UNCHANGED <<flags, groups, i, place, writing, stats, clustersFile, statsFile>>
        /\ g' = <<>>
    BY <1>3 DEF Retry, SameIndex, fileVars
  <2>2. g' \in Groups /\ g' \in Seq(Draws') /\ Len(g') = 0
    BY <2>1 DEF Groups
  <2>3. TypeOK'
    BY <2>1, <2>2, GroupsKept DEF IInv, TypeOK, Writers
  <2>4. WrittenSoFar'
    BY <2>1, GroupsKept DEF IInv, WrittenSoFar
  <2>5. QED
    BY <2>1, <2>2, <2>3, <2>4, GroupsKept DEF IInv, DrawnApart
<1>4. CASE IntnPanics \/ WriteFails \/ Terminated \/ UNCHANGED vars
  <2>1. /\ UNCHANGED <<flags, g, groups, i, writing, stats, clustersFile, statsFile>>
        /\ place' \in {place, "panicked"}
    BY <1>4 DEF IntnPanics, WriteFails, Terminated, vars, genVars, fileVars
  <2>2. TypeOK'
    BY <2>1, GroupsKept DEF IInv, TypeOK, Writers
  <2>3. WrittenSoFar'
    BY <2>1, GroupsKept DEF IInv, WrittenSoFar
  <2>4. QED
    BY <2>1, <2>2, <2>3, GroupsKept DEF IInv, DrawnApart
<1>5. CASE StartWriters
  <2>1. /\ UNCHANGED <<flags, g, groups, i, clustersFile, statsFile>>
        /\ place = "generating" /\ i = flags.validators
        /\ place' = "writing" /\ writing' = {"clusters", "stats"}
        /\ stats'.ValidatorsCount = ShareCount
        /\ stats'.GroupsCount = Cardinality(DOMAIN groups)
    BY <1>5 DEF StartWriters, genVars, fileVars, Writers
  <2>2. TypeOK'
    BY <2>1, GroupsKept DEF IInv, TypeOK, Writers
  <2>3. WrittenSoFar'
    BY <2>1, GroupsKept DEF IInv, WrittenSoFar
  <2>4. QED
    BY <2>1, <2>2, <2>3, GroupsKept DEF IInv, DrawnApart
<1>6. CASE WriteClusters
  <2>1. /\ UNCHANGED <<flags, g, groups, i, place, stats, statsFile>>
        /\ place = "writing" /\ writing' = writing \ {"clusters"}
        /\ clustersFile' = <<groups>>
    BY <1>6 DEF WriteClusters, genVars
  <2>2. TypeOK'
    BY <2>1, GroupsKept DEF IInv, TypeOK, Writers
  <2>3. WrittenSoFar'
    BY <2>1, GroupsKept DEF IInv, WrittenSoFar
  <2>4. QED
    BY <2>1, <2>2, <2>3, GroupsKept DEF IInv, DrawnApart
<1>7. CASE WriteStats
  <2>1. /\ UNCHANGED <<flags, g, groups, i, place, stats, clustersFile>>
        /\ place = "writing" /\ writing' = writing \ {"stats"}
        /\ \E longer \in BOOLEAN : statsFile' = <<[stats |-> stats, tail |-> longer]>>
    BY <1>7 DEF WriteStats, genVars
  <2>2. TypeOK'
    BY <2>1, GroupsKept DEF IInv, TypeOK, Writers
  <2>3. WrittenSoFar'
    BY <2>1, GroupsKept DEF IInv, WrittenSoFar
  <2>4. QED
    BY <2>1, <2>2, <2>3, GroupsKept DEF IInv, DrawnApart
<1>8. CASE Exit
  <2>1. /\ UNCHANGED <<flags, g, groups, i, writing, stats, clustersFile, statsFile>>
        /\ place = "writing" /\ writing = {} /\ place' = "exited"
    BY <1>8 DEF Exit, genVars, fileVars
  <2>2. TypeOK'
    BY <2>1, GroupsKept DEF IInv, TypeOK, Writers
  <2>3. WrittenSoFar'
    BY <2>1, GroupsKept DEF IInv, WrittenSoFar
  <2>4. QED
    BY <2>1, <2>2, <2>3, GroupsKept DEF IInv, DrawnApart
<1>9. QED
  BY <1>1, <1>2, <1>3, <1>4, <1>5, <1>6, <1>7, <1>8 DEF Next, Write

-----------------------------------------------------------------------------
(* The theorems *)

\* The invariant that the others follow from.
THEOREM Inductive == Spec => []IInv
<1>1. QED
  BY InitInv, StepInv, PTL DEF Spec

\* The variables keep their types; in particular no more validators are counted
\* than were asked for, and every group has four different operators.
THEOREM TypeCorrect == Spec => []TypeOK
<1>1. IInv => TypeOK
  BY DEF IInv
<1>2. QED
  BY <1>1, Inductive, PTL

\* Whatever is drawn, and however often a group is thrown away, the groups stay
\* within maxGroups, no two have the same operators, all shares of a group have
\* its operators, and each validator counted has its share.
THEOREM GroupsAreGood == Spec => []GroupsWellFormed
<1>1. ASSUME IInv PROVE GroupsWellFormed
  <2>1. \A id \in DOMAIN groups : id \in FullGroups /\ groups[id] \in Seq(FullGroups)
    BY <1>1 DEF IInv, TypeOK
  <2>2. \A id \in DOMAIN groups : Cardinality(Range(id)) = 4
    BY <2>1, NameOfFull
  <2>3. ASSUME NEW id \in DOMAIN groups, NEW k \in DOMAIN groups[id]
        PROVE  Range(groups[id][k]) = Range(id)
    <3>1. groups[id][k] \in FullGroups /\ ID(groups[id][k]) = id
      BY <1>1, <2>1 DEF IInv, NamesAreSorted
    <3>2. Range(ID(groups[id][k])) = Range(groups[id][k])
      BY <3>1, NameOfFull
    <3>3. QED
      BY <3>1, <3>2
  <2>4. ASSUME NEW id \in DOMAIN groups, NEW other \in DOMAIN groups, Range(other) = Range(id)
        PROVE  other = id
    <3>1. id \in Groups /\ other \in Groups /\ InGroup(id) = InGroup(other)
      BY <2>1, <2>4 DEF FullGroups, Range, InGroup
    <3>2. ID(id) = ID(other)
      BY <3>1, GroupTellsName DEF ID
    <3>3. QED
      BY <1>1, <3>2 DEF IInv, NamesAreSorted
  <2>5. QED
    BY <1>1, <2>2, <2>3, <2>4 DEF IInv, WithinLimit, SharesCounted, GroupsWellFormed
<1>2. QED
  BY <1>1, Inductive, PTL

\* The two goroutines have written both files, whole and of the same groups, when
\* main returns.
THEOREM ExitIsWritten == Spec => []ExitMeansWritten
<1>1. ASSUME IInv PROVE ExitMeansWritten
  <2>1. SUFFICES ASSUME place = "exited"
                 PROVE  /\ clustersFile = <<groups>> /\ statsFile # <<>>
                        /\ statsFile[1].stats.ValidatorsCount = flags.validators
                        /\ statsFile[1].stats.GroupsCount = Cardinality(DOMAIN clustersFile[1])
    BY DEF ExitMeansWritten
  <2>2. /\ clustersFile = <<groups>> /\ statsFile # <<>> /\ statsFile[1].stats = stats
        /\ stats.ValidatorsCount = flags.validators
        /\ stats.GroupsCount = Cardinality(DOMAIN groups)
    BY <1>1, <2>1 DEF IInv, WrittenSoFar, SharesCounted
  <2>3. clustersFile[1] = groups
    BY <2>2
  <2>4. QED
    BY <2>2, <2>3
<1>2. QED
  BY <1>1, Inductive, PTL

\* RandGroup cannot find four operators among fewer, and main waits for it for
\* ever: neither a file is written nor an error raised.
THEOREM TooFewNeverEnd == Spec => []NeverEnough
<1>1. Init => NeverEnough
  BY DEF Init, NeverEnough
<1>2. ASSUME IInv, NeverEnough, [Next]_vars PROVE NeverEnough'
  <2>1. SUFFICES ASSUME TooFew' PROVE place' = "generating"
    BY DEF NeverEnough
  <2>2. flags' = flags
    BY <1>2 DEF Next, Write, Draw, IntnPanics, AddShare, Retry, StartWriters, WriteClusters,
                WriteStats, WriteFails, Exit, Terminated, vars, genVars, fileVars
  <2>3. flags.operators \in 1 .. 3 /\ flags.validators > 0 /\ place = "generating"
    BY <1>2, <2>1, <2>2 DEF TooFew, NeverEnough
  <2>4. i # flags.validators
    <3>1. SUFFICES ASSUME i > 0 PROVE FALSE
      BY <1>2, <2>3, FlagTypes DEF IInv
    <3>2. SharePlaces # {}
      BY <1>2, <3>1, FS_EmptySet DEF IInv, SharesCounted, ShareCount
    <3>3. PICK id \in DOMAIN groups : TRUE
      BY <3>2 DEF SharePlaces
    <3>4. id \in FullGroups
      BY <1>2 DEF IInv, TypeOK
    <3>5. Range(id) \in SUBSET (1 .. flags.operators) /\ Cardinality(Range(id)) = 4
      BY <3>4, NameOfFull DEF FullGroups, Draws
    <3>6. \A n \in Nat : IsFiniteSet(1 .. n) /\ Cardinality(1 .. n) = n
      BY FS_Interval
    <3>7. IsFiniteSet(1 .. flags.operators) /\ Cardinality(1 .. flags.operators) <= 3
      BY <2>3, <3>6
    <3>8. Cardinality(Range(id)) <= Cardinality(1 .. flags.operators)
      BY <3>5, <3>7, FS_Subset
    <3>9. Cardinality(1 .. flags.operators) \in Nat
      BY <3>7, FS_CardinalityType
    <3>10. QED
      BY <3>5, <3>7, <3>8, <3>9
  <2>5. QED
    BY <1>2, <2>3, <2>4 DEF Next, Write, Draw, IntnPanics, AddShare, Retry, StartWriters,
        WriteClusters, WriteStats, WriteFails, Exit, Terminated, vars, genVars, fileVars
<1>3. QED
  BY <1>1, <1>2, Inductive, PTL DEF Spec

=============================================================================
