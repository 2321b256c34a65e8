----------------------------- MODULE ClusterGen -----------------------------
(***************************************************************************)
(* The generator of the cluster file (utils/generate.go, cmd/gen/main.go). *)
(* It draws groups of four different operators until every validator has   *)
(* one, throwing a new group away once there are maxGroups of them; then   *)
(* two goroutines write the groups and the statistics, and main waits for  *)
(* both.  A key (BLS) is left out: a share is the array of its operators.  *)
(* rand.Intn is a nondeterministic choice.  Group.ID is the sorted array,  *)
(* as groupID of the test is.                                              *)
(***************************************************************************)
EXTENDS ClusterData, FiniteSets, Functions

CONSTANT Flags      \* command lines: operators (-n), validators (-v), groups (-g)

ASSUME FlagsAssumption ==
    Flags \subseteq [operators : Nat, validators : Nat, maxGroups : Nat]

VARIABLES
    flags,          \* the flags of this run
    g,              \* RandGroup's array, as far as it is filled
    i,              \* GenerateGroups' index: validators that have a group
    groups,         \* groups[id]: the shares of a group
    place,          \* of main: "generating", "writing", "exited", "panicked"
    writing,        \* the goroutines main waits for
    stats,          \* what main has counted
    clustersFile,   \* .clusters.json: what was written to it, in order
    statsFile       \* .stats.yaml, with whether an older file's tail follows

genVars == <<g, i, groups>>
fileVars == <<clustersFile, statsFile>>
vars == <<flags, genVars, place, writing, stats, fileVars>>

Init ==
    /\ flags \in Flags
    /\ g = <<>>
    /\ i = 0
    /\ groups = <<>>
    /\ place = "generating"
    /\ writing = {}
    /\ stats = [ValidatorsCount |-> 0, OperatorsCount |-> 0, GroupsCount |-> 0]
    /\ clustersFile = <<>>
    /\ statsFile = <<>>

-----------------------------------------------------------------------------
(* Drawing a group *)

\* Faulty variant: the draw is not moved up by one.
DrawsFromZero == 0 .. flags.operators - 1

Draws == 1 .. flags.operators

\* Group.Append: the array is unchanged if it refuses the operator.
Appended(h, o) == IF o = 0 \/ o \in Range(h) \/ Len(h) = 4 THEN h ELSE Append(h, o)

\* Faulty variant: the loop takes one turn too many.
GeneratingOneMore == place = "generating" /\ i <= flags.validators

Generating == place = "generating" /\ i < flags.validators

\* One turn of RandGroup's inner loop.
Draw(o) ==
    /\ Generating
    /\ Len(g) < 4
    /\ g' = Appended(g, o)
    /\ UNCHANGED <<flags, i, groups, place, writing, stats, fileVars>>

\* Without any operator, rand.Intn(0) panics.
IntnPanics ==
    /\ Generating
    /\ flags.operators = 0
    /\ place' = "panicked"
    /\ UNCHANGED <<flags, genVars, writing, stats, fileVars>>

\* Faulty variant: the operators keep the order they were drawn in.
AsDrawn(h) == h

ID(h) == groupID(h)

\* Faulty variant: the comparison lets one group more in.
FullOneLater == flags.maxGroups > 0 /\ Cardinality(DOMAIN groups) > flags.maxGroups

Full == flags.maxGroups > 0 /\ Cardinality(DOMAIN groups) >= flags.maxGroups

Shares(id) == IF id \in DOMAIN groups THEN groups[id] ELSE <<>>

AddShare ==
    /\ Generating
    /\ Len(g) = 4
    /\ ID(g) \in DOMAIN groups \/ ~Full
    /\ groups' = [id \in DOMAIN groups \cup {ID(g)} |->
                    IF id = ID(g) THEN Append(Shares(id), g) ELSE groups[id]]
    /\ i' = i + 1
    /\ g' = <<>>
    /\ UNCHANGED <<flags, place, writing, stats, fileVars>>

\* Faulty variant: the index moves on.
Skip == i + 1

SameIndex == i

\* Another new group would be one too many: the index is taken back.
Retry ==
    /\ Generating
    /\ Len(g) = 4
    /\ ID(g) \notin DOMAIN groups /\ Full
    /\ i' = SameIndex
    /\ g' = <<>>
    /\ UNCHANGED <<flags, groups, place, writing, stats, fileVars>>

-----------------------------------------------------------------------------
(* Writing the files *)

\* Where the shares are: their group and their index in it.
SharePlaces == UNION {{id} \X DOMAIN groups[id] : id \in DOMAIN groups}

ShareCount == Cardinality(SharePlaces)

\* Faulty variant: the wait group counts one of the goroutines.
OneWriter == {"clusters"}

Writers == {"clusters", "stats"}

StartWriters ==
    /\ place = "generating"
    /\ i = flags.validators
    /\ stats' = [ValidatorsCount |-> ShareCount, OperatorsCount |-> flags.operators,
                 GroupsCount |-> Cardinality(DOMAIN groups)]
    /\ place' = "writing"
    /\ writing' = Writers
    /\ UNCHANGED <<flags, genVars, fileVars>>

\* os.WriteFile truncates the file; json.Marshal has copied the groups.
WriteClusters ==
    /\ place = "writing"
    /\ clustersFile = <<>>
    /\ clustersFile' = <<groups>>
    /\ writing' = writing \ {"clusters"}
    /\ UNCHANGED <<flags, genVars, place, stats, statsFile>>

\* os.OpenFile without O_TRUNC: an older file keeps what is not overwritten.
WriteStats ==
    /\ place = "writing"
    /\ statsFile = <<>>
    /\ \E longer \in BOOLEAN : statsFile' = <<[stats |-> stats, tail |-> longer]>>
    /\ writing' = writing \ {"stats"}
    /\ UNCHANGED <<flags, genVars, place, stats, clustersFile>>

\* A file cannot be opened or written: the panic of a goroutine ends the process.
WriteFails ==
    /\ place = "writing"
    /\ clustersFile = <<>> \/ statsFile = <<>>
    /\ place' = "panicked"
    /\ UNCHANGED <<flags, genVars, writing, stats, fileVars>>

\* wg.Wait returns, and main with it.
Exit ==
    /\ place = "writing"
    /\ writing = {}
    /\ place' = "exited"
    /\ UNCHANGED <<flags, genVars, writing, stats, fileVars>>

Terminated == place \in {"exited", "panicked"} /\ UNCHANGED vars

-----------------------------------------------------------------------------

Write == WriteClusters \/ WriteStats \/ Exit

Next ==
    \/ \E o \in Draws : Draw(o)
    \/ IntnPanics
    \/ AddShare \/ Retry
    \/ StartWriters \/ Write \/ WriteFails
    \/ Terminated

Spec == Init /\ [][Next]_vars

\* A draw that is not refused.
NewOperator(o) == Appended(g, o) # g /\ Draw(o)

\* Array h can still become a group that is not thrown away.
Useful(h) == ~Full \/ \E id \in DOMAIN groups : Range(h) \subseteq Range(id)

\* The k-th draw brings a useful array nearer to a group.
LuckyDraw(k) == Len(g) = k /\ \E o \in Draws : Useful(Appended(g, o)) /\ NewOperator(o)

\* The draws are random: whenever a lucky draw is possible again and again, one
\* happens at last.  Without that RandGroup may draw the same operator for ever.
FairSpec ==
    /\ Spec
    /\ WF_vars(\E o \in Draws : NewOperator(o))
    /\ \A k \in 0 .. 3 : SF_vars(LuckyDraw(k))
    /\ WF_vars(IntnPanics \/ AddShare \/ Retry \/ StartWriters)
    /\ WF_vars(Write)

-----------------------------------------------------------------------------
(* Properties *)

FullGroups == {h \in Groups : Len(h) = 4 /\ Range(h) \subseteq Draws}

TypeOK ==
    /\ flags \in Flags
    /\ g \in Seq(Draws) /\ Len(g) <= 4
    /\ i \in 0 .. flags.validators
    /\ \A id \in DOMAIN groups : id \in FullGroups /\ groups[id] \in Seq(FullGroups)
    /\ place \in {"generating", "writing", "exited", "panicked"}
    /\ writing \subseteq Writers
    /\ Len(clustersFile) <= 1 /\ Len(statsFile) <= 1

\* Every group has four different operators, its shares are kept under a name
\* that depends on them alone, whatever order they were drawn in, and no two
\* names stand for the same operators; there are never more groups than asked
\* for, zero standing for no limit; and throwing groups away loses no validator:
\* each one counted has its share.
GroupsWellFormed ==
    /\ flags.maxGroups > 0 => Cardinality(DOMAIN groups) <= flags.maxGroups
    /\ ShareCount = i
    /\ \A id \in DOMAIN groups :
        /\ Cardinality(Range(id)) = 4
        /\ \A k \in DOMAIN groups[id] : Range(groups[id][k]) = Range(id)
        /\ \A other \in DOMAIN groups : Range(other) = Range(id) => other = id

\* When the program exits normally both files are complete and agree with each
\* other, although two goroutines write them and main does nothing but wait.
ExitMeansWritten ==
    place = "exited" =>
        /\ clustersFile = <<groups>>
        /\ statsFile # <<>>
        /\ statsFile[1].stats.ValidatorsCount = flags.validators
        /\ statsFile[1].stats.GroupsCount = Cardinality(DOMAIN clustersFile[1])

\* The program ends exactly when it needs no group or has four operators to draw
\* one from, or none at all; maxGroups delays it but does not hold it up.
TooFew == flags.operators \in 1 .. 3 /\ flags.validators > 0

Ends == <>(place \in {"exited", "panicked"})
EndsWithFourOperators ==
    /\ flags.operators >= 4 \/ flags.validators = 0 \/ flags.operators = 0 => Ends
    /\ TooFew => ~Ends

\* The operators of the array are different, as Append sees to.
DrawnApart == g \in Groups

\* Each group is kept under the name that all of its shares have.
NamesAreSorted ==
    /\ IsFiniteSet(DOMAIN groups)
    /\ \A id \in DOMAIN groups :
        ID(id) = id /\ \A k \in DOMAIN groups[id] : ID(groups[id][k]) = id

WithinLimit == flags.maxGroups > 0 => Cardinality(DOMAIN groups) <= flags.maxGroups

SharesCounted == IsFiniteSet(SharePlaces) /\ ShareCount = i

\* What has been counted and written is of the groups as they are now, for the
\* generation is over; a writer main no longer waits for has written its file.
WrittenSoFar ==
    /\ place = "generating" => statsFile = <<>>
    /\ place \in {"writing", "exited"} =>
        /\ i = flags.validators
        /\ stats.ValidatorsCount = ShareCount
        /\ stats.GroupsCount = Cardinality(DOMAIN groups)
        /\ "clusters" \in writing \/ clustersFile = <<groups>>
        /\ "stats" \in writing \/ statsFile # <<>>
        /\ statsFile # <<>> => statsFile[1].stats = stats
    /\ place = "exited" => writing = {}

\* Too few operators are drawn for ever.
NeverEnough == TooFew => place = "generating"

IInv ==
    /\ TypeOK
    /\ DrawnApart
    /\ NamesAreSorted
    /\ WithinLimit
    /\ SharesCounted
    /\ WrittenSoFar

=============================================================================
