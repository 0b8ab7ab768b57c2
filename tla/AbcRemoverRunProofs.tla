------------------------ MODULE AbcRemoverRunProofs ------------------------
(***************************************************************************)
(* Why a removed check never fails.  A removed check was proved from the   *)
(* pis' edges (AbcRemoverProofs).  What is left is to show that the edges  *)
(* describe the run: at any moment of it the pis whose landing blocks      *)
(* dominate the block being executed can be given the values of their      *)
(* operands, and the rest of the pis some values below all integers, so    *)
(* that every edge of the graph holds, whatever path led to the block.     *)
(***************************************************************************)
EXTENDS AbcRemoverProofs

(***************************************************************************)
(* Dominance and paths.                                                    *)
(***************************************************************************)

\* An edge that dominates a block dominates what that block dominates.
LEMMA DominanceThroughBlock ==
  ASSUME NEW p, NEW c, NEW s, NEW k, NEW d,
         LandingDominates(p, c, s, k), BlockDominates(p, k, d)
  PROVE  LandingDominates(p, c, s, d)
<1>1. PICK r1 \in SUBSET (Blocks \ {k}) :
        /\ Entry \in r1
        /\ \A b \in r1 : \A t \in Sides :
             <<b, t>> # <<c, s>> /\ p.branch[b][t] \in Blocks => p.branch[b][t] \in r1
  BY DEF LandingDominates
<1>2. CASE k = d
  BY <1>2
<1>3. CASE k # d
  <2>1. PICK r2 \in SUBSET (Blocks \ {k, d}) :
          /\ Entry \in r2
          /\ \A r \in r2 : \A t \in Sides :
               p.branch[r][t] \in Blocks \ {k} => p.branch[r][t] \in r2
    BY <1>1, <1>3 DEF BlockDominates
  <2>2. \A b \in r1 \cap r2 : \A t \in Sides :
          <<b, t>> # <<c, s>> /\ p.branch[b][t] \in Blocks =>
            p.branch[b][t] \in r1 \cap r2
    BY <1>1, <2>1
  <2>3. r1 \cap r2 \in SUBSET (Blocks \ {d}) /\ Entry \in r1 \cap r2
    BY <1>1, <2>1
  <2> QED BY <2>2, <2>3 DEF LandingDominates
<1> QED BY <1>2, <1>3

\* No edge dominates the entry.
LEMMA EntryUndominated ==
  ASSUME NEW p, NEW c, NEW s
  PROVE  ~LandingDominates(p, c, s, Entry)
BY DEF LandingDominates

\* An edge that dominates the end of a step dominated its start already, or is
\* the edge that the step took.
LEMMA DominanceStep ==
  ASSUME NEW p, NEW c, NEW s, NEW b \in Blocks, NEW t \in Sides,
         p.branch[b][t] \in Blocks, LandingDominates(p, c, s, p.branch[b][t])
  PROVE  LandingDominates(p, c, s, b) \/ (c = b /\ s = t)
<1> SUFFICES ASSUME ~LandingDominates(p, c, s, b) PROVE c = b /\ s = t
  OBVIOUS
<1>1. PICK r \in SUBSET (Blocks \ {p.branch[b][t]}) :
        /\ Entry \in r
        /\ \A q \in r : \A u \in Sides :
             <<q, u>> # <<c, s>> /\ p.branch[q][u] \in Blocks => p.branch[q][u] \in r
  BY DEF LandingDominates
<1>2. b \in r
  <2>1. r \notin SUBSET (Blocks \ {b})
    BY <1>1 DEF LandingDominates
  <2> QED BY <1>1, <2>1
<1>3. <<b, t>> = <<c, s>>
  BY <1>1, <1>2
<1> QED BY <1>3

\* The operands of a branch that a landing block does not leave are defined
\* before that branch: entering a block that one of its sides dominates cannot
\* redefine them.
LEMMA OperandsSettled ==
  ASSUME NEW p \in Programs, NEW c \in Blocks, NEW s, NEW d \in Blocks,
         LandingDominates(p, c, s, d), NEW i \in {1, 2},
         IcmpOf(p, c).ops[i] \in Vars
  PROVE  p.defs[IcmpOf(p, c).ops[i]] # d
<1>1. p.branch[c].cond \in Blocks
  BY ProgramParts
<1>2. /\ BlockDominates(p, p.defs[IcmpOf(p, c).ops[i]], p.branch[c].cond)
      /\ BlockDominates(p, p.branch[c].cond, c)
  BY <1>1, ProgramsAssumption DEF WellFormed, IcmpOf
<1>3. SUFFICES ASSUME p.defs[IcmpOf(p, c).ops[i]] = d PROVE FALSE
  OBVIOUS
<1>4. LandingDominates(p, c, s, p.branch[c].cond)
  BY <1>2, <1>3, DominanceThroughBlock
<1>5. LandingDominates(p, c, s, c)
  BY <1>2, <1>4, DominanceThroughBlock
<1> QED BY <1>5, DominanceIrreflexive

(***************************************************************************)
(* The run.                                                                *)
(***************************************************************************)

\* Wherever the run is, the branches behind it whose side dominates the place
\* were decided that way, and would be again: their operands are unchanged.
PathDecided ==
  stage = "called" /\ at \in Blocks =>
    \A c \in Blocks : \A s \in Sides :
      LandingDominates(program, c, s, at) =>
        (Evaluates(IcmpOf(program, c)) <=> s = "T")

\* Entering a block leaves the comparisons as they are whose side dominates it.
LEMMA EvaluatesSettled ==
  ASSUME PassTypeOK, NEW d \in Blocks, EnterBlock(d), NEW c \in Blocks, NEW s,
         LandingDominates(program, c, s, d)
  PROVE  Evaluates(IcmpOf(program, c))' <=> Evaluates(IcmpOf(program, c))
<1> DEFINE icmp == IcmpOf(program, c)
<1>1. program' = program /\ program \in Programs
  BY DEF EnterBlock, passVars, PassTypeOK
<1>2. icmp \in ICmps
  BY <1>1, ProgramParts
<1>3. ASSUME NEW i \in {1, 2} PROVE Value(icmp.ops[i])' = Value(icmp.ops[i])
  <2>1. icmp.ops[i] \in Vars \cup Constants
    BY <1>2 DEF ICmps
  <2>2. icmp.ops[i] \in Vars => val'[icmp.ops[i]] = val[icmp.ops[i]]
    BY <1>1, OperandsSettled DEF EnterBlock
  <2>3. icmp' = icmp
    BY <1>1
  <2> HIDE DEF icmp
  <2> QED BY <2>1, <2>2, <2>3 DEF Value
<1>4. icmp' = icmp
  BY <1>1
<1> HIDE DEF icmp
<1>5. Evaluates(icmp)' <=> Evaluates(icmp)
  BY <1>3, <1>4 DEF Evaluates
<1> QED BY <1>5 DEF icmp

LEMMA PathAfterEnter ==
  ASSUME PassTypeOK, PathDecided, stage = "called", at \in Blocks, NEW t \in Sides,
         Evaluates(IcmpOf(program, at)) <=> t = "T",
         EnterBlock(program.branch[at][t])
  PROVE  PathDecided'
<1>1. /\ UNCHANGED <<program, stage>> /\ at' = program.branch[at][t]
      /\ program \in Programs
  BY DEF EnterBlock, passVars, PassTypeOK
<1> SUFFICES ASSUME at' \in Blocks, NEW c \in Blocks, NEW s \in Sides,
                    LandingDominates(program, c, s, at')
             PROVE  Evaluates(IcmpOf(program, c))' <=> s = "T"
  BY <1>1 DEF PathDecided
<1>2. Evaluates(IcmpOf(program, c))' <=> Evaluates(IcmpOf(program, c))
  BY <1>1, EvaluatesSettled
<1>3. CASE LandingDominates(program, c, s, at)
  BY <1>2, <1>3 DEF PathDecided
<1>4. CASE ~LandingDominates(program, c, s, at)
  <2>1. c = at /\ s = t
    BY <1>1, <1>4, DominanceStep
  <2> QED BY <1>2, <2>1
<1> QED BY <1>3, <1>4

LEMMA StepPath == PassTypeOK /\ PathDecided /\ [PassNext]_allVars => PathDecided'
<1> SUFFICES ASSUME PassTypeOK, PathDecided, [PassNext]_allVars PROVE PathDecided'
  OBVIOUS
<1>1. CASE UNCHANGED allVars
  <2>1. UNCHANGED <<program, stage, at, val>>
    BY <1>1 DEF allVars, passVars, runVars
  <2>2. ASSUME NEW c
        PROVE  Evaluates(IcmpOf(program, c))' <=> Evaluates(IcmpOf(program, c))
    BY <2>1 DEF Evaluates, Value, IcmpOf
  <2> QED BY <2>1, <2>2 DEF PathDecided
<1>2. CASE Pass
  <2>1. stage' # "called"
    BY <1>2 DEF Pass, FindComparisons, InsertPis, Substitute, AddInequalities,
         AddInequality, FinishGraph, EndOf, TestBranch, SkipBranch, Proving, Verdict,
         RemovePi, RemoveBranch, Done, NextLoop, passVars
  <2> QED BY <2>1 DEF PathDecided
<1>3. CASE Call
  <2>1. at' = Entry
    BY <1>3 DEF Call
  <2> QED BY <2>1, EntryUndominated DEF PathDecided
<1>4. CASE Branch
  <2> DEFINE t == IF Evaluates(IcmpOf(program, at)) THEN "T" ELSE "F"
  <2>1. /\ stage = "called" /\ at \in Blocks /\ EnterBlock(program.branch[at][t])
        /\ program \in Programs
    BY <1>4 DEF Branch, PassTypeOK
  <2>2. t \in Sides /\ (Evaluates(IcmpOf(program, at)) <=> t = "T")
    BY DEF Sides
  <2> HIDE DEF t
  <2> QED BY <2>1, <2>2, PathAfterEnter
<1> QED BY <1>1, <1>2, <1>3, <1>4 DEF PassNext

(***************************************************************************)
(* The pass: a branch is removed on a proof about operands of its own.     *)
(***************************************************************************)

ProgramEdges(p) ==
  UNION {{EdgesOf(p, c)[n] : n \in DOMAIN EdgesOf(p, c)} : c \in Compared(p)}

\* The graph speaks of this function and no other.
EdgesOfProgram ==
  /\ \A b \in Values : \A i \in 1 .. Len(incomingEdges[b]) :
       [a |-> incomingEdges[b][i].a, b |-> b, c |-> incomingEdges[b][i].c]
         \in ProgramEdges(program)
  /\ \A k \in 1 .. Len(todo) : todo[k] \in ProgramEdges(program)

\* The graph is built first; the question in hand is about the branch in hand.
Phased ==
  /\ stage \in {"find", "insert", "substitute", "inequalities"} <=> pc = "build"
  /\ pc = "build" => branchesToRemove = {}
  /\ stage = "demand" /\ pc \notin {"build", "idle"} =>
       goal = QueryOf(CurrentIcmp(comparisons[pos]))

\* v is an operand of the branch b, or a pi of it that dominates b.
StandsFor(p, v, original, b) ==
  \/ v = original
  \/ v \in PiIds /\ Operand(p, v) = original /\ LandingDominates(p, v.c, v.s, b)

\* Each branch to be removed has been proved of values that stand for its
\* operands.
Justified ==
  \A b \in branchesToRemove :
    /\ b \in Compared(program)
    /\ \E v, w \in Values :
         /\ StandsFor(program, v, IcmpOf(program, b).ops[1], b)
         /\ StandsFor(program, w, IcmpOf(program, b).ops[2], b)
         /\ Entails(Graph, QueryOf([pred |-> IcmpOf(program, b).pred, ops |-> <<v, w>>]))

RemovalInv == EdgesOfProgram /\ Phased /\ Justified

LEMMA StepEdgesOfProgram ==
  PassInv /\ TypeOK /\ EdgesOfProgram /\ [PassNext]_allVars => EdgesOfProgram'
<1> SUFFICES ASSUME PassInv, TypeOK, EdgesOfProgram, [PassNext]_allVars
             PROVE  EdgesOfProgram'
  OBVIOUS
<1>0. /\ todo \in Seq(EdgeInputs) /\ EdgeInputs \subseteq Inequalities
      /\ Len(todo) \in Nat
  BY InputsAssumption, LenProperties DEF PassInv, PassTypeOK, Inequalities
<1>1. CASE AddInequality
  <2>1. /\ Head(todo) = todo[1] /\ todo[1] \in ProgramEdges(program)
        /\ todo[1] \in Inequalities /\ Add(todo[1]) /\ program' = program
    BY <1>0, <1>1 DEF AddInequality, EdgesOfProgram
  <2>2. \A b \in Values : \A i \in 1 .. Len(incomingEdges'[b]) :
          [a |-> incomingEdges'[b][i].a, b |-> b, c |-> incomingEdges'[b][i].c]
            \in ProgramEdges(program)
    BY <2>1, EdgesAfterAdd DEF EdgesOfProgram
  <2>3. \A k \in 1 .. Len(todo') : todo'[k] = todo[k + 1] /\ k + 1 \in 1 .. Len(todo)
    BY <1>0, <1>1 DEF AddInequality
  <2> QED BY <2>1, <2>2, <2>3 DEF EdgesOfProgram
<1>2. CASE AddInequalities
  <2>1. /\ comparisons[pos] \in Compared(program)
        /\ UNCHANGED <<incomingEdges, program>>
        /\ todo' = EdgesOf(program, comparisons[pos])
    BY <1>2, ComparisonAt DEF AddInequalities, PassInv, LoopsInRange, vars
  <2>2. EdgesOf(program, comparisons[pos]) \in Seq(EdgeInputs)
    BY <2>1, EdgesOfType DEF PassInv, PassTypeOK
  <2>3. \A k \in 1 .. Len(todo') : todo'[k] \in ProgramEdges(program)
    BY <2>1, <2>2 DEF ProgramEdges
  <2> QED BY <2>1, <2>3 DEF EdgesOfProgram
<1>3. CASE UNCHANGED <<incomingEdges, program, todo>>
  BY <1>3 DEF EdgesOfProgram
<1>4. CASE FinishGraph \/ TestBranch \/ Proving \/ Verdict
  <2>1. UNCHANGED <<incomingEdges, program, todo>>
    BY <1>4 DEF FinishGraph, Finish, TestBranch, DemandProve, Proving, AlreadyProven,
       NoIncomingEdges, ActiveCycle, Return, Visit, Descend, FoldResult, Leave,
       Verdict, Conclude, graphVars, passVars
  <2> QED BY <1>3, <2>1
<1>5. ASSUME NEW b \in Blocks, RemoveBranch(b) PROVE EdgesOfProgram'
  BY <1>3, <1>5 DEF RemoveBranch, vars
<1>6. CASE \/ FindComparisons \/ InsertPis \/ Substitute \/ SkipBranch \/ RemovePi
           \/ Done \/ NextLoop \/ Call \/ Branch \/ UNCHANGED allVars
  <2>1. UNCHANGED <<incomingEdges, program, todo>>
    BY <1>6 DEF FindComparisons, InsertPis, Substitute, SkipBranch, RemovePi, Done,
       NextLoop, Call, Branch, EnterBlock, allVars, passVars, vars
  <2> QED BY <1>3, <2>1
<1> QED
  BY <1>1, <1>2, <1>4, <1>5, <1>6 DEF PassNext, Pass

LEMMA StepPhased == PassInv /\ Phased /\ [PassNext]_allVars => Phased'
<1> SUFFICES ASSUME PassInv, Phased, [PassNext]_allVars PROVE Phased'
  OBVIOUS
<1>1. CASE UNCHANGED <<stage, pc, branchesToRemove, goal, program, icmps, comparisons, pos>>
  BY <1>1 DEF Phased, CurrentIcmp
<1>2. CASE FindComparisons \/ InsertPis \/ Substitute \/ AddInequalities \/ AddInequality
  BY <1>2 DEF Phased, FindComparisons, InsertPis, Substitute, AddInequalities,
       AddInequality, Add, vars
<1>3. CASE FinishGraph
  BY <1>3 DEF Phased, FinishGraph, EndOf, Finish
<1>4. CASE TestBranch
  BY <1>4 DEF Phased, TestBranch, DemandProve, CurrentIcmp, passVars
<1>5. CASE Proving
  <2>1. /\ pc \notin {"build", "idle"} /\ pc' \notin {"build", "idle"}
        /\ UNCHANGED <<goal, stage, branchesToRemove, program, icmps, comparisons, pos>>
    BY <1>5 DEF Proving, AlreadyProven, NoIncomingEdges, ActiveCycle, Return, Visit,
         Descend, FoldResult, Leave, passVars
  <2> QED BY <2>1 DEF Phased, CurrentIcmp
<1>6. CASE Verdict \/ SkipBranch
  BY <1>6 DEF Phased, Verdict, Conclude, SkipBranch, vars
<1>7. CASE RemovePi \/ Done \/ Call
  BY <1>7 DEF Phased, RemovePi, Done, Call, vars
<1>8. CASE NextLoop
  BY <1>8 DEF Phased, NextLoop, EndOf, vars
<1>9. ASSUME NEW b \in Blocks, RemoveBranch(b) PROVE Phased'
  BY <1>9 DEF Phased, RemoveBranch, vars
<1>10. CASE Branch \/ UNCHANGED allVars
  BY <1>1, <1>10 DEF Branch, EnterBlock, allVars, passVars, vars
<1> QED
  BY <1>2, <1>3, <1>4, <1>5, <1>6, <1>7, <1>8, <1>9, <1>10 DEF PassNext, Pass

\* An operand of the icmp of b, as it has been rewritten, stands for the original.
LEMMA CurrentStandsFor ==
  ASSUME PassInv, SubstitutionValid, NEW b \in Blocks, NEW i \in {1, 2}
  PROVE  /\ CurrentIcmp(b).ops[i] \in Values
         /\ StandsFor(program, CurrentIcmp(b).ops[i], IcmpOf(program, b).ops[i], b)
<1> DEFINE k == program.branch[b].cond
<1>1. k \in Blocks /\ program \in Programs
  BY ProgramParts DEF PassInv, PassTypeOK
<1>2. BlockDominates(program, k, b)
  BY <1>1, ProgramsAssumption DEF WellFormed
<1> HIDE DEF k
<1>3. Renames(program, piValue, icmps[k].ops[i], program.icmps[k].ops[i], k)
  BY <1>1 DEF SubstitutionValid
<1>4. icmps[k].ops[i] \in Values
  BY <1>1 DEF PassInv, PassTypeOK
<1>5. StandsFor(program, icmps[k].ops[i], program.icmps[k].ops[i], b)
  BY <1>2, <1>3, DominanceThroughBlock DEF Renames, StandsFor
<1> QED BY <1>4, <1>5 DEF k, CurrentIcmp, IcmpOf

LEMMA StepJustified ==
  PassInv /\ TypeOK /\ RenamingInv /\ Phased /\ Justified /\ AnswersSound'
    /\ [PassNext]_allVars => Justified'
<1> SUFFICES ASSUME PassInv, TypeOK, RenamingInv, Phased, Justified, AnswersSound',
                    [PassNext]_allVars
             PROVE  Justified'
  OBVIOUS
<1>1. CASE pc = "build"
  <2>1. branchesToRemove' = {}
    <3>1. stage \in {"find", "insert", "substitute", "inequalities"}
      BY <1>1 DEF Phased
    <3>2. ~TestBranch /\ ~SkipBranch /\ ~Proving /\ ~Verdict /\ ~RemovePi /\ ~Done /\ ~Call
          /\ ~Branch /\ \A b \in Blocks : ~RemoveBranch(b)
      BY <3>1 DEF TestBranch, SkipBranch, Proving, Verdict, RemovePi, Done, Call,
                  Branch, RemoveBranch
    <3> QED
      BY <1>1, <3>2 DEF Phased, PassNext, Pass, FindComparisons, InsertPis, Substitute,
           AddInequalities, AddInequality, FinishGraph, NextLoop, allVars, passVars
  <2> QED BY <2>1 DEF Justified
<1>2. CASE pc # "build"
  <2>1. program' = program
    BY DEF PassNext, Pass, FindComparisons, InsertPis, Substitute, AddInequalities,
      AddInequality, FinishGraph, TestBranch, SkipBranch, Proving, Verdict, RemovePi,
      RemoveBranch, Done, NextLoop, Call, Branch, EnterBlock, allVars, passVars
  <2>2. Graph' = Graph
    <3>1. ~\E e \in EdgeInputs : Add(e)
      BY <1>2 DEF Add
    <3> QED BY <3>1, PassStepIsProverStep, SameGraph
  <2>3. CASE branchesToRemove' = branchesToRemove
    BY <2>1, <2>2, <2>3 DEF Justified
  <2>4. CASE Verdict /\ Proved(ret)
    <3> DEFINE b == comparisons[pos]
    <3>1. branchesToRemove' = branchesToRemove \cup {b}
      BY <2>4 DEF Verdict
    <3>2. b \in Compared(program) /\ b \in Blocks
      BY <2>4, ComparisonAt DEF Verdict, Conclude, PassInv, LoopsInRange
    <3>3. goal = QueryOf(CurrentIcmp(b))
      BY <2>4 DEF Verdict, Conclude, Phased
    <3> HIDE DEF b
    <3>4. Entails(Graph, goal)
      <4>1. /\ answered' = Append(answered, [q |-> goal, l |-> ret])
            /\ answered \in Seq([q : Inequalities, l : L])
            /\ [q |-> goal, l |-> ret] \in [q : Inequalities, l : L]
        BY <2>4 DEF Verdict, Conclude, TypeOK
      <4>2. /\ Len(answered) + 1 \in DOMAIN answered'
            /\ answered'[Len(answered) + 1] = [q |-> goal, l |-> ret]
        BY <4>1
      <4>3. Entails(Graph', goal)
        BY <2>4, <4>2 DEF AnswersSound
      <4> QED BY <2>2, <4>3
    <3>5. CurrentIcmp(b).pred = IcmpOf(program, b).pred
      <4>1. program.branch[b].cond \in Blocks
        BY <3>2, ProgramParts DEF PassInv, PassTypeOK
      <4> QED BY <4>1 DEF RenamingInv, PredicatesKept, CurrentIcmp, IcmpOf
    <3> DEFINE v == CurrentIcmp(b).ops[1]
               w == CurrentIcmp(b).ops[2]
    <3>6. /\ v \in Values /\ StandsFor(program, v, IcmpOf(program, b).ops[1], b)
          /\ w \in Values /\ StandsFor(program, w, IcmpOf(program, b).ops[2], b)
      BY <3>2, CurrentStandsFor DEF RenamingInv
    <3>7. goal = QueryOf([pred |-> IcmpOf(program, b).pred, ops |-> <<v, w>>])
      BY <3>3, <3>5 DEF QueryOf
    <3> HIDE DEF v, w
    <3> QED BY <2>1, <2>2, <3>1, <3>2, <3>4, <3>6, <3>7 DEF Justified
  <2>5. branchesToRemove' = branchesToRemove \/ (Verdict /\ Proved(ret))
    BY DEF PassNext, Pass, FindComparisons, InsertPis, Substitute, AddInequalities,
      AddInequality, FinishGraph, TestBranch, SkipBranch, Proving, Verdict, RemovePi,
      RemoveBranch, Done, NextLoop, Call, Branch, EnterBlock, allVars, passVars
  <2> QED BY <2>3, <2>4, <2>5
<1> QED BY <1>1, <1>2

(***************************************************************************)
(* The values of the pis at a moment of the run.                           *)
(***************************************************************************)
SignedOnly == \A p \in Programs : \A k \in Blocks : p.icmps[k].pred \in Signed \cup {"EQ"}

\* Each pi whose landing block dominates b has its operand's value.  The others
\* lie below all integers, those bounded by another pi lowest.
Snapshot(b) ==
  [v \in Values |->
     IF v \notin PiIds THEN val[v]
     ELSE IF LandingDominates(program, v.c, v.s, b) THEN val[Operand(program, v)]
     ELSE IF (v.i = 1) = (v.s = "T") THEN -WideSignBit - 2
     ELSE -WideSignBit - 1]

\* Without constants, operands are variables and have integers for values.
LEMMA OperandsAreVars ==
  ASSUME Constants = {}, PassTypeOK, NEW c \in Blocks, NEW i \in {1, 2}
  PROVE  /\ IcmpOf(program, c).ops[i] \in Vars
         /\ val[IcmpOf(program, c).ops[i]] \in Int
         /\ -WideSignBit <= val[IcmpOf(program, c).ops[i]]
<1>1. IcmpOf(program, c) \in ICmps
  BY ProgramParts DEF PassTypeOK
<1>2. IcmpOf(program, c).ops[i] \in Vars
  BY <1>1 DEF ICmps
<1>3. val[IcmpOf(program, c).ops[i]] \in WideInts
  BY <1>2 DEF PassTypeOK
<1> QED BY <1>2, <1>3, WideSignBitAssumption DEF WideInts

LEMMA SnapshotType ==
  ASSUME Constants = {}, PassTypeOK, NEW b
  PROVE  Snapshot(b) \in [Values -> Int]
<1> SUFFICES ASSUME NEW v \in Values PROVE Snapshot(b)[v] \in Int
  BY DEF Snapshot
<1>1. CASE v \in PiIds
  <2>1. v.c \in Blocks /\ v.i \in {1, 2}
    BY <1>1 DEF PiIds
  <2>2. val[Operand(program, v)] \in Int
    BY <2>1, OperandsAreVars DEF Operand
  <2> QED BY <1>1, <2>2, WideSignBitAssumption DEF Snapshot
<1>2. CASE v \notin PiIds
  <2>1. v \in Vars
    BY <1>2, BlocksAssumption DEF PassValues
  <2>2. val[v] \in Int
    BY <2>1, WideSignBitAssumption DEF PassTypeOK, WideInts
  <2> QED BY <1>2, <2>2 DEF Snapshot
<1> QED BY <1>1, <1>2

\* What stands for an operand has the operand's value.
LEMMA SnapshotOfOperand ==
  ASSUME Constants = {}, PassTypeOK, NEW b \in Blocks, NEW i \in {1, 2},
         NEW v \in Values, StandsFor(program, v, IcmpOf(program, b).ops[i], b)
  PROVE  Snapshot(b)[v] = val[IcmpOf(program, b).ops[i]]
<1>1. IcmpOf(program, b).ops[i] \notin PiIds
  BY OperandsAreVars, BlocksAssumption
<1> QED BY <1>1 DEF StandsFor, Snapshot

\* The edges of one comparison hold: those of the side the run has taken by the
\* outcome of the comparison, those of the other by the values below.
LEMMA EdgesHold ==
  ASSUME Constants = {}, SignedOnly, PassTypeOK, PathDecided, stage = "called",
         at \in Blocks, NEW c \in Compared(program), NEW n \in DOMAIN EdgesOf(program, c)
  PROVE  Holds(Snapshot(at), EdgesOf(program, c)[n])
<1> DEFINE icmp == IcmpOf(program, c)
           w == Snapshot(at)
           v_i == icmp.ops[1]    w_r == icmp.ops[2]
           v_j == [c |-> c, i |-> 1, s |-> "T"]    v_k == [c |-> c, i |-> 1, s |-> "F"]
           w_s == [c |-> c, i |-> 2, s |-> "T"]    w_t == [c |-> c, i |-> 2, s |-> "F"]
           onTrue == IF icmp.pred \in Strict THEN -1 ELSE 0
           onFalse == IF icmp.pred \in Lax THEN -1 ELSE 0
           six == << Edge(v_i, v_j, 0), Edge(w_r, w_s, 0), Edge(w_s, v_j, onTrue),
                     Edge(v_i, v_k, 0), Edge(w_r, w_t, 0), Edge(v_k, w_t, onFalse) >>
           taken(s) == LandingDominates(program, c, s, at)
<1>1. c \in Blocks /\ program \in Programs
  BY DEF Compared, PassTypeOK
<1>2. /\ v_i \in Vars /\ val[v_i] \in Int /\ -WideSignBit <= val[v_i]
      /\ w_r \in Vars /\ val[w_r] \in Int /\ -WideSignBit <= val[w_r]
  BY <1>1, OperandsAreVars
<1>3. /\ OnSide(program, c, 1, "T") = v_j /\ OnSide(program, c, 1, "F") = v_k
      /\ OnSide(program, c, 2, "T") = w_s /\ OnSide(program, c, 2, "F") = w_t
  BY DEF OnSide
<1>4. {v_j, v_k, w_s, w_t} \subseteq PiIds /\ {v_i, w_r, v_j, v_k, w_s, w_t} \subseteq Values
  BY <1>1, <1>2, ValueTypes DEF PiIds, Sides
<1>5. v_i \notin PiIds /\ w_r \notin PiIds
  BY <1>2, BlocksAssumption
<1>6. /\ Operand(program, v_j) = v_i /\ Operand(program, v_k) = v_i
      /\ Operand(program, w_s) = w_r /\ Operand(program, w_t) = w_r
  BY DEF Operand
<1>7. /\ w[v_i] = val[v_i] /\ w[w_r] = val[w_r]
      /\ w[v_j] = IF taken("T") THEN val[v_i] ELSE -WideSignBit - 2
      /\ w[w_s] = IF taken("T") THEN val[w_r] ELSE -WideSignBit - 1
      /\ w[v_k] = IF taken("F") THEN val[v_i] ELSE -WideSignBit - 1
      /\ w[w_t] = IF taken("F") THEN val[w_r] ELSE -WideSignBit - 2
  BY <1>4, <1>5, <1>6 DEF Snapshot
<1>8. EdgesOf(program, c) = IF icmp.pred \in Strict \cup Lax THEN six ELSE << >>
  BY <1>3 DEF EdgesOf
<1>9. icmp.pred \in {"SLT", "SLE"} /\ n \in 1 .. 6
  <2>1. icmp.pred \in Signed \cup {"EQ"}
    BY <1>1, ProgramParts DEF SignedOnly, IcmpOf
  <2>2. icmp.pred \in Strict \cup Lax /\ n \in 1 .. 6
    BY <1>8
  <2> QED BY <2>1, <2>2 DEF Signed, Strict, Lax
<1>10. /\ taken("T") => Evaluates(icmp)
       /\ taken("F") => ~Evaluates(icmp)
  BY <1>1 DEF PathDecided, Sides
<1>11. Evaluates(icmp) <=> IF icmp.pred = "SLT" THEN val[v_i] < val[w_r]
                                                ELSE val[v_i] <= val[w_r]
  BY <1>9 DEF Evaluates, Value
<1>12. /\ onTrue = IF icmp.pred = "SLT" THEN -1 ELSE 0
       /\ onFalse = IF icmp.pred = "SLT" THEN 0 ELSE -1
  BY <1>9 DEF Strict, Lax
<1> HIDE DEF w, v_i, w_r, v_j, v_k, w_s, w_t, onTrue, onFalse, icmp, taken
<1>13. /\ w[v_j] - w[v_i] <= 0 /\ w[w_s] - w[w_r] <= 0
       /\ w[v_k] - w[v_i] <= 0 /\ w[w_t] - w[w_r] <= 0
       /\ w[v_j] - w[w_s] <= onTrue /\ w[w_t] - w[v_k] <= onFalse
  BY <1>2, <1>7, <1>10, <1>11, <1>12, WideSignBitAssumption
<1>14. Holds(w, six[n])
  BY <1>9, <1>13 DEF Holds, Edge
<1> QED BY <1>8, <1>9, <1>14 DEF w, Strict, Lax

LEMMA ProgramEdgesHold ==
  ASSUME Constants = {}, SignedOnly, PassTypeOK, PathDecided, stage = "called",
         at \in Blocks
  PROVE  \A e \in ProgramEdges(program) : Holds(Snapshot(at), e)
BY EdgesHold DEF ProgramEdges

LEMMA GraphOfProgram ==
  ASSUME TypeOK, EdgesOfProgram
  PROVE  Graph \subseteq ProgramEdges(program)
<1> SUFFICES ASSUME NEW b \in Values, NEW i \in DOMAIN incomingEdges[b]
             PROVE  [a |-> incomingEdges[b][i].a, b |-> b, c |-> incomingEdges[b][i].c]
                      \in ProgramEdges(program)
  BY DEF Graph
<1>1. i \in 1 .. Len(incomingEdges[b])
  BY DEF TypeOK
<1> QED BY <1>1 DEF EdgesOfProgram

LEMMA JustifiedHolds ==
  ASSUME Constants = {}, Valuations = [Values -> Int], SignedOnly, TypeOK,
         PassTypeOK, PathDecided, EdgesOfProgram, Justified
  PROVE  RemovedChecksHold
<1> SUFFICES ASSUME stage = "called", at \in branchesToRemove
             PROVE  Evaluates(IcmpOf(program, at))
  BY DEF RemovedChecksHold
<1> DEFINE icmp == IcmpOf(program, at)
           s == Snapshot(at)
<1>1. at \in Blocks /\ at \in Compared(program)
  BY DEF PassTypeOK, Justified
<1>2. PICK v \in Values, w \in Values :
        /\ StandsFor(program, v, icmp.ops[1], at)
        /\ StandsFor(program, w, icmp.ops[2], at)
        /\ Entails(Graph, QueryOf([pred |-> icmp.pred, ops |-> <<v, w>>]))
  BY DEF Justified
<1>3. s \in Valuations
  BY SnapshotType
<1>4. Admits(s, Graph)
  <2>1. \A e \in Graph : Holds(s, e)
    BY <1>1, GraphOfProgram, ProgramEdgesHold
  <2> QED BY <2>1 DEF Admits
<1>5. Holds(s, QueryOf([pred |-> icmp.pred, ops |-> <<v, w>>]))
  BY <1>2, <1>3, <1>4 DEF Entails
<1>6. /\ s[v] = val[icmp.ops[1]] /\ s[w] = val[icmp.ops[2]]
      /\ val[icmp.ops[1]] \in Int /\ val[icmp.ops[2]] \in Int
  BY <1>1, <1>2, SnapshotOfOperand, OperandsAreVars
<1>7. icmp.pred \in Signed
  <2>1. icmp.pred \in Signed \cup {"EQ"} /\ icmp.pred # "EQ"
    BY <1>1, ProgramParts DEF SignedOnly, PassTypeOK, Compared, IcmpOf, Signed, Unsigned
  <2> QED BY <2>1
<1> HIDE DEF icmp, s
<1>8. Evaluates(icmp)
  <2> DEFINE l == val[icmp.ops[1]]    r == val[icmp.ops[2]]
  <2>1. icmp.pred = "SLT" => s[v] - s[w] <= -1 /\ (Evaluates(icmp) <=> l < r)
    BY <1>5 DEF Holds, QueryOf, Edge, Strict, Evaluates, Value
  <2>2. icmp.pred = "SLE" => s[v] - s[w] <= 0 /\ (Evaluates(icmp) <=> l <= r)
    BY <1>5 DEF Holds, QueryOf, Edge, Strict, Evaluates, Value
  <2>3. icmp.pred = "SGT" => s[w] - s[v] <= -1 /\ (Evaluates(icmp) <=> l > r)
    BY <1>5 DEF Holds, QueryOf, Edge, Evaluates, Value
  <2>4. icmp.pred = "SGE" => s[w] - s[v] <= 0 /\ (Evaluates(icmp) <=> l >= r)
    BY <1>5 DEF Holds, QueryOf, Edge, Evaluates, Value
  <2> QED BY <1>6, <1>7, <2>1, <2>2, <2>3, <2>4 DEF Signed
<1> QED BY <1>8 DEF icmp

\* The edges of a function's comparisons, among them those of the graph, can all
\* hold at once in a valuation that gives each variable the value it has in the
\* run, and each pi the value of its operand if its landing block dominates the
\* block being executed.
EdgesHoldInRuns ==
  /\ Graph \subseteq ProgramEdges(program)
  /\ stage = "called" /\ at \in Blocks =>
       \E s \in [Values -> Int] :
         /\ \A v \in Vars : s[v] = val[v]
         /\ \A pi \in PiIds :
              LandingDominates(program, pi.c, pi.s, at) => s[pi] = val[Operand(program, pi)]
         /\ \A e \in ProgramEdges(program) : Holds(s, e)

LEMMA EdgesHoldAtRuns ==
  ASSUME Constants = {}, SignedOnly, TypeOK, PassTypeOK, PathDecided, EdgesOfProgram
  PROVE  EdgesHoldInRuns
<1>1. Graph \subseteq ProgramEdges(program)
  BY GraphOfProgram
<1>2. ASSUME stage = "called", at \in Blocks
      PROVE  \E s \in [Values -> Int] :
               /\ \A v \in Vars : s[v] = val[v]
               /\ \A pi \in PiIds : LandingDominates(program, pi.c, pi.s, at) =>
                                      s[pi] = val[Operand(program, pi)]
               /\ \A e \in ProgramEdges(program) : Holds(s, e)
  <2> DEFINE s == Snapshot(at)
  <2>1. s \in [Values -> Int]
    BY SnapshotType
  <2>2. \A v \in Vars : s[v] = val[v]
    BY ValueTypes, BlocksAssumption DEF Snapshot
  <2>3. \A pi \in PiIds :
          LandingDominates(program, pi.c, pi.s, at) => s[pi] = val[Operand(program, pi)]
    BY ValueTypes DEF Snapshot
  <2>4. \A e \in ProgramEdges(program) : Holds(s, e)
    BY <1>2, ProgramEdgesHold
  <2> HIDE DEF s
  <2> QED BY <2>1, <2>2, <2>3, <2>4
<1> QED BY <1>1, <1>2 DEF EdgesHoldInRuns

\* Wherever a run of the function has got to, by whatever path, the edges that
\* Comparison.cpp makes for the two sides of every signed comparison are true of
\* the values compared on the sides behind it, and compatible with each other on
\* the sides not taken (AbcRemover.cpp:111-141, 161-192).
THEOREM EdgesDescribeRuns ==
  ASSUME Constants = {}, SignedOnly
  PROVE  PassSpec => []EdgesHoldInRuns
<1>1. PassInit => EdgesOfProgram /\ PathDecided
  BY DEF PassInit, Init, EdgesOfProgram, PathDecided
<1>2. PassInv /\ TypeOK /\ EdgesOfProgram /\ PathDecided /\ [PassNext]_allVars =>
        (EdgesOfProgram /\ PathDecided)'
  BY StepEdgesOfProgram, StepPath DEF PassInv
<1>3. PassInv /\ TypeOK /\ EdgesOfProgram /\ PathDecided => EdgesHoldInRuns
  BY EdgesHoldAtRuns DEF PassInv
<1>4. PassSpec => []TypeOK
  BY PassUsesProver, TypeCorrect, PTL
<1> QED
  BY <1>1, <1>2, <1>3, <1>4, InitPassInv, StepPassInv, PTL DEF PassSpec

\* The pass removes no check that can fail.  In a function whose comparisons are
\* signed and between variables, whatever its control flow graph, loops
\* included, whatever the order of the comparisons and the answers of the
\* prover's memo, a check whose branch was replaced succeeds each time a run
\* gets to it (AbcRemover.cpp, Comparison.cpp, Prover.cpp).
THEOREM RemovedChecksAlwaysHold ==
  ASSUME Constants = {}, Valuations = [Values -> Int],
         EdgeInputs = PassEdges, SignedOnly
  PROVE  PassSpec => []RemovedChecksHold
<1>1. PassInit => RenamingInv /\ RemovalInv /\ PathDecided
  BY InitRenaming DEF PassInit, Init, RemovalInv, EdgesOfProgram, Phased, Justified,
     PathDecided
<1>2. PassInv /\ TypeOK /\ RenamingInv /\ RemovalInv /\ PathDecided /\ AnswersSound'
        /\ [PassNext]_allVars => (RenamingInv /\ RemovalInv /\ PathDecided)'
  BY StepRenaming, StepEdgesOfProgram, StepPhased, StepJustified, StepPath
  DEF RemovalInv, PassInv
<1>3. PassInv /\ TypeOK /\ RemovalInv /\ PathDecided => RemovedChecksHold
  BY JustifiedHolds DEF RemovalInv, PassInv
<1>4. PassSpec => []AnswersSound
  BY PassAnswersSound
<1>5. PassSpec => []TypeOK
  BY PassUsesProver, TypeCorrect, PTL
<1> QED
  BY <1>1, <1>2, <1>3, <1>4, <1>5, InitPassInv, StepPassInv, PTL DEF PassSpec

(***************************************************************************)
(* What run() reports.                                                     *)
(***************************************************************************)

\* From the second turn of the insertion loop on there is a pi if there is a
\* comparison, and only comparisons lose their branch.
ReportInv ==
  /\ stage = "find" => pos = 1
  /\ stage = "find" \/ (stage = "insert" /\ pos = 1) => branchesToRemove = {}
  /\ stage \in {"insert", "substitute", "inequalities", "demand",
                "restore", "remove", "done", "called"} =>
       \/ stage = "insert" /\ pos = 1
       \/ comparisons = << >>
       \/ piNodeList # << >>
  /\ branchesToRemove # {} => comparisons # << >>
  /\ ChangeReported

\* Without constants, each comparison has pis.
LEMMA PisOfComparison ==
  ASSUME Constants = {}, NEW p, NEW c
  PROVE  PisOf(p, c) # << >>
<1> DEFINE onTrue(i) == [c |-> c, i |-> i, s |-> "T"]
           onFalse(i) == [c |-> c, i |-> i, s |-> "F"]
<1>1. /\ PisFor(p, c, 1) = << onTrue(1), onFalse(1) >>
      /\ PisFor(p, c, 2) = << onTrue(2), onFalse(2) >>
  BY DEF PisFor
<1>2. PisOf(p, c) = PisFor(p, c, 1) \o PisFor(p, c, 2)
  BY DEF PisOf
<1> HIDE DEF onTrue, onFalse
<1>3. << onTrue(1), onFalse(1) >> \o << onTrue(2), onFalse(2) >> # << >>
  OBVIOUS
<1> QED BY <1>1, <1>2, <1>3

LEMMA StepReport ==
  ASSUME Constants = {}
  PROVE  PassInv /\ ReportInv /\ [PassNext]_allVars => ReportInv'
<1> SUFFICES ASSUME PassInv, ReportInv, [PassNext]_allVars PROVE ReportInv'
  OBVIOUS
<1>0. /\ Len(comparisons) \in Nat /\ piNodeList \in Seq(PiIds)
      /\ comparisons = << >> <=> Len(comparisons) = 0
      /\ unconditional \subseteq branchesToRemove
  BY LenProperties, EmptySeq DEF PassInv, PassTypeOK
<1> USE <1>0 DEF ReportInv, ChangeReported
<1>1. CASE UNCHANGED <<stage, pos, comparisons, piNodeList, branchesToRemove,
                       unconditional, modified>>
  BY <1>1
<1>2. CASE FindComparisons
  BY <1>2 DEF FindComparisons
<1>3. CASE InsertPis
  <2>1. comparisons[pos] \in Blocks
    BY <1>3, ComparisonAt DEF InsertPis, PassInv, LoopsInRange
  <2>2. /\ PisOf(program, comparisons[pos]) \in Seq(PiIds)
        /\ PisOf(program, comparisons[pos]) # << >>
    BY <2>1, PisOfType, PisOfComparison
  <2>3. piNodeList' = piNodeList \o PisOf(program, comparisons[pos])
    BY <1>3 DEF InsertPis
  <2>4. piNodeList' # << >>
    BY <2>2, <2>3
  <2>5. comparisons # << >>
    <3>1. pos >= 1 /\ pos <= Len(comparisons) /\ pos \in Nat
      BY <1>3 DEF InsertPis, PassInv, LoopsInRange, PassTypeOK
    <3> QED BY <3>1
  <2>6. pos >= 1 /\ pos \in Nat
    BY <1>3 DEF PassInv, LoopsInRange, PassTypeOK, InsertPis
  <2> QED BY <1>3, <2>4, <2>5, <2>6 DEF InsertPis
<1>4. CASE Substitute \/ AddInequalities \/ AddInequality \/ SkipBranch \/ RemovePi
  BY <1>4 DEF Substitute, AddInequalities, AddInequality, SkipBranch, RemovePi
<1>5. CASE FinishGraph
  BY <1>5 DEF FinishGraph, EndOf
<1>6. CASE TestBranch \/ Proving
  BY <1>1, <1>6 DEF TestBranch, Proving, passVars
<1>7. CASE Verdict
  <2>1. comparisons # << >>
    <3>1. pos >= 1 /\ pos <= Len(comparisons) /\ pos \in Nat
      BY <1>7 DEF Verdict, Conclude, PassInv, LoopsInRange, PassTypeOK
    <3> QED BY <3>1
  <2> QED BY <1>7, <2>1 DEF Verdict
<1>8. ASSUME NEW b \in Blocks, RemoveBranch(b) PROVE ReportInv'
  BY <1>8 DEF RemoveBranch
<1>9. CASE Done
  BY <1>9 DEF Done
<1>10. CASE NextLoop
  BY <1>10 DEF NextLoop, EndOf
<1>11. CASE Call
  BY <1>11 DEF Call
<1>12. CASE Branch \/ UNCHANGED allVars
  BY <1>1, <1>12 DEF Branch, EnterBlock, passVars, allVars
<1> QED
  BY <1>2, <1>3, <1>4, <1>5, <1>6, <1>7, <1>8, <1>9, <1>10, <1>11, <1>12
  DEF PassNext, Pass

\* In a function whose comparisons are between variables, run() reports each
\* removal, although what it looks at is a list of pis that are gone
\* (AbcRemover.cpp:40-61).
THEOREM ChangesReported ==
  ASSUME Constants = {}
  PROVE  PassSpec => []ChangeReported
<1>1. PassInit => ReportInv
  BY DEF PassInit, ReportInv, ChangeReported
<1>2. ReportInv => ChangeReported
  BY DEF ReportInv
<1> QED BY <1>1, <1>2, InitPassInv, StepPassInv, StepReport, PTL DEF PassSpec
=============================================================================
