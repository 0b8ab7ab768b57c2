-------------------------- MODULE AbcRemoverProofs --------------------------
(***************************************************************************)
(* The removal pass uses the prover only as the prover's own specification *)
(* allows, so what is proved of the prover holds inside the pass: what it  *)
(* acts on is sound, and a check that is stated outright is removed.  Its  *)
(* pis rename operands to the nearest pi that dominates them, and go       *)
(* without a trace.                                                        *)
(***************************************************************************)
EXTENDS AbcRemover, ProverCallProofs

\* Where the loops of run() are: their position is one they can be at, and the
\* prover is busy only inside the one that asks it.
LoopsInRange ==
  /\ stage # "restore" => pos >= 1
  /\ stage = "restore" => pos <= Len(piNodeList)
  /\ stage = "demand" /\ pc \notin {"build", "idle"} => pos <= Len(comparisons)

PassInv == PassTypeOK /\ LoopsInRange

BoundTypes ==
  /\ 0 \in APInts
  /\ -1 \in APInts

\* Zero and minus one are representable in every width.
LEMMA SmallBounds == BoundTypes
BY SignBitAssumption DEF BoundTypes, APInts

\* A comparison's operands are values, and its successors blocks or ends.
LEMMA ProgramParts ==
  ASSUME NEW p \in Programs, NEW b \in Blocks
  PROVE  /\ p.icmps \in [Blocks -> ICmps]
         /\ IcmpOf(p, b) \in ICmps
         /\ p.branch[b].cond \in Blocks
         /\ p.branch[b].T \in Blocks \cup {Join, Exit}
         /\ p.branch[b].F \in Blocks \cup {Join, Exit}
BY ProgramsAssumption DEF WellFormed, Functions, IcmpOf

\* Replacing a value by a value leaves an icmp an icmp.
LEMMA ReplacedType ==
  ASSUME NEW icmp \in [pred : Signed \cup Unsigned \cup {"EQ"}, ops : Values \X Values],
         NEW v, NEW by \in Values
  PROVE  Replaced(icmp, v, by) \in
           [pred : Signed \cup Unsigned \cup {"EQ"}, ops : Values \X Values]
BY DEF Replaced

\* The pis made for a comparison, a sequence of pis with operands as values.
LEMMA PisOfType ==
  ASSUME NEW p, NEW c \in Blocks
  PROVE  PisOf(p, c) \in Seq(PiIds)
<1>1. ASSUME NEW i \in {1, 2} PROVE PisFor(p, c, i) \in Seq(PiIds)
  <2> DEFINE onTrue == [c |-> c, i |-> i, s |-> "T"]
             onFalse == [c |-> c, i |-> i, s |-> "F"]
  <2>1. onTrue \in PiIds /\ onFalse \in PiIds
    BY DEF PiIds, Sides
  <2>2. PisFor(p, c, i) \in {<< >>, <<onTrue, onFalse>>}
    BY DEF PisFor
  <2> HIDE DEF onTrue, onFalse
  <2>3. << >> \in Seq(PiIds)
    OBVIOUS
  <2>4. <<onTrue, onFalse>> \in Seq(PiIds)
    BY <2>1
  <2> QED BY <2>2, <2>3, <2>4
<1> QED BY <1>1 DEF PisOf

\* What a comparison adds are inequalities the prover takes.
LEMMA EdgesOfType ==
  ASSUME NEW p \in Programs, NEW c \in Compared(p)
  PROVE  EdgesOf(p, c) \in Seq(EdgeInputs)
<1> DEFINE es == EdgesOf(p, c)
<1>1. \E n \in Nat : es \in [1 .. n -> {es[k] : k \in DOMAIN es}]
  <2> DEFINE icmp == IcmpOf(p, c)
             v_j == OnSide(p, c, 1, "T")    v_k == OnSide(p, c, 1, "F")
             w_s == OnSide(p, c, 2, "T")    w_t == OnSide(p, c, 2, "F")
             six == << Edge(icmp.ops[1], v_j, 0), Edge(icmp.ops[2], w_s, 0),
                       Edge(w_s, v_j, IF icmp.pred \in Strict THEN -1 ELSE 0),
                       Edge(icmp.ops[1], v_k, 0), Edge(icmp.ops[2], w_t, 0),
                       Edge(v_k, w_t, IF icmp.pred \in Lax THEN -1 ELSE 0) >>
  <2>1. es = IF icmp.pred \in Strict \cup Lax THEN six ELSE << >>
    BY DEF EdgesOf
  <2>2. DOMAIN six = 1 .. 6 /\ six = [k \in 1 .. 6 |-> six[k]]
    OBVIOUS
  <2>3. DOMAIN << >> = 1 .. 0 /\ << >> = [k \in 1 .. 0 |-> << >>[k]]
    OBVIOUS
  <2> HIDE DEF six, icmp, es
  <2>4. \E n \in {0, 6} : DOMAIN es = 1 .. n /\ es = [k \in 1 .. n |-> es[k]]
    BY <2>1, <2>2, <2>3
  <2> HIDE DEF es
  <2>5. PICK n \in {0, 6} : DOMAIN es = 1 .. n /\ es = [k \in 1 .. n |-> es[k]]
    BY <2>4
  <2>6. es \in [1 .. n -> {es[k] : k \in DOMAIN es}]
    BY <2>5
  <2> QED BY <2>6
<1>2. {es[k] : k \in DOMAIN es} \subseteq EdgeInputs
  BY InterfaceAssumption DEF PassEdges
<1> HIDE DEF es
<1>3. es \in Seq({es[k] : k \in DOMAIN es})
  BY <1>1, IsASeq, SMTT(30)
<1>4. es \in Seq(EdgeInputs)
  BY <1>2, <1>3
<1> QED BY <1>4 DEF es

(***************************************************************************)
(* The type invariant.                                                     *)
(***************************************************************************)
CurrentIcmps == [pred : Signed \cup Unsigned \cup {"EQ"}, ops : Values \X Values]

\* The values of the prover are those of the pass.
LEMMA ValueTypes ==
  /\ Vars \subseteq Values /\ Constants \subseteq Values /\ PiIds \subseteq Values
  /\ ICmps \subseteq CurrentIcmps
BY BlocksAssumption DEF PassValues, ICmps, CurrentIcmps

\* An operand of a compared branch is a value.
LEMMA OperandType ==
  ASSUME NEW p \in Programs, NEW pi \in PiIds
  PROVE  Operand(p, pi) \in Values
<1>1. pi.c \in Blocks /\ pi.i \in {1, 2}
  BY DEF PiIds
<1>2. IcmpOf(p, pi.c) \in CurrentIcmps
  BY <1>1, ProgramParts, ValueTypes
<1> QED BY <1>1, <1>2 DEF Operand, CurrentIcmps

LEMMA InitPassInv == PassInit => PassInv
<1> SUFFICES ASSUME PassInit PROVE PassInv
  OBVIOUS
<1>1. icmps \in [Blocks -> CurrentIcmps]
  <2>1. Entry \in Blocks
    BY BlocksAssumption
  <2>2. program.icmps \in [Blocks -> ICmps]
    BY <2>1, ProgramParts DEF PassInit
  <2> QED BY <2>2, ValueTypes DEF PassInit
<1>2. val \in [Vars -> WideInts]
  <2>1. 0 \in WideInts
    BY SignBitAssumption, WideSignBitAssumption DEF WideInts
  <2> QED BY <2>1 DEF PassInit
<1>3. \A pi \in PiIds : piValue[pi] \subseteq Values
  BY DEF PassInit
<1>4. LoopsInRange
  BY DEF PassInit, LoopsInRange
<1>5. /\ comparisons \in Seq(Compared(program))
      /\ piNodeList \in Seq(PiIds)
      /\ todo \in Seq(EdgeInputs)
  BY DEF PassInit
<1>6. /\ program \in Programs
      /\ stage \in {"find", "insert", "substitute", "inequalities", "demand",
                    "restore", "remove", "done", "called"}
      /\ pos \in Nat
      /\ branchesToRemove \subseteq Blocks
      /\ unconditional \subseteq branchesToRemove
      /\ erased \subseteq Blocks
      /\ modified \in BOOLEAN
      /\ at \in Blocks \cup {Join, Exit}
  BY DEF PassInit
<1>7. PassTypeOK
  BY <1>1, <1>2, <1>3, <1>5, <1>6 DEF PassTypeOK, CurrentIcmps
<1> QED BY <1>4, <1>7 DEF PassInv

\* A position inside the list of comparisons is a compared branch.
LEMMA ComparisonAt ==
  ASSUME PassTypeOK, pos >= 1, pos <= Len(comparisons)
  PROVE  comparisons[pos] \in Compared(program) /\ comparisons[pos] \in Blocks
<1>1. pos \in 1 .. Len(comparisons)
  BY LenProperties DEF PassTypeOK
<1>2. comparisons[pos] \in Compared(program)
  BY <1>1, ElementOfSeq DEF PassTypeOK
<1> QED BY <1>2 DEF Compared

LEMMA PiAt ==
  ASSUME PassTypeOK, pos >= 1, pos <= Len(piNodeList)
  PROVE  piNodeList[pos] \in PiIds
<1>1. pos \in 1 .. Len(piNodeList)
  BY LenProperties DEF PassTypeOK
<1> QED BY <1>1, ElementOfSeq DEF PassTypeOK

\* Each rewriting of the operands keeps their types.
LEMMA SubstitutionType ==
  ASSUME PassTypeOK, NEW pi \in PiIds, NEW v, Substitution(pi, v)
  PROVE  /\ icmps' \in [Blocks -> CurrentIcmps]
         /\ \A q \in PiIds : piValue'[q] \subseteq Values
<1>1. pi \in Values
  BY ValueTypes
<1>2. \A b \in Blocks : icmps[b] \in CurrentIcmps
  BY DEF PassTypeOK, CurrentIcmps
<1>3. \A b \in Blocks : Replaced(icmps[b], v, pi) \in CurrentIcmps
  BY <1>1, <1>2, ReplacedType DEF CurrentIcmps
<1>4. icmps' \in [Blocks -> CurrentIcmps]
  BY <1>2, <1>3 DEF Substitution
<1>5. \A q \in PiIds : piValue'[q] \subseteq Values
  BY <1>1 DEF Substitution, PassTypeOK
<1> QED BY <1>4, <1>5

LEMMA RemovalType ==
  ASSUME PassTypeOK, RemovePi, pos <= Len(piNodeList)
  PROVE  /\ icmps' \in [Blocks -> CurrentIcmps]
         /\ \A q \in PiIds : piValue'[q] \subseteq Values
<1>1. piNodeList[pos] \in PiIds
  BY PiAt DEF RemovePi
<1>2. PICK v \in piValue[piNodeList[pos]] :
        /\ icmps' = [b \in Blocks |-> Replaced(icmps[b], piNodeList[pos], v)]
        /\ piValue' = [q \in PiIds |-> IF q = piNodeList[pos] THEN {}
                                       ELSE IF piValue[q] = {piNodeList[pos]} THEN {v}
                                       ELSE piValue[q]]
  BY DEF RemovePi
<1>3. v \in Values
  BY <1>1 DEF PassTypeOK
<1>4. \A b \in Blocks : icmps[b] \in CurrentIcmps
  BY DEF PassTypeOK, CurrentIcmps
<1>5. \A b \in Blocks : Replaced(icmps[b], piNodeList[pos], v) \in CurrentIcmps
  BY <1>3, <1>4, ReplacedType DEF CurrentIcmps
<1>6. icmps' \in [Blocks -> CurrentIcmps]
  BY <1>2, <1>5
<1>7. \A q \in PiIds : piValue'[q] \subseteq Values
  BY <1>2, <1>3 DEF PassTypeOK
<1> QED BY <1>6, <1>7

\* An order of compared branches is a sequence of them.
LEMMA OrdersType ==
  ASSUME NEW S \in SUBSET Blocks, NEW f \in Orders(S)
  PROVE  f \in Seq(S)
<1>1. IsFiniteSet(S)
  BY BlocksAssumption, FS_Subset
<1>2. Cardinality(S) \in Nat
  BY <1>1, FS_CardinalityType
<1>3. f \in [1 .. Cardinality(S) -> S]
  BY DEF Orders
<1> QED BY <1>2, <1>3

\* Running the function leaves the pass alone.
LEMMA EnterBlockType ==
  ASSUME NEW b \in Blocks \cup {Join, Exit}, EnterBlock(b)
  PROVE  at' \in Blocks \cup {Join, Exit} /\ val' \in [Vars -> WideInts]
BY DEF EnterBlock

LEMMA StepPassInv == PassInv /\ [PassNext]_allVars => PassInv'
<1> SUFFICES ASSUME PassInv, [PassNext]_allVars PROVE PassInv'
  OBVIOUS
<1>0. PassTypeOK /\ LoopsInRange /\ Len(comparisons) \in Nat /\ Len(piNodeList) \in Nat
  BY LenProperties DEF PassInv, PassTypeOK
<1> USE <1>0 DEF PassInv, PassTypeOK, LoopsInRange
<1>1. CASE UNCHANGED allVars
  BY <1>1 DEF allVars, passVars, runVars, vars
<1>2. CASE FindComparisons
  <2>1. comparisons' \in Seq(Compared(program))
    BY <1>2, OrdersType DEF FindComparisons, Compared
  <2> QED
    BY <1>2, <2>1 DEF FindComparisons, vars, runVars
<1>3. CASE InsertPis
  <2> DEFINE c == comparisons[pos]
             new == PisOf(program, c)
             ids == {new[n] : n \in DOMAIN new}
  <2>1. new \in Seq(PiIds)
    BY <1>3, ComparisonAt, PisOfType DEF InsertPis
  <2>2. piNodeList' = piNodeList \o new /\ piNodeList' \in Seq(PiIds)
    BY <1>3, <2>1 DEF InsertPis
  <2>3. piValue' = [pi \in PiIds |-> IF pi \in ids THEN {Operand(program, pi)}
                                     ELSE piValue[pi]]
    BY <1>3 DEF InsertPis
  <2> HIDE DEF new, ids
  <2>4. \A pi \in PiIds : piValue'[pi] \subseteq Values
    BY <2>3, OperandType
  <2> QED
    BY <1>3, <2>2, <2>4 DEF InsertPis, vars, runVars
<1>4. CASE Substitute
  <2>1. PICK v \in piValue[piNodeList[pos]] : Substitution(piNodeList[pos], v)
    BY <1>4 DEF Substitute
  <2>2. piNodeList[pos] \in PiIds
    BY <1>4, PiAt DEF Substitute
  <2>3. /\ icmps' \in [Blocks -> CurrentIcmps]
        /\ \A q \in PiIds : piValue'[q] \subseteq Values
    BY <2>1, <2>2, SubstitutionType
  <2> QED
    BY <1>4, <2>3 DEF Substitute, CurrentIcmps, vars, runVars
<1>5. CASE AddInequalities
  <2>1. todo' \in Seq(EdgeInputs)
    BY <1>5, ComparisonAt, EdgesOfType DEF AddInequalities
  <2> QED
    BY <1>5, <2>1 DEF AddInequalities, vars, runVars
<1>6. CASE AddInequality
  <2>1. todo' \in Seq(EdgeInputs)
    BY <1>6 DEF AddInequality
  <2> QED
    BY <1>6, <2>1 DEF AddInequality, Add, runVars
<1>7. CASE FinishGraph
  BY <1>7 DEF FinishGraph, EndOf, Finish, runVars
<1>8. CASE TestBranch
  BY <1>8 DEF TestBranch, DemandProve, passVars, runVars
<1>9. CASE SkipBranch
  BY <1>9 DEF SkipBranch, vars, runVars
<1>10. CASE Proving
  <2>1. pc \notin {"build", "idle"} /\ stage = "demand"
    BY <1>10 DEF Proving, AlreadyProven, NoIncomingEdges, ActiveCycle, Visit,
                 Descend, FoldResult, Leave
  <2>2. UNCHANGED <<passVars, runVars>>
    BY <1>10 DEF Proving
  <2> QED
    BY <2>1, <2>2 DEF passVars, runVars
<1>11. CASE Verdict
  <2>1. comparisons[pos] \in Blocks
    BY <1>11, ComparisonAt DEF Verdict, Conclude
  <2> QED
    BY <1>11, <2>1 DEF Verdict, Conclude, runVars
<1>12. CASE RemovePi
  <2>1. /\ icmps' \in [Blocks -> CurrentIcmps]
        /\ \A q \in PiIds : piValue'[q] \subseteq Values
    BY <1>12, RemovalType DEF RemovePi
  <2> QED
    BY <1>12, <2>1 DEF RemovePi, CurrentIcmps, vars, runVars
<1>13. ASSUME NEW b \in Blocks, RemoveBranch(b) PROVE PassInv'
  <2>1. program.branch[b].cond \in Blocks
    BY ProgramParts
  <2> QED
    BY <1>13, <2>1 DEF RemoveBranch, vars, runVars
<1>14. CASE Done
  BY <1>14 DEF Done, vars, runVars
<1>15. CASE NextLoop
  BY <1>15 DEF NextLoop, EndOf, vars, runVars
<1>16. CASE Call
  BY <1>16, BlocksAssumption DEF Call, vars
<1>17. CASE Branch
  <2>1. PICK b \in Blocks \cup {Join, Exit} : EnterBlock(b)
    BY <1>17, ProgramParts DEF Branch
  <2>2. at' \in Blocks \cup {Join, Exit} /\ val' \in [Vars -> WideInts]
    BY <2>1, EnterBlockType
  <2> QED
    BY <2>1, <2>2 DEF EnterBlock, vars, passVars
<1> QED
  BY <1>1, <1>2, <1>3, <1>4, <1>5, <1>6, <1>7, <1>8, <1>9, <1>10, <1>11, <1>12,
     <1>13, <1>14, <1>15, <1>16, <1>17 DEF PassNext, Pass

\* The type invariant of the pass (AbcRemover.cpp): the loops of run() read the
\* lists they walk inside their bounds, and rewriting keeps operands values.
THEOREM PassTypeCorrect == PassSpec => []PassTypeOK
<1>1. PassInv => PassTypeOK
  BY DEF PassInv
<1> QED BY <1>1, InitPassInv, StepPassInv, PTL DEF PassSpec

(***************************************************************************)
(* The pass as a client of the prover.                                     *)
(***************************************************************************)

\* What demandProve is given is an inequality between values.
LEMMA QueryType ==
  ASSUME NEW icmp \in CurrentIcmps
  PROVE  QueryOf(icmp) \in Queries
<1>1. icmp.ops[1] \in PassValues /\ icmp.ops[2] \in PassValues
  BY BlocksAssumption DEF CurrentIcmps
<1>2. 0 \in APInts /\ -1 \in APInts
  BY SmallBounds DEF BoundTypes
<1>3. QueryOf(icmp) \in PassQueries
  BY <1>1, <1>2 DEF QueryOf, Edge, PassQueries
<1> QED BY <1>3, InterfaceAssumption

LEMMA PassStepIsProverStep == PassInv /\ [PassNext]_allVars => [Next]_vars
<1> SUFFICES ASSUME PassInv, [PassNext]_allVars PROVE [Next]_vars
  OBVIOUS
<1>1. CASE UNCHANGED vars
  BY <1>1
<1>2. CASE AddInequality
  <2>1. Head(todo) \in EdgeInputs
    BY <1>2 DEF AddInequality, PassInv, PassTypeOK
  <2> QED
    BY <1>2, <2>1 DEF AddInequality, Next
<1>3. CASE FinishGraph
  BY <1>3 DEF FinishGraph, Next
<1>4. CASE TestBranch
  <2>1. comparisons[pos] \in Blocks
    BY <1>4, ComparisonAt DEF TestBranch, PassInv, LoopsInRange
  <2>2. CurrentIcmp(comparisons[pos]) \in CurrentIcmps
    BY <2>1, ProgramParts DEF CurrentIcmp, CurrentIcmps, PassInv, PassTypeOK
  <2>3. QueryOf(CurrentIcmp(comparisons[pos])) \in Queries
    BY <2>2, QueryType
  <2> QED
    BY <1>4, <2>3 DEF TestBranch, Next
<1>5. CASE Proving
  BY <1>5 DEF Proving, Next, Prove
<1>6. CASE Verdict
  BY <1>6 DEF Verdict, Next, Prove
<1>7. ASSUME NEW b \in Blocks, RemoveBranch(b) PROVE UNCHANGED vars
  BY <1>7 DEF RemoveBranch
<1>8. CASE UNCHANGED allVars
  BY <1>8 DEF allVars
<1>9. CASE FindComparisons \/ InsertPis \/ Substitute \/ AddInequalities \/ SkipBranch
           \/ RemovePi \/ Done \/ NextLoop \/ Call \/ Branch
  BY <1>9 DEF FindComparisons, InsertPis, Substitute, AddInequalities, SkipBranch,
              RemovePi, Done, NextLoop, Call, Branch, EnterBlock
<1> QED
  BY <1>1, <1>2, <1>3, <1>4, <1>5, <1>6, <1>7, <1>8, <1>9 DEF PassNext, Pass

\* Inside the pass, the prover behaves as its own specification says: it is
\* given edges before questions, one question at a time, and never interrupted
\* (AbcRemover.cpp:40-61, 161-192, 203-230).
THEOREM PassUsesProver == PassSpec => Spec
<1>1. PassInit => Init
  BY DEF PassInit
<1> QED BY <1>1, InitPassInv, StepPassInv, PassStepIsProverStep, PTL DEF PassSpec, Spec

(***************************************************************************)
(* The graph of a function whose comparisons are between variables.        *)
(***************************************************************************)

\* Operands come first, then the pis that only their operands bound, then
\* those that the other operand's pi bounds too.
PassRank == [v \in Values |-> IF v \notin PiIds THEN 0
                              ELSE IF (v.i = 1) = (v.s = "T") THEN 2 ELSE 1]

LEMMA EdgesAscend ==
  ASSUME Constants = {}, NEW p \in Programs, NEW c \in Blocks,
         NEW n \in DOMAIN EdgesOf(p, c)
  PROVE  /\ EdgesOf(p, c)[n].c <= 0
         /\ PassRank[EdgesOf(p, c)[n].a] < PassRank[EdgesOf(p, c)[n].b]
<1> DEFINE icmp == IcmpOf(p, c)
           v_i == icmp.ops[1]    w_r == icmp.ops[2]
           v_j == [c |-> c, i |-> 1, s |-> "T"]    v_k == [c |-> c, i |-> 1, s |-> "F"]
           w_s == [c |-> c, i |-> 2, s |-> "T"]    w_t == [c |-> c, i |-> 2, s |-> "F"]
           onTrue == IF icmp.pred \in Strict THEN -1 ELSE 0
           onFalse == IF icmp.pred \in Lax THEN -1 ELSE 0
           six == << Edge(v_i, v_j, 0), Edge(w_r, w_s, 0), Edge(w_s, v_j, onTrue),
                     Edge(v_i, v_k, 0), Edge(w_r, w_t, 0), Edge(v_k, w_t, onFalse) >>
<1>1. v_i \in Vars /\ w_r \in Vars
  BY ProgramParts DEF ICmps
<1>2. /\ OnSide(p, c, 1, "T") = v_j /\ OnSide(p, c, 1, "F") = v_k
      /\ OnSide(p, c, 2, "T") = w_s /\ OnSide(p, c, 2, "F") = w_t
  BY DEF OnSide
<1>3. /\ PassRank[v_i] = 0 /\ PassRank[w_r] = 0
      /\ PassRank[w_s] = 1 /\ PassRank[v_k] = 1
      /\ PassRank[v_j] = 2 /\ PassRank[w_t] = 2
  <2>1. {v_j, v_k, w_s, w_t} \subseteq PiIds
    BY DEF PiIds, Sides
  <2>2. {v_i, w_r, v_j, v_k, w_s, w_t} \subseteq Values /\ v_i \notin PiIds /\ w_r \notin PiIds
    BY <1>1, <2>1, ValueTypes, BlocksAssumption
  <2> QED BY <2>1, <2>2 DEF PassRank
<1>4. EdgesOf(p, c) = six /\ n \in 1 .. 6
  BY <1>2 DEF EdgesOf
<1>5. onTrue \in {0, -1} /\ onFalse \in {0, -1}
  OBVIOUS
<1> HIDE DEF onTrue, onFalse, v_i, v_j, v_k, w_r, w_s, w_t, icmp
<1> QED BY <1>3, <1>4, <1>5 DEF Edge

LEMMA PassGraphRanked ==
  ASSUME Constants = {}, EdgeInputs = PassEdges
  PROVE  Ranked(PassRank) /\ WeightsNotPositive /\ ConstantsExact
<1>1. PassRank \in [Values -> Nat]
  BY DEF PassRank
<1>2. \A e \in EdgeInputs : e.c <= 0 /\ PassRank[e.a] < PassRank[e.b]
  BY EdgesAscend DEF PassEdges, Compared
<1> QED BY <1>1, <1>2 DEF Ranked, WeightsNotPositive, ConstantsExact

\* In a function whose comparisons are between variables, the pass removes no
\* branch on an unsound proof: whatever the control flow, the order of the
\* comparisons and what was asked before, "proven" follows from the pis' edges
\* (AbcRemover.cpp:161-192, 203-230, Prover.cpp).
THEOREM PassAnswersSound ==
  ASSUME Constants = {}, EdgeInputs = PassEdges
  PROVE  PassSpec => []AnswersSound
<1>1. Ranked(PassRank) /\ WeightsNotPositive /\ ConstantsExact
  BY PassGraphRanked
<1>2. Spec => []AnswersSound
  BY <1>1, AnswersAreSound
<1> QED BY <1>2, PassUsesProver, PTL

\* The edges of the pass end in pis, never where they start.
LEMMA PassEdgesOpen ==
  ASSUME Constants = {}, EdgeInputs = PassEdges, Phis \cap PiIds = {},
         TypeInv, EdgesGiven, NEW q \in Graph
  PROVE  Open(q) /\ Stated(q)
<1> PICK b \in Values : \E i \in DOMAIN incomingEdges[b] :
        q = [a |-> incomingEdges[b][i].a, b |-> b, c |-> incomingEdges[b][i].c]
  BY DEF Graph
<1>1. PICK i \in DOMAIN incomingEdges[b] :
        q = [a |-> incomingEdges[b][i].a, b |-> b, c |-> incomingEdges[b][i].c]
  OBVIOUS
<1>2. /\ incomingEdges[b] \in Seq(InEdges) /\ i \in 1 .. Len(incomingEdges[b])
      /\ incomingEdges[b][i] \in InEdges
  BY <1>1 DEF TypeInv, TypeOK
<1>3. incomingEdges[b][i] = [a |-> q.a, c |-> q.c] /\ q.b = b
  BY <1>1, <1>2 DEF InEdges
<1>4. q \in EdgeInputs
  BY <1>1, <1>2 DEF EdgesGiven
<1>5. PassRank[q.a] < PassRank[q.b]
  BY <1>4, PassGraphRanked DEF Ranked
<1>6. q.a # q.b /\ q.b \in PiIds
  <2>1. q.a \in Values /\ q.b \in Values
    BY <1>1, <1>2, <1>3 DEF InEdges
  <2>2. q.b \in PiIds
    BY <1>5, <2>1 DEF PassRank
  <2>3. PassRank[q.a] \in Nat
    BY <2>1 DEF PassRank
  <2> QED BY <1>5, <2>2, <2>3
<1> QED BY <1>2, <1>3, <1>6 DEF Open, Stated, EdgeAt, IsConstant

\* A check that an edge of the pass states outright is removed if it is the
\* first asked about from its value, whatever other edges the traversal follows
\* and whatever the other questions left in the memo (AbcRemover.cpp:161-230,
\* LBound.cpp:28).
THEOREM StatedChecksRemoved ==
  ASSUME Constants = {}, EdgeInputs = PassEdges, Phis \cap PiIds = {}
  PROVE  PassSpec => []StatedCheckRemoved
<1>1. TraversalInv /\ StatedInv => StatedCheckRemoved
  BY PassEdgesOpen DEF TraversalInv, GraphInv, StatedInv, VerdictInv,
     StatedCheckRemoved, Proved
<1> QED BY <1>1, StatedInvariant, PassUsesProver, PTL

(***************************************************************************)
(* The pis come and go without a trace.                                    *)
(***************************************************************************)

\* An edge that dominates the source of a second edge dominates all that the
\* second one dominates.
LEMMA DominanceTransitive ==
  ASSUME NEW p, NEW c, NEW s, NEW c2, NEW s2, NEW d,
         LandingDominates(p, c, s, c2), LandingDominates(p, c2, s2, d)
  PROVE  LandingDominates(p, c, s, d)
<1>1. PICK r1 \in SUBSET (Blocks \ {c2}) :
        /\ Entry \in r1
        /\ \A b \in r1 : \A t \in Sides :
             <<b, t>> # <<c, s>> /\ p.branch[b][t] \in Blocks => p.branch[b][t] \in r1
  BY DEF LandingDominates
<1>2. PICK r2 \in SUBSET (Blocks \ {d}) :
        /\ Entry \in r2
        /\ \A b \in r2 : \A t \in Sides :
             <<b, t>> # <<c2, s2>> /\ p.branch[b][t] \in Blocks => p.branch[b][t] \in r2
  BY DEF LandingDominates
<1>3. \A b \in r1 \cap r2 : \A t \in Sides :
        <<b, t>> # <<c, s>> /\ p.branch[b][t] \in Blocks => p.branch[b][t] \in r1 \cap r2
  BY <1>1, <1>2
<1>4. r1 \cap r2 \in SUBSET (Blocks \ {d}) /\ Entry \in r1 \cap r2
  BY <1>1, <1>2
<1> QED BY <1>3, <1>4 DEF LandingDominates

\* No edge dominates the branch it leaves.
LEMMA DominanceIrreflexive ==
  ASSUME NEW p \in Programs, NEW c \in Blocks, NEW s
  PROVE  ~LandingDominates(p, c, s, c)
<1> SUFFICES ASSUME LandingDominates(p, c, s, c) PROVE FALSE
  OBVIOUS
<1>1. PICK r \in SUBSET (Blocks \ {c}) :
        /\ Entry \in r
        /\ \A b \in r : \A t \in Sides :
             <<b, t>> # <<c, s>> /\ p.branch[b][t] \in Blocks => p.branch[b][t] \in r
  BY DEF LandingDominates
<1>2. \A b \in r : \A t \in Sides : p.branch[b][t] \in Blocks => p.branch[b][t] \in r
  BY <1>1
<1>3. r = Blocks
  BY <1>1, <1>2, ProgramsAssumption DEF WellFormed
<1> QED BY <1>1, <1>3

\* What the function has for operands is not a pi.
LEMMA OriginalsAreNotPis ==
  ASSUME NEW p \in Programs
  PROVE  /\ \A pi \in PiIds : Operand(p, pi) \notin PiIds /\ pi.c \in Blocks
         /\ \A b \in Blocks, i \in {1, 2} : p.icmps[b].ops[i] \notin PiIds
<1>1. \A icmp \in ICmps : \A i \in {1, 2} : icmp.ops[i] \notin PiIds
  BY BlocksAssumption DEF ICmps
<1>2. \A pi \in PiIds : pi.c \in Blocks /\ pi.i \in {1, 2}
  BY DEF PiIds
<1>3. \A pi \in PiIds : Operand(p, pi) \notin PiIds
  BY <1>1, <1>2, ProgramParts DEF Operand
<1>4. \A b \in Blocks, i \in {1, 2} : p.icmps[b].ops[i] \notin PiIds
  BY <1>1, ProgramParts
<1> QED BY <1>2, <1>3, <1>4

\* One use, in block b, while pi takes the place of its incoming value v.
LEMMA UseAfterSubstitution ==
  ASSUME NEW p \in Programs, NEW old, NEW new, NEW pi \in PiIds, NEW v \in old[pi],
         \A q \in PiIds : old[q] # {} => new[q] # {},
         Renames(p, old, v, Operand(p, pi), pi.c),
         NEW use, NEW original, original \notin PiIds, NEW b,
         Renames(p, old, use, original, b)
  PROVE  /\ Renames(p, new, use, original, b)
         /\ use = v /\ LandingDominates(p, pi.c, pi.s, b) => Renames(p, new, pi, original, b)
<1>1. Renames(p, new, use, original, b)
  BY DEF Renames
<1>2. ASSUME use = v, LandingDominates(p, pi.c, pi.s, b)
      PROVE  Renames(p, new, pi, original, b)
  <2>1. Operand(p, pi) = original
    BY <1>2, OriginalsAreNotPis DEF Renames
  <2> QED BY <1>2, <2>1 DEF Renames
<1> QED BY <1>1, <1>2

\* One use, in block b, while pi gives way to its incoming value v.
LEMMA UseAfterRemoval ==
  ASSUME NEW p \in Programs, NEW old, NEW new, NEW pi \in PiIds, NEW v \in old[pi],
         \A q \in PiIds \ {pi} : old[q] # {} => new[q] # {},
         Renames(p, old, v, Operand(p, pi), pi.c),
         NEW use, NEW original, original \notin PiIds, NEW b,
         Renames(p, old, use, original, b)
  PROVE  /\ use # pi => Renames(p, new, use, original, b)
         /\ use = pi => Renames(p, new, v, original, b)
<1>1. use # pi => Renames(p, new, use, original, b)
  BY DEF Renames
<1>2. ASSUME use = pi PROVE Renames(p, new, v, original, b)
  <2>1. Operand(p, pi) = original /\ LandingDominates(p, pi.c, pi.s, b)
    BY <1>2 DEF Renames
  <2>2. CASE v = original
    BY <2>2 DEF Renames
  <2>3. CASE v # original
    <3>1. /\ v \in PiIds /\ Operand(p, v) = original /\ old[v] # {}
          /\ LandingDominates(p, v.c, v.s, pi.c)
      BY <2>1, <2>3 DEF Renames
    <3>2. v # pi
      BY <3>1, DominanceIrreflexive, OriginalsAreNotPis
    <3>3. LandingDominates(p, v.c, v.s, b)
      BY <2>1, <3>1, DominanceTransitive
    <3> QED BY <3>1, <3>2, <3>3 DEF Renames
  <2> QED BY <2>2, <2>3
<1> QED BY <1>1, <1>2

\* Where the pis that are in place can be found in the list.
LivePis ==
  /\ stage \notin {"restore", "remove", "done", "called"} =>
       \A pi \in PiIds : piValue[pi] # {} =>
         \E k \in 1 .. Len(piNodeList) : piNodeList[k] = pi
  /\ stage = "restore" =>
       \A pi \in PiIds : piValue[pi] # {} => \E k \in 1 .. pos : piNodeList[k] = pi
  /\ stage \in {"remove", "done", "called"} => \A pi \in PiIds : piValue[pi] = {}

PredicatesKept == \A b \in Blocks : icmps[b].pred = program.icmps[b].pred

OneIncoming == \A pi \in PiIds : \A v, w \in piValue[pi] : v = w

RenamingInv == SubstitutionValid /\ LivePis /\ PredicatesKept /\ OneIncoming

LEMMA ReplacedOperands ==
  ASSUME NEW icmp, NEW v, NEW by
  PROVE  /\ Replaced(icmp, v, by).pred = icmp.pred
         /\ \A i \in {1, 2} : Replaced(icmp, v, by).ops[i] =
                                IF icmp.ops[i] = v THEN by ELSE icmp.ops[i]
BY DEF Replaced

LEMMA RenamingAfterInsert ==
  PassInv /\ RenamingInv /\ InsertPis => RenamingInv'
<1> SUFFICES ASSUME PassInv, RenamingInv, InsertPis PROVE RenamingInv'
  OBVIOUS
<1> DEFINE new == PisOf(program, comparisons[pos])
           ids == {new[n] : n \in DOMAIN new}
<1>1. /\ new \in Seq(PiIds) /\ piNodeList \in Seq(PiIds)
      /\ piNodeList' = piNodeList \o new
      /\ piValue' = [pi \in PiIds |-> IF pi \in ids THEN {Operand(program, pi)}
                                      ELSE piValue[pi]]
      /\ UNCHANGED <<program, icmps, stage>> /\ stage = "insert"
  BY ComparisonAt, PisOfType DEF InsertPis, PassInv, LoopsInRange, PassTypeOK
<1>2. ids \subseteq PiIds
  BY <1>1
<1>3. \A pi \in ids : \E k \in 1 .. Len(piNodeList') : piNodeList'[k] = pi
  <2> TAKE pi \in ids
  <2>1. PICK n \in DOMAIN new : new[n] = pi
    OBVIOUS
  <2> HIDE DEF new
  <2>2. n \in 1 .. Len(new) /\ Len(piNodeList) \in Nat
    BY <1>1, <2>1
  <2>3. piNodeList'[Len(piNodeList) + n] = new[n] /\ Len(piNodeList') = Len(piNodeList) + Len(new)
    BY <1>1, <2>2
  <2> QED BY <2>1, <2>2, <2>3
<1> HIDE DEF new, ids
<1>4. \A k \in 1 .. Len(piNodeList) : k \in 1 .. Len(piNodeList') /\ piNodeList'[k] = piNodeList[k]
  BY <1>1
<1>5. LivePis'
  BY <1>1, <1>3, <1>4 DEF RenamingInv, LivePis
<1>6. \A q \in PiIds : piValue[q] # {} => piValue'[q] # {}
  BY <1>1
<1>7. SubstitutionValid'
  BY <1>1, <1>6 DEF RenamingInv, SubstitutionValid, Renames
<1>8. OneIncoming'
  BY <1>1 DEF RenamingInv, OneIncoming
<1> QED BY <1>1, <1>5, <1>7, <1>8 DEF RenamingInv, PredicatesKept

LEMMA RenamingAfterSubstitute ==
  PassInv /\ RenamingInv /\ Substitute => RenamingInv'
<1> SUFFICES ASSUME PassInv, RenamingInv, Substitute PROVE RenamingInv'
  OBVIOUS
<1> DEFINE pi == piNodeList[pos]
<1>1. pi \in PiIds /\ program \in Programs
  BY PiAt DEF Substitute, PassInv, LoopsInRange, PassTypeOK
<1>2. PICK v \in piValue[pi] : Substitution(pi, v)
  BY DEF Substitute
<1>3. UNCHANGED <<program, piNodeList, stage>> /\ stage = "substitute"
  BY DEF Substitute
<1> HIDE DEF pi
<1>4. \A q \in PiIds : piValue[q] # {} => piValue'[q] # {}
  BY <1>2 DEF Substitution
<1>5. Renames(program, piValue, v, Operand(program, pi), pi.c)
  BY <1>1, <1>2 DEF RenamingInv, SubstitutionValid
<1>6. ASSUME NEW use, NEW original, original \notin PiIds, NEW b,
             Renames(program, piValue, use, original, b)
      PROVE  /\ Renames(program, piValue', use, original, b)
             /\ use = v /\ LandingDominates(program, pi.c, pi.s, b) =>
                  Renames(program, piValue', pi, original, b)
  BY <1>1, <1>2, <1>4, <1>5, <1>6, UseAfterSubstitution
<1>7. ASSUME NEW b \in Blocks, NEW i \in {1, 2}
      PROVE  Renames(program', piValue', icmps'[b].ops[i], program'.icmps[b].ops[i], b)
  <2>1. program.icmps[b].ops[i] \notin PiIds
    BY <1>1, OriginalsAreNotPis
  <2>2. Renames(program, piValue, icmps[b].ops[i], program.icmps[b].ops[i], b)
    BY DEF RenamingInv, SubstitutionValid
  <2>3. icmps'[b].ops[i] = IF /\ LandingDominates(program, pi.c, pi.s, b)
                              /\ icmps[b].ops[i] = v
                           THEN pi ELSE icmps[b].ops[i]
    BY <1>2, ReplacedOperands DEF Substitution
  <2> QED BY <1>3, <1>6, <2>1, <2>2, <2>3
<1>8. ASSUME NEW q \in PiIds, NEW w \in piValue'[q]
      PROVE  Renames(program', piValue', w, Operand(program', q), q.c)
  <2>1. Operand(program, q) \notin PiIds
    BY <1>1, OriginalsAreNotPis
  <2>2. CASE piValue[q] = {v} /\ LandingDominates(program, pi.c, pi.s, q.c)
    <3>1. w = pi
      BY <1>2, <2>2 DEF Substitution
    <3>2. Renames(program, piValue, v, Operand(program, q), q.c)
      BY <2>2 DEF RenamingInv, SubstitutionValid
    <3> QED BY <1>3, <1>6, <2>1, <2>2, <3>1, <3>2
  <2>3. CASE ~(piValue[q] = {v} /\ LandingDominates(program, pi.c, pi.s, q.c))
    <3>1. w \in piValue[q]
      BY <1>2, <2>3 DEF Substitution
    <3>2. Renames(program, piValue, w, Operand(program, q), q.c)
      BY <3>1 DEF RenamingInv, SubstitutionValid
    <3> QED BY <1>3, <1>6, <2>1, <3>2
  <2> QED BY <2>2, <2>3
<1>9. SubstitutionValid'
  BY <1>7, <1>8 DEF SubstitutionValid
<1>10. LivePis'
  <2>1. \A q \in PiIds : piValue'[q] # {} => piValue[q] # {}
    BY <1>2 DEF Substitution
  <2> QED BY <1>3, <2>1 DEF RenamingInv, LivePis
<1>11. PredicatesKept'
  BY <1>2, <1>3, ReplacedOperands DEF Substitution, RenamingInv, PredicatesKept
<1>12. OneIncoming'
  BY <1>2 DEF Substitution, RenamingInv, OneIncoming
<1> QED BY <1>9, <1>10, <1>11, <1>12 DEF RenamingInv

LEMMA RenamingAfterRemovePi ==
  PassInv /\ RenamingInv /\ RemovePi => RenamingInv'
<1> SUFFICES ASSUME PassInv, RenamingInv, RemovePi PROVE RenamingInv'
  OBVIOUS
<1> DEFINE pi == piNodeList[pos]
<1>1. pi \in PiIds /\ program \in Programs /\ pos \in Nat
  BY PiAt DEF RemovePi, PassInv, LoopsInRange, PassTypeOK
<1>2. PICK v \in piValue[pi] :
        /\ icmps' = [b \in Blocks |-> Replaced(icmps[b], pi, v)]
        /\ piValue' = [q \in PiIds |-> IF q = pi THEN {}
                                       ELSE IF piValue[q] = {pi} THEN {v}
                                       ELSE piValue[q]]
  BY DEF RemovePi
<1>3. UNCHANGED <<program, piNodeList, stage>> /\ stage = "restore" /\ pos' = pos - 1
  BY DEF RemovePi
<1>4. \A q \in PiIds : piValue[q] # {} => \E k \in 1 .. pos : piNodeList[k] = q
  BY <1>3 DEF RenamingInv, LivePis
<1>5. \A q \in PiIds \ {pi} : piValue[q] # {} => \E k \in 1 .. pos' : piNodeList[k] = q
  BY <1>1, <1>3, <1>4
<1> HIDE DEF pi
<1>6. \A q \in PiIds \ {pi} : piValue[q] # {} => piValue'[q] # {}
  BY <1>2
<1>7. Renames(program, piValue, v, Operand(program, pi), pi.c)
  BY <1>1, <1>2 DEF RenamingInv, SubstitutionValid
<1>8. ASSUME NEW use, NEW original, original \notin PiIds, NEW b,
             Renames(program, piValue, use, original, b)
      PROVE  /\ use # pi => Renames(program, piValue', use, original, b)
             /\ use = pi => Renames(program, piValue', v, original, b)
  <2>1. \A q \in PiIds \ {pi} : piValue[q] # {} => piValue'[q] # {}
    BY <1>6
  <2>2. v \in piValue[pi] /\ pi \in PiIds /\ program \in Programs
    BY <1>1, <1>2
  <2> QED BY <1>7, <1>8, <2>1, <2>2, UseAfterRemoval
<1>9. ASSUME NEW b \in Blocks, NEW i \in {1, 2}
      PROVE  Renames(program', piValue', icmps'[b].ops[i], program'.icmps[b].ops[i], b)
  <2>1. program.icmps[b].ops[i] \notin PiIds
    BY <1>1, OriginalsAreNotPis
  <2>2. Renames(program, piValue, icmps[b].ops[i], program.icmps[b].ops[i], b)
    BY DEF RenamingInv, SubstitutionValid
  <2>3. icmps'[b].ops[i] = IF icmps[b].ops[i] = pi THEN v ELSE icmps[b].ops[i]
    BY <1>2, ReplacedOperands
  <2> QED BY <1>3, <1>8, <2>1, <2>2, <2>3
<1>10. ASSUME NEW q \in PiIds, NEW w \in piValue'[q]
       PROVE  Renames(program', piValue', w, Operand(program', q), q.c)
  <2>1. Operand(program, q) \notin PiIds
    BY <1>1, OriginalsAreNotPis
  <2>2. \A u \in piValue[q] : Renames(program, piValue, u, Operand(program, q), q.c)
    BY DEF RenamingInv, SubstitutionValid
  <2>3. CASE piValue[q] = {pi}
    <3>1. w = v
      BY <1>2, <2>3
    <3> QED BY <1>3, <1>8, <2>1, <2>2, <2>3, <3>1
  <2>4. CASE piValue[q] # {pi}
    <3>1. w \in piValue[q]
      BY <1>2, <2>4
    <3>2. w # pi
      BY <2>4, <3>1 DEF RenamingInv, OneIncoming
    <3> QED BY <1>3, <1>8, <2>1, <2>2, <3>1, <3>2
  <2> QED BY <2>3, <2>4
<1>11. SubstitutionValid'
  BY <1>9, <1>10 DEF SubstitutionValid
<1>12. LivePis'
  <2>1. \A q \in PiIds : piValue'[q] # {} => q # pi /\ piValue[q] # {}
    BY <1>2
  <2> QED BY <1>3, <1>5, <2>1 DEF LivePis
<1>13. PredicatesKept'
  BY <1>2, <1>3, ReplacedOperands DEF RenamingInv, PredicatesKept
<1>14. OneIncoming'
  BY <1>2 DEF RenamingInv, OneIncoming
<1> QED BY <1>11, <1>12, <1>13, <1>14 DEF RenamingInv

LEMMA InitRenaming == PassInit => RenamingInv
BY DEF PassInit, RenamingInv, SubstitutionValid, LivePis, PredicatesKept, OneIncoming, Renames

LEMMA StepRenaming == PassInv /\ RenamingInv /\ [PassNext]_allVars => RenamingInv'
<1> SUFFICES ASSUME PassInv, RenamingInv, [PassNext]_allVars PROVE RenamingInv'
  OBVIOUS
<1>1. CASE UNCHANGED <<program, icmps, piNodeList, piValue>> /\ LivePis'
  BY <1>1 DEF RenamingInv, SubstitutionValid, PredicatesKept, OneIncoming, Renames
<1>2. CASE InsertPis \/ Substitute \/ RemovePi
  BY <1>2, RenamingAfterInsert, RenamingAfterSubstitute, RenamingAfterRemovePi
<1>3. CASE UNCHANGED <<program, icmps, piNodeList, piValue, stage, pos>>
  BY <1>1, <1>3 DEF RenamingInv, LivePis
<1>4. CASE FindComparisons \/ AddInequalities \/ AddInequality \/ FinishGraph
           \/ SkipBranch \/ Verdict \/ Done \/ Call
  <2>1. UNCHANGED <<program, icmps, piNodeList, piValue>>
    BY <1>4 DEF FindComparisons, AddInequalities, AddInequality, FinishGraph,
                SkipBranch, Verdict, Done, Call
  <2>2. LivePis'
    BY <1>4, <2>1 DEF RenamingInv, LivePis, FindComparisons, AddInequalities,
         AddInequality, FinishGraph, EndOf, SkipBranch, Verdict, Done, Call
  <2> QED BY <1>1, <2>1, <2>2
<1>5. CASE NextLoop
  <2>1. UNCHANGED <<program, icmps, piNodeList, piValue>>
    BY <1>5 DEF NextLoop
  <2>2. LivePis'
    BY <1>5, <2>1 DEF RenamingInv, LivePis, NextLoop, EndOf
  <2> QED BY <1>1, <2>1, <2>2
<1>6. CASE TestBranch \/ Proving \/ Branch \/ UNCHANGED allVars
  BY <1>3, <1>6 DEF TestBranch, Proving, Branch, EnterBlock, passVars, allVars
<1>7. ASSUME NEW b \in Blocks, RemoveBranch(b) PROVE RenamingInv'
  BY <1>3, <1>7 DEF RemoveBranch
<1> QED
  BY <1>2, <1>4, <1>5, <1>6, <1>7 DEF PassNext, Pass

\* While the pass rewrites operands, each of them is the original or a pi of it
\* that dominates the use, whatever the control flow graph and the order of the
\* comparisons (AbcRemover.cpp:111-141, 194-201).
THEOREM SubstitutionStaysValid == PassSpec => []SubstitutionValid
<1>1. RenamingInv => SubstitutionValid
  BY DEF RenamingInv
<1> QED
  BY <1>1, InitPassInv, StepPassInv, InitRenaming, StepRenaming, PTL DEF PassSpec

\* When the branches are removed, no pi is left and every comparison is the one
\* the function had (AbcRemover.cpp:194-201).
THEOREM PassRestores == PassSpec => []Restored
<1>1. PassInv /\ RenamingInv => Restored
  <2> SUFFICES ASSUME PassInv, RenamingInv, stage \in {"remove", "done"}
               PROVE  icmps = program.icmps /\ \A pi \in PiIds : piValue[pi] = {}
    BY DEF Restored
  <2>1. \A pi \in PiIds : piValue[pi] = {}
    BY DEF RenamingInv, LivePis
  <2>2. \A b \in Blocks : \A i \in {1, 2} : icmps[b].ops[i] = program.icmps[b].ops[i]
    BY <2>1 DEF RenamingInv, SubstitutionValid, Renames
  <2>3. program.icmps \in [Blocks -> CurrentIcmps]
    <3>1. program.icmps \in [Blocks -> ICmps]
      BY ProgramParts, BlocksAssumption DEF PassInv, PassTypeOK
    <3> QED BY <3>1, ValueTypes
  <2>4. icmps \in [Blocks -> CurrentIcmps]
    BY DEF PassInv, PassTypeOK, CurrentIcmps
  <2>5. ASSUME NEW b \in Blocks PROVE icmps[b] = program.icmps[b]
    <3>1. icmps[b] \in CurrentIcmps /\ program.icmps[b] \in CurrentIcmps
      BY <2>3, <2>4
    <3>2. icmps[b].pred = program.icmps[b].pred
      BY DEF RenamingInv, PredicatesKept
    <3>3. icmps[b].ops[1] = program.icmps[b].ops[1] /\ icmps[b].ops[2] = program.icmps[b].ops[2]
      BY <2>2
    <3>4. icmps[b].ops = program.icmps[b].ops
      BY <3>1, <3>3 DEF CurrentIcmps
    <3> QED BY <3>1, <3>2, <3>4 DEF CurrentIcmps
  <2> QED BY <2>1, <2>3, <2>4, <2>5
<1> QED
  BY <1>1, InitPassInv, StepPassInv, InitRenaming, StepRenaming, PTL DEF PassSpec

(***************************************************************************)
(* Each use ends up with its nearest pi.                                   *)
(***************************************************************************)

\* Of two edges that dominate a block one dominates the source of the other:
\* else no edge leaves the blocks that are reached without the one or without
\* the other, and the block is not among them.
LEMMA DominanceLinear ==
  ASSUME NEW p \in Programs, NEW c, NEW s, NEW c2, NEW s2, NEW b \in Blocks,
         <<c, s>> # <<c2, s2>>,
         LandingDominates(p, c, s, b), LandingDominates(p, c2, s2, b)
  PROVE  LandingDominates(p, c, s, c2) \/ LandingDominates(p, c2, s2, c)
<1> SUFFICES ASSUME ~LandingDominates(p, c, s, c2), ~LandingDominates(p, c2, s2, c)
             PROVE  FALSE
  OBVIOUS
<1>1. PICK r1 \in SUBSET (Blocks \ {b}) :
        /\ Entry \in r1
        /\ \A k \in r1 : \A t \in Sides :
             <<k, t>> # <<c, s>> /\ p.branch[k][t] \in Blocks => p.branch[k][t] \in r1
  BY DEF LandingDominates
<1>2. PICK r2 \in SUBSET (Blocks \ {b}) :
        /\ Entry \in r2
        /\ \A k \in r2 : \A t \in Sides :
             <<k, t>> # <<c2, s2>> /\ p.branch[k][t] \in Blocks => p.branch[k][t] \in r2
  BY DEF LandingDominates
<1>3. c2 \in r1
  <2>1. r1 \notin SUBSET (Blocks \ {c2})
    BY <1>1 DEF LandingDominates
  <2> QED BY <1>1, <2>1
<1>4. c \in r2
  <2>1. r2 \notin SUBSET (Blocks \ {c})
    BY <1>2 DEF LandingDominates
  <2> QED BY <1>2, <2>1
<1>5. ASSUME NEW k \in r1 \cup r2, NEW t \in Sides, p.branch[k][t] \in Blocks
      PROVE  p.branch[k][t] \in r1 \cup r2
  <2>1. CASE <<k, t>> = <<c, s>>
    BY <1>2, <1>4, <1>5, <2>1
  <2>2. CASE <<k, t>> = <<c2, s2>>
    BY <1>1, <1>3, <1>5, <2>2
  <2>3. CASE <<k, t>> \notin {<<c, s>>, <<c2, s2>>}
    BY <1>1, <1>2, <1>5, <2>3
  <2> QED BY <2>1, <2>2, <2>3
<1>6. r1 \cup r2 \in SUBSET Blocks /\ Entry \in r1 \cup r2
  BY <1>1, <1>2
<1>7. r1 \cup r2 = Blocks
  BY <1>5, <1>6, ProgramsAssumption DEF WellFormed
<1> QED BY <1>1, <1>2, <1>7

\* The pis of a value, out of some, that dominate a use in b.
Dominating(p, pis, original, b) ==
  {pi \in pis : Operand(p, pi) = original /\ LandingDominates(p, pi.c, pi.s, b)}

\* v is what a use in b has once the pis have been substituted.
Nearest(p, pis, v, original, b) ==
  LET dominating == Dominating(p, pis, original, b)
  IN  /\ dominating = {} => v = original
      /\ dominating # {} =>
           /\ v \in dominating
           /\ \A pi \in dominating \ {v} : LandingDominates(p, pi.c, pi.s, v.c)

\* A pi that takes the place of its own nearest pi is the nearest one where it
\* takes its place, and nowhere else.
LEMMA NearestKept ==
  ASSUME NEW p \in Programs, NEW pis \in SUBSET PiIds, NEW pi \in PiIds \ pis,
         \A q \in pis \cup {pi} : q.c \in Compared(p),
         NEW v, Nearest(p, pis, v, Operand(p, pi), pi.c),
         NEW use, NEW original, original \notin PiIds, NEW b \in Blocks,
         Nearest(p, pis, use, original, b)
  PROVE  Nearest(p, pis \cup {pi},
                 IF use = v /\ LandingDominates(p, pi.c, pi.s, b) THEN pi ELSE use,
                 original, b)
<1> DEFINE before == Dominating(p, pis, original, b)
           after  == Dominating(p, pis \cup {pi}, original, b)
           there  == Dominating(p, pis, Operand(p, pi), pi.c)
<1>0. /\ pi.c \in Blocks
      /\ Operand(p, pi) \notin PiIds
      /\ \A q \in pis : q \in PiIds /\ q.c \in Blocks
  BY OriginalsAreNotPis
<1>1. CASE ~LandingDominates(p, pi.c, pi.s, b)
  <2>1. after = before
    BY <1>1 DEF Dominating
  <2> QED BY <1>1, <2>1 DEF Nearest
<1>2. CASE LandingDominates(p, pi.c, pi.s, b) /\ Operand(p, pi) # original
  <2>1. after = before
    BY <1>2 DEF Dominating
  <2>2. use # v
    <3>1. use = original \/ (use \in PiIds /\ Operand(p, use) = original)
      BY DEF Nearest, Dominating
    <3>2. v = Operand(p, pi) \/ (v \in PiIds /\ Operand(p, v) = Operand(p, pi))
      BY DEF Nearest, Dominating
    <3> QED BY <1>0, <1>2, <3>1, <3>2
  <2> QED BY <2>1, <2>2 DEF Nearest
<1>3. CASE LandingDominates(p, pi.c, pi.s, b) /\ Operand(p, pi) = original
  <2>1. after = before \cup {pi} /\ pi \notin before
    BY <1>3 DEF Dominating
  <2>2. there \subseteq before
    BY <1>3, DominanceTransitive DEF Dominating
  <2>3. CASE use = v
    <3>1. ASSUME NEW q \in before PROVE LandingDominates(p, q.c, q.s, pi.c)
      <4>1. use \in before /\ use \in PiIds
        BY <3>1, <1>0 DEF Nearest, Dominating
      <4>2. use \in there
        BY <1>0, <2>3, <4>1 DEF Nearest, Dominating
      <4>3. LandingDominates(p, use.c, use.s, pi.c)
        BY <4>2 DEF Dominating
      <4>4. CASE q = use
        BY <4>3, <4>4
      <4>5. CASE q # use
        <5>1. LandingDominates(p, q.c, q.s, use.c)
          BY <3>1, <4>5 DEF Nearest
        <5> QED BY <4>3, <5>1, DominanceTransitive
      <4> QED BY <4>4, <4>5
    <3>2. \A q \in after \ {pi} : LandingDominates(p, q.c, q.s, pi.c)
      BY <2>1, <3>1
    <3> HIDE DEF before, there
    <3> QED BY <1>3, <2>1, <2>3, <3>2 DEF Nearest
  <2>4. CASE use # v
    <3>1. use \in before /\ use \in PiIds
      <4>1. before # {}
        <5>1. SUFFICES ASSUME before = {} PROVE FALSE
          OBVIOUS
        <5>2. use = original
          BY <5>1 DEF Nearest
        <5>3. there = {}
          BY <5>1, <2>2
        <5>4. v = original
          BY <1>3, <5>3 DEF Nearest
        <5> QED BY <2>4, <5>2, <5>4
      <4>2. use \in before
        BY <4>1 DEF Nearest
      <4> QED BY <1>0, <4>2 DEF Dominating
    <3>2. use \notin there
      <4> SUFFICES ASSUME use \in there PROVE FALSE
        OBVIOUS
      <4>1. v \in there
        BY DEF Nearest
      <4>2. LandingDominates(p, use.c, use.s, v.c)
        BY <2>4 DEF Nearest
      <4>3. LandingDominates(p, v.c, v.s, use.c)
        BY <2>2, <2>4, <4>1 DEF Nearest
      <4>4. LandingDominates(p, use.c, use.s, use.c)
        BY <4>2, <4>3, DominanceTransitive
      <4> QED BY <1>0, <3>1, <4>4, DominanceIrreflexive DEF Dominating
    <3>3. ~LandingDominates(p, use.c, use.s, pi.c)
      BY <1>3, <3>1, <3>2 DEF Dominating
    <3>4. <<use.c, use.s>> # <<pi.c, pi.s>>
      <4> SUFFICES ASSUME use.c = pi.c, use.s = pi.s PROVE FALSE
        OBVIOUS
      <4>1. use # pi /\ use \in pis
        BY <2>1, <3>1 DEF Dominating
      <4>2. use.i # pi.i /\ use.i \in {1, 2} /\ pi.i \in {1, 2}
        BY <3>1, <4>1 DEF PiIds
      <4>3. Operand(p, use) = Operand(p, pi)
        BY <1>3, <3>1 DEF Dominating
      <4>4. IcmpOf(p, pi.c).ops[1] = IcmpOf(p, pi.c).ops[2]
        BY <4>2, <4>3 DEF Operand
      <4> QED BY <4>4 DEF Compared
    <3>5. LandingDominates(p, pi.c, pi.s, use.c)
      <4>1. LandingDominates(p, use.c, use.s, b)
        BY <3>1 DEF Dominating
      <4> QED BY <1>3, <3>3, <3>4, <4>1, DominanceLinear
    <3>6. \A q \in before \ {use} : LandingDominates(p, q.c, q.s, use.c)
      BY <3>1 DEF Nearest
    <3> HIDE DEF before, there
    <3> QED BY <2>1, <2>4, <3>1, <3>5, <3>6 DEF Nearest
  <2> QED BY <2>3, <2>4
<1> QED BY <1>1, <1>2, <1>3

\* The first n pis of a list.
FirstPis(pis, n) == {pis[k] : k \in 1 .. n}

\* Every use has the nearest of the pis, operands of other pis included.
UsesNearest(p, uses, values, pis) ==
  /\ \A b \in Blocks : \A i \in {1, 2} :
       Nearest(p, pis, uses[b].ops[i], p.icmps[b].ops[i], b)
  /\ \A q \in PiIds : \A v \in values[q] :
       Nearest(p, pis, v, Operand(p, q), q.c)

\* The list has each pi of the comparisons taken so far once.
PisListed ==
  /\ stage = "find" => piNodeList = << >>
  /\ stage \in {"insert", "substitute"} =>
       /\ \A j, k \in 1 .. Len(comparisons) :
            comparisons[j] = comparisons[k] => j = k
       /\ \A j, k \in 1 .. Len(piNodeList) : piNodeList[j] = piNodeList[k] => j = k
  /\ stage = "insert" =>
       \A k \in 1 .. Len(piNodeList) :
         \E j \in 1 .. pos - 1 : j <= Len(comparisons) /\ piNodeList[k].c = comparisons[j]
  /\ stage \in {"insert", "substitute", "inequalities"} =>
       \A k \in 1 .. Len(piNodeList) :
         piNodeList[k].c \in Compared(program) /\ piValue[piNodeList[k]] # {}

NearestInv ==
  /\ PisListed
  /\ stage \in {"find", "insert"} => UsesNearest(program, icmps, piValue, {})
  /\ stage = "substitute" =>
       UsesNearest(program, icmps, piValue, FirstPis(piNodeList, pos - 1))
  /\ stage = "inequalities" =>
       UsesNearest(program, icmps, piValue, FirstPis(piNodeList, Len(piNodeList)))

\* The pis of two operands in a row.
LEMMA TwoAndTwo ==
  ASSUME NEW a, NEW b, NEW d, NEW e
  PROVE  <<a, b>> \o <<d, e>> = <<a, b, d, e>>
<1> DEFINE S == {a, b, d, e}
           both == <<a, b>> \o <<d, e>>
<1>1. <<a, b>> \in Seq(S) /\ <<d, e>> \in Seq(S) /\ <<a, b, d, e>> \in Seq(S)
  OBVIOUS
<1>2. /\ Len(<<a, b>>) = 2 /\ Len(<<d, e>>) = 2 /\ Len(<<a, b, d, e>>) = 4
      /\ <<a, b>>[1] = a /\ <<a, b>>[2] = b /\ <<d, e>>[1] = d /\ <<d, e>>[2] = e
  OBVIOUS
<1>3. both \in Seq(S) /\ Len(both) = 4
  BY <1>1, <1>2, ConcatProperties
<1>4. both[1] = a /\ both[2] = b /\ both[3] = d /\ both[4] = e
  BY <1>1, <1>2, ConcatProperties
<1> HIDE DEF S, both
<1>5. \A k \in 1 .. 4 : both[k] = <<a, b, d, e>>[k]
  BY <1>4
<1>6. both = <<a, b, d, e>>
  BY <1>1, <1>2, <1>3, <1>5, SeqEqual
<1> QED BY <1>6 DEF both

\* The pis of one comparison are different ones, and all of them its own.
LEMMA PisOfDistinct ==
  ASSUME NEW p, NEW c
  PROVE  /\ \A j, k \in 1 .. Len(PisOf(p, c)) : PisOf(p, c)[j] = PisOf(p, c)[k] => j = k
         /\ \A k \in 1 .. Len(PisOf(p, c)) : PisOf(p, c)[k].c = c
<1> DEFINE pi(i, s) == [c |-> c, i |-> i, s |-> s]
<1>1. \A i \in {1, 2} : \A s \in Sides : pi(i, s).c = c
  OBVIOUS
<1>2. /\ pi(1, "T") # pi(1, "F") /\ pi(1, "T") # pi(2, "T") /\ pi(1, "T") # pi(2, "F")
      /\ pi(1, "F") # pi(2, "T") /\ pi(1, "F") # pi(2, "F") /\ pi(2, "T") # pi(2, "F")
  OBVIOUS
<1>3. \A i \in {1, 2} : PisFor(p, c, i) \in {<< >>, <<pi(i, "T"), pi(i, "F")>>}
  BY DEF PisFor
<1>4. /\ pi(1, "T").c = c /\ pi(1, "F").c = c /\ pi(2, "T").c = c /\ pi(2, "F").c = c
  OBVIOUS
<1> HIDE DEF pi
<1>5. PisOf(p, c) \in {<< >>, <<pi(1, "T"), pi(1, "F")>>, <<pi(2, "T"), pi(2, "F")>>,
                       <<pi(1, "T"), pi(1, "F"), pi(2, "T"), pi(2, "F")>>}
  <2>1. << >> \o << >> = << >>
    OBVIOUS
  <2>2. << >> \o <<pi(2, "T"), pi(2, "F")>> = <<pi(2, "T"), pi(2, "F")>>
    OBVIOUS
  <2>3. <<pi(1, "T"), pi(1, "F")>> \o << >> = <<pi(1, "T"), pi(1, "F")>>
    OBVIOUS
  <2>4. <<pi(1, "T"), pi(1, "F")>> \o <<pi(2, "T"), pi(2, "F")>> =
          <<pi(1, "T"), pi(1, "F"), pi(2, "T"), pi(2, "F")>>
    BY TwoAndTwo
  <2> QED BY <1>3, <2>1, <2>2, <2>3, <2>4 DEF PisOf
<1>6. CASE PisOf(p, c) = << >>
  BY <1>6
<1>7. ASSUME NEW i \in {1, 2}, PisOf(p, c) = <<pi(i, "T"), pi(i, "F")>>
      PROVE  /\ \A j, k \in 1 .. Len(PisOf(p, c)) : PisOf(p, c)[j] = PisOf(p, c)[k] => j = k
             /\ \A k \in 1 .. Len(PisOf(p, c)) : PisOf(p, c)[k].c = c
  BY <1>2, <1>4, <1>7
<1>8. CASE PisOf(p, c) = <<pi(1, "T"), pi(1, "F"), pi(2, "T"), pi(2, "F")>>
  BY <1>2, <1>4, <1>8
<1> QED BY <1>5, <1>6, <1>7, <1>8

\* A comparison's pis join the list, with their operands for incoming values.
LEMMA NearestAfterInsert ==
  PassInv /\ RenamingInv /\ NearestInv /\ InsertPis => NearestInv'
<1> SUFFICES ASSUME PassInv, RenamingInv, NearestInv, InsertPis PROVE NearestInv'
  OBVIOUS
<1> DEFINE c == comparisons[pos]
           new == PisOf(program, c)
           ids == {new[n] : n \in DOMAIN new}
           len == Len(piNodeList)
<1>1. /\ new \in Seq(PiIds) /\ piNodeList \in Seq(PiIds)
      /\ piNodeList' = piNodeList \o new
      /\ piValue' = [pi \in PiIds |-> IF pi \in ids THEN {Operand(program, pi)}
                                      ELSE piValue[pi]]
      /\ UNCHANGED <<program, comparisons, icmps, stage>> /\ stage = "insert"
      /\ pos' = pos + 1 /\ pos \in Nat /\ pos >= 1 /\ pos <= Len(comparisons)
      /\ program \in Programs /\ c \in Compared(program)
      /\ Len(comparisons) \in Nat
  BY ComparisonAt, PisOfType, LenProperties DEF InsertPis, PassInv, LoopsInRange, PassTypeOK, Compared
<1>2. /\ \A j, k \in 1 .. Len(new) : new[j] = new[k] => j = k
      /\ \A k \in 1 .. Len(new) : new[k].c = c
  BY PisOfDistinct
<1> HIDE DEF c, new
<1>3. /\ len \in Nat /\ Len(new) \in Nat /\ Len(piNodeList') = len + Len(new)
      /\ \A k \in 1 .. len : piNodeList'[k] = piNodeList[k]
      /\ \A k \in len + 1 .. len + Len(new) :
           k - len \in 1 .. Len(new) /\ piNodeList'[k] = new[k - len]
      /\ \A k \in 1 .. Len(piNodeList') : k \in 1 .. len \/ k \in len + 1 .. len + Len(new)
  <2>1. len \in Nat /\ Len(new) \in Nat
    BY <1>1
  <2>2. Len(piNodeList') = len + Len(new)
    BY <1>1
  <2>3. \A k \in 1 .. len : piNodeList'[k] = piNodeList[k]
    BY <1>1
  <2>4. ASSUME NEW k \in len + 1 .. len + Len(new)
        PROVE  k - len \in 1 .. Len(new) /\ piNodeList'[k] = new[k - len]
    BY <1>1, <2>1
  <2> HIDE DEF len
  <2>5. \A k \in 1 .. len + Len(new) : k \in 1 .. len \/ k \in len + 1 .. len + Len(new)
    BY <2>1
  <2> QED BY <2>1, <2>2, <2>3, <2>4, <2>5
<1>4. \A k \in 1 .. len : \E j \in 1 .. pos - 1 :
        j <= Len(comparisons) /\ piNodeList[k].c = comparisons[j]
  BY <1>1 DEF NearestInv, PisListed
<1>5. \A j, k \in 1 .. Len(comparisons) : comparisons[j] = comparisons[k] => j = k
  BY <1>1 DEF NearestInv, PisListed
<1>6. \A j, k \in 1 .. len : piNodeList[j] = piNodeList[k] => j = k
  BY <1>1 DEF NearestInv, PisListed
<1>7. \A k \in 1 .. len : piNodeList[k].c # c
  BY <1>1, <1>4, <1>5 DEF c
<1>8. \A k \in 1 .. len : piNodeList[k].c \in Compared(program) /\ piValue[piNodeList[k]] # {}
  BY <1>1 DEF NearestInv, PisListed
<1>9. \A k \in 1 .. len : piNodeList[k] \in PiIds
  BY <1>1
<1>10. \A k \in 1 .. Len(new) : new[k] \in ids /\ new[k] \in PiIds
  BY <1>1
<1> HIDE DEF len, ids
<1>11. \A j, k \in 1 .. Len(piNodeList') : piNodeList'[j] = piNodeList'[k] => j = k
  <2> TAKE j, k \in 1 .. Len(piNodeList')
  <2> HAVE piNodeList'[j] = piNodeList'[k]
  <2>1. CASE j \in 1 .. len /\ k \in 1 .. len
    BY <1>3, <1>6, <2>1
  <2>2. CASE j \in len + 1 .. len + Len(new) /\ k \in len + 1 .. len + Len(new)
    <3>1. j - len = k - len
      BY <1>2, <1>3, <2>2
    <3> QED BY <1>3, <2>2, <3>1
  <2>3. CASE j \in 1 .. len /\ k \in len + 1 .. len + Len(new)
    BY <1>2, <1>3, <1>7, <2>3
  <2>4. CASE j \in len + 1 .. len + Len(new) /\ k \in 1 .. len
    BY <1>2, <1>3, <1>7, <2>4
  <2> QED BY <1>3, <2>1, <2>2, <2>3, <2>4
<1>12. ASSUME NEW k \in 1 .. Len(piNodeList')
       PROVE  /\ \E j \in 1 .. pos' - 1 : j <= Len(comparisons) /\ piNodeList'[k].c = comparisons[j]
              /\ piNodeList'[k].c \in Compared(program)
              /\ piValue'[piNodeList'[k]] # {}
  <2>1. CASE k \in 1 .. len
    <3>1. /\ piNodeList'[k] = piNodeList[k] /\ piNodeList[k] \in PiIds
          /\ piNodeList[k].c \in Compared(program) /\ piValue[piNodeList[k]] # {}
      BY <1>3, <1>8, <1>9, <2>1
    <3>2. PICK j \in 1 .. pos - 1 :
            j <= Len(comparisons) /\ piNodeList[k].c = comparisons[j]
      BY <1>4, <2>1
    <3>3. j \in 1 .. pos' - 1
      BY <1>1
    <3>4. piValue'[piNodeList[k]] # {}
      BY <1>1, <3>1
    <3> QED BY <3>1, <3>2, <3>3, <3>4
  <2>2. CASE k \in len + 1 .. len + Len(new)
    <3>1. piNodeList'[k].c = comparisons[pos] /\ pos \in 1 .. pos' - 1
      BY <1>1, <1>2, <1>3, <2>2 DEF c
    <3>2. piNodeList'[k] \in ids /\ piNodeList'[k] \in PiIds
      BY <1>3, <1>10, <2>2
    <3> QED BY <1>1, <3>1, <3>2 DEF c
  <2> QED BY <1>3, <2>1, <2>2
<1>13. PisListed'
  BY <1>1, <1>5, <1>11, <1>12 DEF PisListed
<1>14. UsesNearest(program', icmps', piValue', {})
  <2>1. UsesNearest(program, icmps, piValue, {})
    BY <1>1 DEF NearestInv
  <2>2. \A q \in PiIds : Nearest(program, {}, Operand(program, q), Operand(program, q), q.c)
    BY DEF Nearest, Dominating
  <2> QED BY <1>1, <2>1, <2>2 DEF UsesNearest
<1> QED BY <1>1, <1>13, <1>14 DEF NearestInv

\* The next pi takes the place of its incoming value.
LEMMA NearestAfterSubstitute ==
  PassInv /\ RenamingInv /\ NearestInv /\ Substitute => NearestInv'
<1> SUFFICES ASSUME PassInv, RenamingInv, NearestInv, Substitute PROVE NearestInv'
  OBVIOUS
<1> DEFINE pi == piNodeList[pos]
           pis == FirstPis(piNodeList, pos - 1)
<1>1. /\ pi \in PiIds /\ program \in Programs /\ piNodeList \in Seq(PiIds)
      /\ pos \in Nat /\ pos >= 1 /\ pos <= Len(piNodeList) /\ Len(piNodeList) \in Nat
  BY PiAt, LenProperties DEF Substitute, PassInv, LoopsInRange, PassTypeOK
<1>2. PICK v \in piValue[pi] : Substitution(pi, v)
  BY DEF Substitute
<1>3. /\ UNCHANGED <<program, comparisons, piNodeList, stage>> /\ stage = "substitute"
      /\ pos' = pos + 1
  BY DEF Substitute
<1>4. PisListed'
  <2>1. \A q \in PiIds : piValue[q] # {} => piValue'[q] # {}
    BY <1>2 DEF Substitution
  <2>2. \A k \in 1 .. Len(piNodeList) : piNodeList[k] \in PiIds
    BY <1>1
  <2> QED BY <1>3, <2>1, <2>2 DEF NearestInv, PisListed
<1>5. /\ \A k \in 1 .. Len(piNodeList) :
           piNodeList[k] \in PiIds /\ piNodeList[k].c \in Compared(program)
      /\ \A j, k \in 1 .. Len(piNodeList) : piNodeList[j] = piNodeList[k] => j = k
  BY <1>1, <1>3 DEF NearestInv, PisListed
<1>6. pis \in SUBSET PiIds /\ pi \notin pis
  BY <1>1, <1>5 DEF FirstPis
<1>7. FirstPis(piNodeList', pos' - 1) = pis \cup {pi}
  <2>1. pos' - 1 = pos /\ 1 .. pos = (1 .. pos - 1) \cup {pos}
    BY <1>1, <1>3
  <2> QED BY <1>3, <2>1 DEF FirstPis
<1>8. \A q \in pis \cup {pi} : q.c \in Compared(program)
  BY <1>1, <1>5 DEF FirstPis
<1>9. UsesNearest(program, icmps, piValue, pis)
  BY <1>3 DEF NearestInv
<1> HIDE DEF pi, pis
<1>10. Nearest(program, pis, v, Operand(program, pi), pi.c)
  BY <1>1, <1>2, <1>9 DEF UsesNearest
<1>11. ASSUME NEW use, NEW original, original \notin PiIds, NEW b \in Blocks,
              Nearest(program, pis, use, original, b)
       PROVE  Nearest(program, pis \cup {pi},
                      IF use = v /\ LandingDominates(program, pi.c, pi.s, b) THEN pi ELSE use,
                      original, b)
  BY <1>1, <1>6, <1>8, <1>10, <1>11, NearestKept
<1>12. ASSUME NEW b \in Blocks, NEW i \in {1, 2}
       PROVE  Nearest(program, pis \cup {pi}, icmps'[b].ops[i], program.icmps[b].ops[i], b)
  <2>1. program.icmps[b].ops[i] \notin PiIds
    BY <1>1, OriginalsAreNotPis
  <2>2. Nearest(program, pis, icmps[b].ops[i], program.icmps[b].ops[i], b)
    BY <1>9 DEF UsesNearest
  <2>3. icmps'[b].ops[i] = IF icmps[b].ops[i] = v /\ LandingDominates(program, pi.c, pi.s, b)
                           THEN pi ELSE icmps[b].ops[i]
    BY <1>2, ReplacedOperands DEF Substitution
  <2> QED BY <1>11, <2>1, <2>2, <2>3
<1>13. ASSUME NEW q \in PiIds, NEW w \in piValue'[q]
       PROVE  Nearest(program, pis \cup {pi}, w, Operand(program, q), q.c)
  <2>1. Operand(program, q) \notin PiIds /\ q.c \in Blocks
    BY <1>1, OriginalsAreNotPis
  <2>2. PICK u \in piValue[q] :
          w = IF u = v /\ LandingDominates(program, pi.c, pi.s, q.c) THEN pi ELSE u
    <3>1. CASE piValue[q] = {v} /\ LandingDominates(program, pi.c, pi.s, q.c)
      BY <1>2, <3>1 DEF Substitution
    <3>2. CASE ~(piValue[q] = {v} /\ LandingDominates(program, pi.c, pi.s, q.c))
      <4>1. w \in piValue[q]
        BY <1>2, <3>2 DEF Substitution
      <4>2. \A u \in piValue[q] : u = w
        BY <4>1 DEF RenamingInv, OneIncoming
      <4>3. w = v => piValue[q] = {v}
        BY <4>1, <4>2
      <4> QED BY <3>2, <4>1, <4>3
    <3> QED BY <3>1, <3>2
  <2>3. Nearest(program, pis, u, Operand(program, q), q.c)
    BY <1>9, <2>2 DEF UsesNearest
  <2> QED BY <1>11, <2>1, <2>2, <2>3
<1>14. UsesNearest(program', icmps', piValue', FirstPis(piNodeList', pos' - 1))
  BY <1>3, <1>7, <1>12, <1>13 DEF UsesNearest
<1> QED BY <1>3, <1>4, <1>14 DEF NearestInv

LEMMA InitNearest == PassInit => NearestInv
BY DEF PassInit, NearestInv, PisListed, UsesNearest, Nearest, Dominating

LEMMA StepNearest ==
  PassInv /\ RenamingInv /\ NearestInv /\ [PassNext]_allVars => NearestInv'
<1> SUFFICES ASSUME PassInv, RenamingInv, NearestInv, [PassNext]_allVars PROVE NearestInv'
  OBVIOUS
<1>0. /\ Len(comparisons) \in Nat /\ Len(piNodeList) \in Nat /\ pos \in Nat
  BY LenProperties DEF PassInv, PassTypeOK
<1>1. CASE stage' \notin {"find", "insert", "substitute", "inequalities"}
  BY <1>1 DEF NearestInv, PisListed
<1>2. CASE InsertPis \/ Substitute
  BY <1>2, NearestAfterInsert, NearestAfterSubstitute
<1>3. CASE FindComparisons
  <2>1. /\ stage = "find" /\ stage' = "insert"
        /\ UNCHANGED <<program, icmps, piNodeList, piValue>>
        /\ comparisons' \in Orders(Compared(program))
    BY <1>3 DEF FindComparisons
  <2>2. piNodeList' = << >>
    BY <2>1 DEF NearestInv, PisListed
  <2>3. \A j, k \in 1 .. Len(comparisons') : comparisons'[j] = comparisons'[k] => j = k
    <3>1. comparisons' \in Seq(Compared(program))
      BY <2>1, OrdersType DEF Compared
    <3>2. DOMAIN comparisons' = 1 .. Len(comparisons')
      BY <3>1
    <3> QED BY <2>1, <3>2 DEF Orders
  <2>4. PisListed'
    BY <2>1, <2>2, <2>3 DEF PisListed
  <2> QED BY <2>1, <2>4 DEF NearestInv
<1>4. CASE UNCHANGED <<program, icmps, piNodeList, piValue>> /\
           stage' = "inequalities" /\ stage = "inequalities"
  BY <1>4 DEF NearestInv, PisListed
<1>5. CASE AddInequalities \/ AddInequality
  BY <1>4, <1>5 DEF AddInequalities, AddInequality
<1>6. CASE FinishGraph
  BY <1>1, <1>6 DEF FinishGraph, EndOf
<1>7. CASE NextLoop
  <2>1. UNCHANGED <<program, comparisons, icmps, piNodeList, piValue>>
    BY <1>7 DEF NextLoop
  <2>2. CASE EndOf("insert", Len(comparisons), "substitute", 1)
    <3>1. stage = "insert" /\ stage' = "substitute" /\ pos' = 1
      BY <2>2 DEF EndOf
    <3>2. FirstPis(piNodeList', pos' - 1) = {}
      BY <3>1 DEF FirstPis
    <3>3. PisListed'
      BY <2>1, <3>1 DEF NearestInv, PisListed
    <3>4. UsesNearest(program', icmps', piValue', FirstPis(piNodeList', pos' - 1))
      BY <2>1, <3>1, <3>2 DEF NearestInv
    <3> QED BY <3>1, <3>3, <3>4 DEF NearestInv
  <2>3. CASE EndOf("substitute", Len(piNodeList), "inequalities", 1)
    <3>1. stage = "substitute" /\ stage' = "inequalities" /\ pos - 1 = Len(piNodeList)
      BY <1>0, <2>3 DEF EndOf
    <3> QED BY <2>1, <3>1 DEF NearestInv, PisListed
  <2> QED BY <1>1, <1>7, <2>2, <2>3 DEF NextLoop, EndOf
<1>8. CASE UNCHANGED <<program, comparisons, icmps, piNodeList, piValue, stage, pos>>
  BY <1>8 DEF NearestInv, PisListed
<1>9. CASE TestBranch \/ Proving \/ Branch \/ UNCHANGED allVars
  BY <1>8, <1>9 DEF TestBranch, Proving, Branch, EnterBlock, passVars, allVars
<1>10. CASE SkipBranch \/ Verdict \/ RemovePi \/ Done \/ Call
  BY <1>1, <1>10 DEF SkipBranch, Verdict, RemovePi, Done, Call
<1>11. ASSUME NEW b \in Blocks, RemoveBranch(b) PROVE NearestInv'
  BY <1>8, <1>11 DEF RemoveBranch
<1> QED
  BY <1>2, <1>3, <1>5, <1>6, <1>7, <1>9, <1>10, <1>11 DEF PassNext, Pass

\* In whatever order the comparisons come, and whatever the control flow graph,
\* each operand ends up as the nearest of its pis that dominate it: a pi that
\* comes later in the list finds its own incoming value rewritten by the pis
\* above it, and replaces that (AbcRemover.cpp:111-141).
THEOREM NearestPiChosen == PassSpec => []NearestPi
<1>1. PassInv /\ RenamingInv /\ NearestInv => NearestPi
  <2> SUFFICES ASSUME PassInv, RenamingInv, NearestInv, stage = "inequalities",
                      NEW b \in Blocks, NEW i \in {1, 2}
               PROVE  LET of == program.icmps[b].ops[i]
                          dominating == {pi \in PiIds :
                                           /\ piValue[pi] # {}
                                           /\ Operand(program, pi) = of
                                           /\ LandingDominates(program, pi.c, pi.s, b)}
                          v == icmps[b].ops[i]
                      IN  IF dominating = {} THEN v = of
                          ELSE /\ v \in dominating
                               /\ \A pi \in dominating \ {v} :
                                    LandingDominates(program, pi.c, pi.s, v.c)
    BY DEF NearestPi
  <2>1. \A pi \in PiIds : piValue[pi] # {} <=> pi \in FirstPis(piNodeList, Len(piNodeList))
    BY DEF RenamingInv, LivePis, NearestInv, PisListed, FirstPis
  <2>2. FirstPis(piNodeList, Len(piNodeList)) \subseteq PiIds
    <3>1. piNodeList \in Seq(PiIds)
      BY DEF PassInv, PassTypeOK
    <3> QED BY <3>1 DEF FirstPis
  <2>3. Dominating(program, FirstPis(piNodeList, Len(piNodeList)), program.icmps[b].ops[i], b) =
          {pi \in PiIds : /\ piValue[pi] # {}
                          /\ Operand(program, pi) = program.icmps[b].ops[i]
                          /\ LandingDominates(program, pi.c, pi.s, b)}
    BY <2>1, <2>2 DEF Dominating
  <2>4. Nearest(program, FirstPis(piNodeList, Len(piNodeList)), icmps[b].ops[i],
                program.icmps[b].ops[i], b)
    BY DEF NearestInv, UsesNearest
  <2> QED BY <2>3, <2>4 DEF Nearest
<1> QED
  BY <1>1, InitPassInv, StepPassInv, InitRenaming, StepRenaming, InitNearest,
     StepNearest, PTL DEF PassSpec
=============================================================================
