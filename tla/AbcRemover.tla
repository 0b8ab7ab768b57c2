----------------------------- MODULE AbcRemover -----------------------------
(***************************************************************************)
(* AbcRemover.cpp, Pi.cpp and Comparison.cpp: the pass that removes        *)
(* redundant checks from one function, composed with the prover it asks    *)
(* and with the execution of the function it leaves behind.                *)
(*                                                                         *)
(* A function is its branches.  Each block ends in a conditional branch,   *)
(* on an icmp, with the successors T and F.  A successor that is a block   *)
(* of the function, or Join, the rest of the function, has successors of   *)
(* its own; Exit is a block without successors that no other branch leads  *)
(* to: the exit(1) of a bounds check, or a return.  Critical edges have    *)
(* been split before the pass runs (BreakCriticalEdges), so each side of a *)
(* branch leads to a landing block of its own, where its pis are put.      *)
(***************************************************************************)
EXTENDS ProverSafety

CONSTANTS
  Blocks, Entry, Join, Exit,  \* the blocks that end in a conditional branch
  Vars,                       \* the operands that are not constants
  Programs                    \* the functions the pass may be run on

Sides   == {"T", "F"}
PiIds   == [c : Blocks, i : {1, 2}, s : Sides]
Signed   == {"SLT", "SLE", "SGT", "SGE"}
Unsigned == {"ULT", "ULE", "UGT", "UGE"}
Strict   == {"SLT", "ULT"}
Lax      == {"SLE", "ULE"}

PassValues == Vars \cup Constants \cup PiIds

ICmps == [pred : Signed \cup Unsigned \cup {"EQ"},
          ops : (Vars \cup Constants) \X (Vars \cup Constants)]

\* The function: its icmp instructions, its branches, and the block at whose
\* head each variable is defined.
Functions ==
  [icmps  : [Blocks -> ICmps],
   branch : [Blocks -> [cond : Blocks, T : Blocks \cup {Join, Exit},
                                       F : Blocks \cup {Join, Exit}]],
   defs   : [Vars -> Blocks]]

(***************************************************************************)
(* The dominator tree.  d is dominated by an edge if the other edges lead  *)
(* nowhere near d: some set of blocks that has the entry, and that they do *)
(* not leave, does not have d.                                             *)
(***************************************************************************)
LandingDominates(p, c, s, d) ==
  \E reached \in SUBSET (Blocks \ {d}) :
    /\ Entry \in reached
    /\ \A b \in reached : \A t \in Sides :
         <<b, t>> # <<c, s>> /\ p.branch[b][t] \in Blocks =>
           p.branch[b][t] \in reached

BlockDominates(p, b, d) ==
  \/ b \in {d, Entry}
  \/ \E reached \in SUBSET (Blocks \ {b, d}) :
       /\ Entry \in reached
       /\ \A r \in reached : \A t \in Sides :
            p.branch[r][t] \in Blocks \ {b} => p.branch[r][t] \in reached

\* SSA: definitions dominate uses.  The entry has no predecessor, and every
\* other block is reached from it.
WellFormed(p) ==
  /\ p \in Functions
  /\ \A reached \in SUBSET Blocks :
       /\ Entry \in reached
       /\ \A b \in reached : \A t \in Sides :
            p.branch[b][t] \in Blocks => p.branch[b][t] \in reached
       => reached = Blocks
  /\ \A b \in Blocks : Entry \notin {p.branch[b].T, p.branch[b].F}
  /\ \A b \in Blocks : BlockDominates(p, p.branch[b].cond, b)
  /\ \A b \in Blocks : \A i \in {1, 2} :
       p.icmps[b].ops[i] \in Vars => BlockDominates(p, p.defs[p.icmps[b].ops[i]], b)

ASSUME BlocksAssumption ==
  /\ IsFiniteSet(Blocks) /\ Entry \in Blocks
  /\ {Join, Exit} \cap Blocks = {} /\ Join # Exit
  /\ Values = PassValues /\ PiIds \cap (Vars \cup Constants) = {}
ASSUME ProgramsAssumption == \A p \in Programs : WellFormed(p)

VARIABLES
  program,      \* the function before the pass
  stage,        \* where run() is
  pos,          \* how far the current loop of run() has come
  comparisons,  \* set<Comparison*>, in the order of its pointers
  icmps,        \* the operands of the icmps as the pass rewrites them
  piNodeList,   \* the pis, in the order of their creation
  piValue,      \* the incoming value of each pi, as a set of at most one
  todo,         \* the inequalities of a comparison that are still to be added
  branchesToRemove,
  unconditional,  \* the branches that have been replaced
  erased,         \* the icmps that have been erased
  modified,       \* what run() returned
  at, val         \* the run of the function after the pass

passVars == <<program, stage, pos, comparisons, icmps, piNodeList, piValue,
              todo, branchesToRemove, unconditional, erased, modified>>
runVars  == <<at, val>>
allVars  == <<vars, passVars, runVars>>

(***************************************************************************)
(* What run() reads off the function.                                      *)
(***************************************************************************)
IcmpOf(p, b) == p.icmps[p.branch[b].cond]

\* findComparisons takes the branches that compare two different operands.
Compared(p) ==
  {b \in Blocks : /\ IcmpOf(p, b).pred \in Signed \cup Unsigned
                  /\ IcmpOf(p, b).ops[1] # IcmpOf(p, b).ops[2]}

\* The orders in which a set of pointers to S may be iterated over.
Orders(S) ==
  {f \in [1 .. Cardinality(S) -> S] : \A j, k \in DOMAIN f : f[j] = f[k] => j = k}

\* The operand a pi is made for.
Operand(p, pi) == IcmpOf(p, pi.c).ops[pi.i]

\* Comparison::setValue: a constant stands for itself on either side.
OnSide(p, c, i, s) ==
  LET pi == [c |-> c, i |-> i, s |-> s]
  IN  IF Operand(p, pi) \in Constants THEN Operand(p, pi) ELSE pi

\* addPi, for both sides of an operand that is not a constant.
PisFor(p, c, i) ==
  LET onTrue == [c |-> c, i |-> i, s |-> "T"]    onFalse == [c |-> c, i |-> i, s |-> "F"]
  IN  IF Operand(p, onTrue) \in Constants THEN << >> ELSE <<onTrue, onFalse>>

PisOf(p, c) == PisFor(p, c, 1) \o PisFor(p, c, 2)

Edge(a, b, c) == [a |-> a, b |-> b, c |-> c]

\* Mutant of EdgesOf: the cases of < and <= are exchanged.
EdgesOfSwapped(p, c) ==
  LET icmp == IcmpOf(p, c)
      v_j == OnSide(p, c, 1, "T")    v_k == OnSide(p, c, 1, "F")
      w_s == OnSide(p, c, 2, "T")    w_t == OnSide(p, c, 2, "F")
  IN  IF icmp.pred \in Strict \cup Lax
      THEN << Edge(icmp.ops[1], v_j, 0), Edge(icmp.ops[2], w_s, 0),
              Edge(w_s, v_j, IF icmp.pred \in Lax THEN -1 ELSE 0),
              Edge(icmp.ops[1], v_k, 0), Edge(icmp.ops[2], w_t, 0),
              Edge(v_k, w_t, IF icmp.pred \in Strict THEN -1 ELSE 0) >>
      ELSE << >>

\* findICmpInequalities: the pis are bounded by their operands and, on the
\* side the comparison decides, by each other.  Nothing for > and >=.
EdgesOf(p, c) ==
  LET icmp == IcmpOf(p, c)
      v_j == OnSide(p, c, 1, "T")    v_k == OnSide(p, c, 1, "F")
      w_s == OnSide(p, c, 2, "T")    w_t == OnSide(p, c, 2, "F")
  IN  IF icmp.pred \in Strict \cup Lax
      THEN << Edge(icmp.ops[1], v_j, 0), Edge(icmp.ops[2], w_s, 0),
              Edge(w_s, v_j, IF icmp.pred \in Strict THEN -1 ELSE 0),
              Edge(icmp.ops[1], v_k, 0), Edge(icmp.ops[2], w_t, 0),
              Edge(v_k, w_t, IF icmp.pred \in Lax THEN -1 ELSE 0) >>
      ELSE << >>

\* All the inequalities the pass can add.
PassEdges ==
  UNION {UNION {{EdgesOf(p, c)[n] : n \in DOMAIN EdgesOf(p, c)} : c \in Compared(p)} :
           p \in Programs}

\* demandProve: what has to hold for the branch to go to T.
QueryOf(icmp) ==
  IF icmp.pred \in {"SLT", "ULT", "SLE", "ULE"}
  THEN Edge(icmp.ops[2], icmp.ops[1], IF icmp.pred \in Strict THEN -1 ELSE 0)
  ELSE Edge(icmp.ops[1], icmp.ops[2], IF icmp.pred \in {"SGT", "UGT"} THEN -1 ELSE 0)

PassQueries == [a : PassValues, b : PassValues, c : APInts]

\* The prover takes what the pass has to say to it.
ASSUME InterfaceAssumption ==
  PassEdges \subseteq EdgeInputs /\ PassQueries \subseteq Queries

(***************************************************************************)
(* run().                                                                  *)
(***************************************************************************)
PassInit ==
  /\ Init
  /\ program \in Programs
  /\ stage = "find"
  /\ pos = 1
  /\ comparisons = << >>
  /\ icmps = program.icmps
  /\ piNodeList = << >>
  /\ piValue = [pi \in PiIds |-> {}]
  /\ todo = << >>
  /\ branchesToRemove = {}
  /\ unconditional = {}
  /\ erased = {}
  /\ modified = FALSE
  /\ at = Exit
  /\ val = [v \in Vars |-> 0]

\* Mutant of FindComparisons: every branch counts as a comparison.
FindComparisonsAny ==
  /\ stage = "find"
  /\ comparisons' \in Orders(Blocks)
  /\ stage' = "insert"
  /\ UNCHANGED <<vars, runVars, program, pos, icmps, piNodeList, piValue, todo,
                 branchesToRemove, unconditional, erased, modified>>

FindComparisons ==
  /\ stage = "find"
  /\ comparisons' \in Orders(Compared(program))
  /\ stage' = "insert"
  /\ UNCHANGED <<vars, runVars, program, pos, icmps, piNodeList, piValue, todo,
                 branchesToRemove, unconditional, erased, modified>>

\* The end of a loop of run() is the start of the next one.
EndOf(s, len, next, start) ==
  /\ stage = s
  /\ pos = len + 1
  /\ stage' = next
  /\ pos' = start

InsertPis ==
  /\ stage = "insert"
  /\ pos <= Len(comparisons)
  /\ LET new == PisOf(program, comparisons[pos])
         ids == {new[n] : n \in DOMAIN new}
     IN  /\ piNodeList' = piNodeList \o new
         /\ piValue' = [pi \in PiIds |-> IF pi \in ids THEN {Operand(program, pi)}
                                         ELSE piValue[pi]]
  /\ pos' = pos + 1
  /\ UNCHANGED <<vars, runVars, program, stage, comparisons, icmps, todo,
                 branchesToRemove, unconditional, erased, modified>>

\* Instruction::replaceUsesOfWith.
Replaced(icmp, v, by) ==
  [pred |-> icmp.pred,
   ops  |-> << IF icmp.ops[1] = v THEN by ELSE icmp.ops[1],
               IF icmp.ops[2] = v THEN by ELSE icmp.ops[2] >>]

\* Mutant of Substitution: the pi replaces itself in its own definition.
SubstitutionOfSelf(pi, v) ==
  /\ icmps' = [b \in Blocks |->
       IF LandingDominates(program, pi.c, pi.s, b)
       THEN Replaced(icmps[b], v, pi) ELSE icmps[b]]
  /\ piValue' = [q \in PiIds |->
       IF piValue[q] = {v} /\ (q = pi \/ LandingDominates(program, pi.c, pi.s, q.c))
       THEN {pi} ELSE piValue[q]]

\* Mutant of Substitution: every use is replaced, dominated or not.
SubstitutionEverywhere(pi, v) ==
  /\ icmps' = [b \in Blocks |-> Replaced(icmps[b], v, pi)]
  /\ piValue' = [q \in PiIds |->
       IF piValue[q] = {v} /\ q # pi THEN {pi} ELSE piValue[q]]

\* Mutant of Substitution: the uses of the operand the pi was made for.
SubstitutionOfOperand(pi, v) ==
  LET old == Operand(program, pi)
  IN  /\ icmps' = [b \in Blocks |->
           IF LandingDominates(program, pi.c, pi.s, b)
           THEN Replaced(icmps[b], old, pi) ELSE icmps[b]]
      /\ piValue' = [q \in PiIds |->
           IF piValue[q] = {old} /\ LandingDominates(program, pi.c, pi.s, q.c)
           THEN {pi} ELSE piValue[q]]

\* The pi replaces v, its incoming value, in every other instruction that its
\* landing block dominates, other pis included.  Two pis of one landing block
\* have different operands, so their order in the block does not matter.
Substitution(pi, v) ==
  /\ icmps' = [b \in Blocks |->
       IF LandingDominates(program, pi.c, pi.s, b)
       THEN Replaced(icmps[b], v, pi) ELSE icmps[b]]
  /\ piValue' = [q \in PiIds |->
       IF piValue[q] = {v} /\ LandingDominates(program, pi.c, pi.s, q.c)
       THEN {pi} ELSE piValue[q]]

Substitute ==
  /\ stage = "substitute"
  /\ pos <= Len(piNodeList)
  /\ \E v \in piValue[piNodeList[pos]] : Substitution(piNodeList[pos], v)
  /\ pos' = pos + 1
  /\ UNCHANGED <<vars, runVars, program, stage, comparisons, piNodeList, todo,
                 branchesToRemove, unconditional, erased, modified>>

AddInequalities ==
  /\ stage = "inequalities"
  /\ pos <= Len(comparisons)
  /\ todo = << >>
  /\ todo' = EdgesOf(program, comparisons[pos])
  /\ pos' = pos + 1
  /\ UNCHANGED <<vars, runVars, program, stage, comparisons, icmps, piNodeList,
                 piValue, branchesToRemove, unconditional, erased, modified>>

AddInequality ==
  /\ stage = "inequalities"
  /\ todo # << >>
  /\ Add(Head(todo))
  /\ todo' = Tail(todo)
  /\ UNCHANGED <<runVars, program, stage, pos, comparisons, icmps, piNodeList,
                 piValue, branchesToRemove, unconditional, erased, modified>>

\* prover->finish().
FinishGraph ==
  /\ todo = << >>
  /\ EndOf("inequalities", Len(comparisons), "demand", 1)
  /\ Finish
  /\ UNCHANGED <<runVars, program, comparisons, icmps, piNodeList, piValue, todo,
                 branchesToRemove, unconditional, erased, modified>>

\* The operands have been substituted by now, but not those of the edges.
CurrentIcmp(b) == icmps[program.branch[b].cond]

TestBranch ==
  /\ stage = "demand"
  /\ pos <= Len(comparisons)
  /\ program.branch[comparisons[pos]].F = Exit
  /\ DemandProve(QueryOf(CurrentIcmp(comparisons[pos])))
  /\ UNCHANGED <<passVars, runVars>>

\* The false side goes on: not a bounds check.
SkipBranch ==
  /\ stage = "demand"
  /\ pc = "idle"
  /\ pos <= Len(comparisons)
  /\ program.branch[comparisons[pos]].F # Exit
  /\ pos' = pos + 1
  /\ UNCHANGED <<vars, runVars, program, stage, comparisons, icmps, piNodeList,
                 piValue, todo, branchesToRemove, unconditional, erased, modified>>

Proving ==
  /\ stage = "demand"
  /\ \/ AlreadyProven \/ NoIncomingEdges \/ ActiveCycle
     \/ Visit \/ Descend \/ FoldResult \/ Leave
  /\ UNCHANGED <<passVars, runVars>>

Verdict ==
  /\ stage = "demand"
  /\ Conclude
  /\ branchesToRemove' =
       IF Proved(ret) THEN branchesToRemove \cup {comparisons[pos]}
       ELSE branchesToRemove
  /\ pos' = pos + 1
  /\ UNCHANGED <<runVars, program, stage, comparisons, icmps, piNodeList, piValue,
                 todo, unconditional, erased, modified>>

\* removePiNodes, last pi first: its uses get its incoming value back.
RemovePi ==
  /\ stage = "restore"
  /\ pos >= 1
  /\ LET pi == piNodeList[pos]
     IN  \E v \in piValue[pi] :
           /\ icmps' = [b \in Blocks |-> Replaced(icmps[b], pi, v)]
           /\ piValue' = [q \in PiIds |-> IF q = pi THEN {}
                                          ELSE IF piValue[q] = {pi} THEN {v}
                                          ELSE piValue[q]]
  /\ pos' = pos - 1
  /\ UNCHANGED <<vars, runVars, program, stage, comparisons, piNodeList, todo,
                 branchesToRemove, unconditional, erased, modified>>

\* The branch goes to its true side, and its icmp is deleted with it.  To read
\* an icmp that has been deleted is undefined: the model stops there.
RemoveBranch(b) ==
  /\ stage = "remove"
  /\ b \in branchesToRemove \ unconditional
  /\ program.branch[b].cond \notin erased
  /\ unconditional' = unconditional \cup {b}
  /\ erased' = erased \cup {program.branch[b].cond}
  /\ UNCHANGED <<vars, runVars, program, stage, pos, comparisons, icmps,
                 piNodeList, piValue, todo, branchesToRemove, modified>>

\* Mutant of Done: the pis that have been taken out are off the list.
DoneOfPlaced ==
  /\ stage = "remove"
  /\ branchesToRemove \subseteq unconditional
  /\ stage' = "done"
  /\ modified' = (\E n \in DOMAIN piNodeList : piValue[piNodeList[n]] # {})
  /\ UNCHANGED <<vars, runVars, program, pos, comparisons, icmps, piNodeList,
                 piValue, todo, branchesToRemove, unconditional, erased>>

\* The list of pis still has its nodes when run() looks whether it is empty.
Done ==
  /\ stage = "remove"
  /\ branchesToRemove \subseteq unconditional
  /\ stage' = "done"
  /\ modified' = (piNodeList # << >>)
  /\ UNCHANGED <<vars, runVars, program, pos, comparisons, icmps, piNodeList,
                 piValue, todo, branchesToRemove, unconditional, erased>>

NextLoop ==
  /\ \/ EndOf("insert", Len(comparisons), "substitute", 1)
     \/ EndOf("substitute", Len(piNodeList), "inequalities", 1)
     \/ pc = "idle" /\ EndOf("demand", Len(comparisons), "restore", Len(piNodeList))
     \/ stage = "restore" /\ pos = 0 /\ stage' = "remove" /\ pos' = 1
  /\ UNCHANGED <<vars, runVars, program, comparisons, icmps, piNodeList, piValue,
                 todo, branchesToRemove, unconditional, erased, modified>>

(***************************************************************************)
(* The function runs.  It runs as the source has it, every comparison      *)
(* evaluated, so that a removed check that fails can be seen to fail.      *)
(* Variables take any value each time their block is entered.              *)
(***************************************************************************)
AsUnsigned(n) == n % (2 * WideSignBit)

Value(x) == IF x \in Constants THEN ConstVal[x] ELSE val[x]

Evaluates(icmp) ==
  LET l == Value(icmp.ops[1])    r == Value(icmp.ops[2])
  IN  CASE icmp.pred = "SLT" -> l < r
        [] icmp.pred = "SLE" -> l <= r
        [] icmp.pred = "SGT" -> l > r
        [] icmp.pred = "SGE" -> l >= r
        [] icmp.pred = "ULT" -> AsUnsigned(l) < AsUnsigned(r)
        [] icmp.pred = "ULE" -> AsUnsigned(l) <= AsUnsigned(r)
        [] icmp.pred = "UGT" -> AsUnsigned(l) > AsUnsigned(r)
        [] icmp.pred = "UGE" -> AsUnsigned(l) >= AsUnsigned(r)
        [] icmp.pred = "EQ"  -> l = r

EnterBlock(b) ==
  /\ at' = b
  /\ \E new \in [Vars -> WideInts] :
       /\ \A v \in Vars : program.defs[v] # b => new[v] = val[v]
       /\ val' = new
  /\ UNCHANGED <<vars, passVars>>

Call ==
  /\ stage = "done"
  /\ at' = Entry
  /\ val' \in [Vars -> WideInts]
  /\ stage' = "called"
  /\ UNCHANGED <<vars, program, pos, comparisons, icmps, piNodeList, piValue, todo,
                 branchesToRemove, unconditional, erased, modified>>

Branch ==
  /\ stage = "called"
  /\ at \in Blocks
  /\ LET icmp == IcmpOf(program, at)
     IN  IF Evaluates(icmp) THEN EnterBlock(program.branch[at].T)
                            ELSE EnterBlock(program.branch[at].F)

(***************************************************************************)
(* The specification.                                                      *)
(***************************************************************************)
Pass ==
  \/ FindComparisons \/ InsertPis \/ Substitute
  \/ AddInequalities \/ AddInequality \/ FinishGraph
  \/ TestBranch \/ SkipBranch \/ Proving \/ Verdict
  \/ RemovePi \/ (\E b \in Blocks : RemoveBranch(b)) \/ Done \/ NextLoop

PassNext == Pass \/ Call \/ Branch

PassSpec == PassInit /\ [][PassNext]_allVars

\* The pass is one call of run(), which keeps running.
FairPassSpec == PassSpec /\ WF_allVars(Pass)

\* The variables of the prover have theirs in TypeOK.
PassTypeOK ==
  /\ program \in Programs
  /\ stage \in {"find", "insert", "substitute", "inequalities", "demand",
                "restore", "remove", "done", "called"}
  /\ pos \in Nat
  /\ comparisons \in Seq(Compared(program))
  /\ icmps \in [Blocks -> [pred : Signed \cup Unsigned \cup {"EQ"},
                           ops : Values \X Values]]
  /\ piNodeList \in Seq(PiIds)
  /\ \A pi \in PiIds : piValue[pi] \subseteq Values
  /\ todo \in Seq(EdgeInputs)
  /\ branchesToRemove \subseteq Blocks
  /\ unconditional \subseteq branchesToRemove
  /\ erased \subseteq Blocks
  /\ modified \in BOOLEAN
  /\ at \in Blocks \cup {Join, Exit}
  /\ val \in [Vars -> WideInts]

(***************************************************************************)
(* Properties.                                                             *)
(***************************************************************************)

\* A removed check never fails in a run of the function: whatever the values,
\* the checks before it, in the same iteration if it is in a loop, have
\* already established it (assignment.md:11, AbcRemover.cpp:203-243).
RemovedChecksHold ==
  stage = "called" /\ at \in branchesToRemove => Evaluates(IcmpOf(program, at))

\* v stands for the original operand at b: it is it, or a pi of it that is in
\* place and whose landing block dominates b.
Renames(p, values, v, original, b) ==
  \/ v = original
  \/ /\ v \in PiIds
     /\ Operand(p, v) = original
     /\ LandingDominates(p, v.c, v.s, b)
     /\ values[v] # {}

\* While operands are being rewritten, and until the pis are gone, every
\* operand is the original one or a pi of it whose landing block dominates the
\* use, pis' own incoming values included (AbcRemover.cpp:111-141, 194-201).
SubstitutionValid ==
  /\ \A b \in Blocks : \A i \in {1, 2} :
       Renames(program, piValue, icmps[b].ops[i], program.icmps[b].ops[i], b)
  /\ \A pi \in PiIds : \A v \in piValue[pi] :
       Renames(program, piValue, v, Operand(program, pi), pi.c)

\* In whatever order the pis are visited, each operand ends up as its nearest
\* dominating pi: no other pi of it dominates the use and is dominated by the
\* one chosen (AbcRemover.cpp:111-141).
NearestPi ==
  stage = "inequalities" =>
    \A b \in Blocks : \A i \in {1, 2} :
      LET of == program.icmps[b].ops[i]
          dominating == {pi \in PiIds : /\ piValue[pi] # {}
                                        /\ Operand(program, pi) = of
                                        /\ LandingDominates(program, pi.c, pi.s, b)}
          v == icmps[b].ops[i]
      IN  IF dominating = {} THEN v = of
          ELSE /\ v \in dominating
               /\ \A pi \in dominating \ {v} : LandingDominates(program, pi.c, pi.s, v.c)

\* The pass leaves the comparisons as it found them (AbcRemover.cpp:194-201).
Restored ==
  stage \in {"remove", "done"} =>
    icmps = program.icmps /\ \A pi \in PiIds : piValue[pi] = {}

\* A check that the edges state outright is removed if it is the first that is
\* asked about from its value.  After another one it may be kept: the memo holds
\* the failures met on the way to the other's answer (AbcRemover.cpp:161-192,
\* 203-230, LBound.cpp:28).
StatedCheckRemoved ==
  stage = "restore" =>
    \A n \in DOMAIN answered :
      FirstFromSource(n) /\ answered[n].q \in Graph => Proved(answered[n].l)

\* A function that has lost a branch is reported as modified, though all that
\* run() looks at is the list of the pis it has deleted (AbcRemover.cpp:40-61).
ChangeReported ==
  stage \in {"done", "called"} /\ unconditional # {} => modified

\* The pass ends (AbcRemover.cpp:40-61).
PassFinishes == <>(stage = "done")
=============================================================================
