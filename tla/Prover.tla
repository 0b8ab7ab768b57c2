------------------------------- MODULE Prover -------------------------------
(***************************************************************************)
(* Prover.cpp, Memo.cpp and Diff.cpp: the inequality graph and the demand  *)
(* driven traversal of it.  An inequality [a, b, c] reads "b - a <= c".    *)
(*                                                                         *)
(* The recursive prove() is unfolded into a stack of activations.  The     *)
(* stack, pc, call and ret are the C++ control state; the other variables  *)
(* are the members of the class.  A call is entered with pc = "enter",     *)
(* iterates over the incoming edges of its b with pc = "loop", and hands   *)
(* its result ret, the answer to the inequality call, to the activation    *)
(* below it with pc = "return".                                            *)
(***************************************************************************)
EXTENDS LBound, Sequences, FiniteSets

CONSTANTS
  Values,      \* the llvm::Value pointers that occur in inequalities
  Constants,   \* those that are ConstantInts
  ConstVal,    \* their values in the program's integer type
  Phis,        \* those that are PHINodes with more than one incoming value
  EdgeInputs,  \* the inequalities the caller may pass to add
  Queries,     \* the inequalities the caller may pass to demandProve
  MaxEdges,    \* bound: calls of add
  MaxQueries   \* bound: calls of demandProve

ASSUME ValuesAssumption ==
  /\ Values # {}
  /\ Constants \subseteq Values
  /\ Phis \subseteq Values
  /\ Phis \cap Constants = {}
  /\ ConstVal \in [Constants -> WideInts]
ASSUME InputsAssumption ==
  /\ EdgeInputs \subseteq [a : Values, b : Values, c : APInts]
  /\ Queries \subseteq [a : Values, b : Values, c : APInts]
ASSUME BoundsAssumption  == MaxEdges \in Nat /\ MaxQueries \in Nat

VARIABLES
  incomingEdges,  \* multimap Value* -> Inequality: the edges into each value
  edges,          \* map Diff -> APInt: the weight an edge was entered with
  memo,           \* map Diff -> LBound; an absent entry is a cleared LBound
  active,         \* map Value* -> APInt: the bounds of the calls in progress
  stack,          \* the activations of prove that have entered their loop
  pc,             \* where control is
  goal,           \* demandProve's inequality
  call,           \* the inequality being entered or answered
  ret,            \* the answer being returned
  answered        \* history: the inequalities demanded, with their answers

graphVars == <<incomingEdges, edges>>
vars ==
  <<incomingEdges, edges, memo, active, stack, pc, goal, call, ret, answered>>

Diffs        == Values \X Values
Inequalities == [a : Values, b : Values, c : APInts]
InEdges      == [a : Values, c : APInts]
Frames       == [a : Values, b : Values, c : APInts, i : Nat \ {0}]

Unset == CHOOSE q \in Inequalities : TRUE

DiffOf(q) == <<q.a, q.b>>

(***************************************************************************)
(* Diff: the difference of two constants, or of a value and itself, needs  *)
(* no graph.  The difference of two constants has the program's width and  *)
(* is compared with the prover's narrow c through Reread.                  *)
(***************************************************************************)
IsConstant(a, b) == a = b \/ (a \in Constants /\ b \in Constants)

Fixed(v, pred) == [Cleared EXCEPT !["TRUE"] = {v}, !["FALSE"] = {pred}]

\* Mutant of FixedBoundGet: a value and itself are in bounds whatever c is.
FixedBoundGetSame(a, b, c) ==
  IF a = b THEN "TRUE"
  ELSE IF a \in Constants /\ b \in Constants
  THEN LET v == WideSub(ConstVal[b], ConstVal[a])
       IN  BoundGet(Fixed(v, WideSub(v, 1)), Reread(c))
  ELSE "NULL"

FixedBoundGet(a, b, c) ==
  IF a = b THEN BoundGet(Fixed(0, Sub(0, 1)), c)
  ELSE IF a \in Constants /\ b \in Constants
  THEN LET v == WideSub(ConstVal[b], ConstVal[a])
       IN  BoundGet(Fixed(v, WideSub(v, 1)), Reread(c))
  ELSE "NULL"

(***************************************************************************)
(* Memo.                                                                   *)
(***************************************************************************)
MemoGet(q) ==
  LET fixed == FixedBoundGet(q.a, q.b, q.c)
  IN  IF fixed # "NULL" THEN fixed ELSE BoundGet(memo[DiffOf(q)], q.c)

MemoModify(strengthen, q, l) ==
  memo' = [memo EXCEPT ![DiffOf(q)] = Modify(@, strengthen, l, q.c)]

(***************************************************************************)
(* Building the graph.                                                     *)
(***************************************************************************)
Init ==
  /\ incomingEdges = [v \in Values |-> <<>>]
  /\ edges = [d \in Diffs |-> {}]
  /\ memo = [d \in Diffs |-> Cleared]
  /\ active = [v \in Values |-> {}]
  /\ stack = <<>>
  /\ pc = "build"
  /\ goal = Unset
  /\ call = Unset
  /\ ret = "NULL"
  /\ answered = <<>>

\* Mutant of AddEdge: every edge goes to the multimap.
AddEdgeTwice(e) ==
  /\ incomingEdges' = [incomingEdges EXCEPT
                         ![e.b] = Append(@, [a |-> e.a, c |-> e.c])]
  /\ edges' = [edges EXCEPT ![DiffOf(e)] = IF @ = {} THEN {e.c} ELSE @]

\* A second edge between the same values: map::insert keeps the old weight
\* and the multimap is not touched, so addEdge changes nothing.
AddEdge(e) ==
  IF edges[DiffOf(e)] = {}
  THEN /\ incomingEdges' = [incomingEdges EXCEPT
                              ![e.b] = Append(@, [a |-> e.a, c |-> e.c])]
       /\ edges' = [edges EXCEPT ![DiffOf(e)] = {e.c}]
  ELSE UNCHANGED graphVars

\* The number of edges, which the bound MaxEdges caps.
EdgeCount == Cardinality({d \in Diffs : edges[d] # {}})

Add(e) ==
  /\ pc = "build"
  /\ EdgeCount < MaxEdges
  /\ IF IsConstant(e.a, e.b) THEN UNCHANGED graphVars ELSE AddEdge(e)
  /\ UNCHANGED <<memo, active, stack, pc, goal, call, ret, answered>>

Finish ==
  /\ pc = "build"
  /\ pc' = "idle"
  /\ UNCHANGED <<graphVars, memo, active, stack, goal, call, ret, answered>>

(***************************************************************************)
(* demandProve: forget the active calls, keep the memo.                    *)
(***************************************************************************)
DemandProve(q) ==
  /\ pc = "idle"
  /\ Len(answered) < MaxQueries
  /\ active' = [v \in Values |-> {}]
  /\ goal' = q
  /\ call' = q
  /\ pc' = "enter"
  /\ UNCHANGED <<graphVars, memo, stack, ret, answered>>

Conclude ==
  /\ pc = "return"
  /\ stack = <<>>
  /\ answered' = Append(answered, [q |-> goal, l |-> ret])
  /\ pc' = "idle"
  /\ UNCHANGED <<graphVars, memo, active, stack, goal, call, ret>>

(***************************************************************************)
(* prove, up to its loop: three early returns, in the order of the code.   *)
(***************************************************************************)
\* Mutant of InProgress: the calls in progress are not looked up.
InProgressNever(v) == FALSE

InProgress(v) == active[v] # {}

Return(l) ==
  /\ ret' = l
  /\ pc' = "return"
  /\ UNCHANGED <<graphVars, memo, active, stack, goal, call, answered>>

AlreadyProven ==
  /\ pc = "enter"
  /\ MemoGet(call) # "NULL"
  /\ Return(MemoGet(call))

NoIncomingEdges ==
  /\ pc = "enter"
  /\ MemoGet(call) = "NULL"
  /\ incomingEdges[call.b] = <<>>
  /\ Return("FALSE")

\* Mutant of ActiveCycle: a call in progress counts as proved.
ActiveCycleTrue ==
  /\ pc = "enter"
  /\ MemoGet(call) = "NULL"
  /\ incomingEdges[call.b] # <<>>
  /\ InProgress(call.b)
  /\ \E bound \in active[call.b] :
       Return(IF call.c > bound THEN "FALSE" ELSE "TRUE")

\* b is already being proved: the cycle is harmless unless it lowered c.
ActiveCycle ==
  /\ pc = "enter"
  /\ MemoGet(call) = "NULL"
  /\ incomingEdges[call.b] # <<>>
  /\ InProgress(call.b)
  /\ \E bound \in active[call.b] :
       Return(IF call.c > bound THEN "FALSE" ELSE "REDUCED")

Visit ==
  /\ pc = "enter"
  /\ MemoGet(call) = "NULL"
  /\ incomingEdges[call.b] # <<>>
  /\ ~InProgress(call.b)
  /\ active' = [active EXCEPT ![call.b] = {call.c}]
  /\ stack' = Append(stack, [a |-> call.a, b |-> call.b, c |-> call.c, i |-> 1])
  /\ pc' = "loop"
  /\ UNCHANGED <<graphVars, memo, goal, call, ret, answered>>

(***************************************************************************)
(* The loop over the incoming edges of b, which visits all of them.        *)
(***************************************************************************)
Top   == stack[Len(stack)]
Below == SubSeq(stack, 1, Len(stack) - 1)

Advanced(f) == [a |-> f.a, b |-> f.b, c |-> f.c, i |-> f.i + 1]

InequalityOf(f) == [a |-> f.a, b |-> f.b, c |-> f.c]

\* Mutant of SubGoal: the weight of the edge is added to the bound.
SubGoalPlus(f) ==
  LET pred == incomingEdges[f.b][f.i]
  IN  [a |-> f.a, b |-> pred.a, c |-> Sub(f.c, -pred.c)]

SubGoal(f) ==
  LET pred == incomingEdges[f.b][f.i]
  IN  [a |-> f.a, b |-> pred.a, c |-> Sub(f.c, pred.c)]

\* Mutant of Descend: the bound of the sub-goal is that of the call in hand.
DescendStale ==
  /\ pc = "loop"
  /\ Top.i <= Len(incomingEdges[Top.b])
  /\ call' = [a |-> SubGoal(Top).a, b |-> SubGoal(Top).b, c |-> call.c]
  /\ pc' = "enter"
  /\ UNCHANGED <<graphVars, memo, active, stack, goal, ret, answered>>

Descend ==
  /\ pc = "loop"
  /\ Top.i <= Len(incomingEdges[Top.b])
  /\ call' = SubGoal(Top)
  /\ pc' = "enter"
  /\ UNCHANGED <<graphVars, memo, active, stack, goal, ret, answered>>

\* Mutant of FoldResult: the iterator does not advance.
FoldResultStuck ==
  /\ pc = "return"
  /\ stack # <<>>
  /\ MemoModify(Top.b \notin Phis, InequalityOf(Top), ret)
  /\ pc' = "loop"
  /\ UNCHANGED <<graphVars, active, stack, goal, call, ret, answered>>

FoldResult ==
  /\ pc = "return"
  /\ stack # <<>>
  /\ MemoModify(Top.b \notin Phis, InequalityOf(Top), ret)
  /\ stack' = [stack EXCEPT ![Len(stack)] = Advanced(@)]
  /\ pc' = "loop"
  /\ UNCHANGED <<graphVars, active, goal, call, ret, answered>>

\* Mutant of Leave: b is not erased from active.
LeaveActive ==
  /\ pc = "loop"
  /\ Top.i > Len(incomingEdges[Top.b])
  /\ call' = InequalityOf(Top)
  /\ ret' = MemoGet(InequalityOf(Top))
  /\ stack' = Below
  /\ pc' = "return"
  /\ UNCHANGED <<graphVars, memo, active, goal, answered>>

\* Mutant of Leave: the result is that of the last edge.
LeaveLast ==
  /\ pc = "loop"
  /\ Top.i > Len(incomingEdges[Top.b])
  /\ active' = [active EXCEPT ![Top.b] = {}]
  /\ call' = InequalityOf(Top)
  /\ stack' = Below
  /\ pc' = "return"
  /\ UNCHANGED <<graphVars, memo, goal, ret, answered>>

Leave ==
  /\ pc = "loop"
  /\ Top.i > Len(incomingEdges[Top.b])
  /\ active' = [active EXCEPT ![Top.b] = {}]
  /\ call' = InequalityOf(Top)
  /\ ret' = MemoGet(InequalityOf(Top))
  /\ stack' = Below
  /\ pc' = "return"
  /\ UNCHANGED <<graphVars, memo, goal, answered>>

(***************************************************************************)
(* The specification.                                                      *)
(***************************************************************************)
Prove ==
  \/ AlreadyProven
  \/ NoIncomingEdges
  \/ ActiveCycle
  \/ Visit
  \/ Descend
  \/ FoldResult
  \/ Leave
  \/ Conclude

Next ==
  \/ \E e \in EdgeInputs : Add(e)
  \/ Finish
  \/ \E q \in Queries : DemandProve(q)
  \/ Prove

Spec == Init /\ [][Next]_vars

\* prove() is sequential code: once called it keeps running.
FairSpec == Spec /\ WF_vars(Prove)

TypeOK ==
  /\ incomingEdges \in [Values -> Seq(InEdges)]
  /\ edges \in [Diffs -> Options]
  /\ memo \in [Diffs -> LBounds]
  /\ active \in [Values -> Options]
  /\ stack \in Seq(Frames)
  /\ pc \in {"build", "idle", "enter", "loop", "return"}
  /\ goal \in Inequalities
  /\ call \in Inequalities
  /\ ret \in L
  /\ answered \in Seq([q : Inequalities, l : L])
=============================================================================
