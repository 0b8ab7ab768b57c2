-------------------------- MODULE ProverCallProofs --------------------------
(***************************************************************************)
(* Proofs about the calls in progress: the recursion is bounded, and on an *)
(* acyclic graph no answer rests on a cycle, so that the prover implements *)
(* InequalityOracle and repeats itself.  What the graph states is answered *)
(* "proven" when it is the first question from its value, cycles or not.   *)
(***************************************************************************)
EXTENDS ProverProofs, FiniteSetTheorems

(***************************************************************************)
(* The calls in progress.                                                  *)
(***************************************************************************)
CallsInv ==
  /\ \A k \in 1 .. Len(stack) : active[stack[k].b] = {stack[k].c}
  /\ \A j, k \in 1 .. Len(stack) : stack[j].b = stack[k].b => j = k
  /\ \A v \in Values : active[v] # {} => \E k \in 1 .. Len(stack) : stack[k].b = v

LEMMA InitCalls == Init => CallsInv
BY DEF Init, CallsInv

LEMMA CallsAfterVisit == TypeInv /\ CallsInv /\ Visit => CallsInv'
<1> SUFFICES ASSUME TypeInv, CallsInv, Visit PROVE CallsInv'
  OBVIOUS
<1> DEFINE new == [a |-> call.a, b |-> call.b, c |-> call.c, i |-> 1]
<1>1. /\ stack' = Append(stack, new) /\ active' = [active EXCEPT ![call.b] = {call.c}]
      /\ active[call.b] = {}
      /\ stack \in Seq(Frames) /\ new \in Frames /\ active \in [Values -> Options]
      /\ call.b \in Values
  BY InequalityTypes DEF Visit, InProgress, TypeInv, TypeOK, Frames
<1>2. /\ Len(stack') = Len(stack) + 1 /\ Len(stack) \in Nat
      /\ \A k \in 1 .. Len(stack) : stack'[k] = stack[k]
      /\ stack'[Len(stack')].b = call.b /\ stack'[Len(stack')].c = call.c
  BY <1>1
<1> HIDE DEF new
<1>3. \A k \in 1 .. Len(stack) : stack[k].b \in Values /\ stack[k].b # call.b
  <2> TAKE k \in 1 .. Len(stack)
  <2>1. stack[k] \in Frames
    BY <1>1
  <2>2. active[stack[k].b] = {stack[k].c}
    BY DEF CallsInv
  <2> QED
    BY <1>1, <2>1, <2>2, FrameTypes
<1>4. ASSUME NEW k \in 1 .. Len(stack') PROVE active'[stack'[k].b] = {stack'[k].c}
  <2>1. CASE k = Len(stack')
    BY <1>1, <1>2, <2>1
  <2>2. CASE k # Len(stack')
    <3>1. k \in 1 .. Len(stack)
      BY <1>2, <2>2
    <3>2. active'[stack[k].b] = active[stack[k].b]
      BY <1>1, <1>3, <3>1
    <3>3. stack'[k] = stack[k] /\ active[stack[k].b] = {stack[k].c}
      BY <1>2, <3>1 DEF CallsInv
    <3> QED
      BY <3>2, <3>3
  <2> QED
    BY <2>1, <2>2
<1>5. ASSUME NEW j \in 1 .. Len(stack'), NEW k \in 1 .. Len(stack'),
             stack'[j].b = stack'[k].b
      PROVE  j = k
  <2>1. CASE j = Len(stack') \/ k = Len(stack')
    BY <1>2, <1>3, <1>5, <2>1
  <2>2. CASE j # Len(stack') /\ k # Len(stack')
    <3>1. j \in 1 .. Len(stack) /\ k \in 1 .. Len(stack)
      BY <1>2, <2>2
    <3> QED
      BY <1>2, <1>5, <3>1 DEF CallsInv
  <2> QED
    BY <2>1, <2>2
<1>6. ASSUME NEW v \in Values, active'[v] # {}
      PROVE  \E k \in 1 .. Len(stack') : stack'[k].b = v
  <2>1. CASE v = call.b
    <3>1. Len(stack') \in 1 .. Len(stack')
      BY <1>2
    <3> QED
      BY <1>2, <2>1, <3>1
  <2>2. CASE v # call.b
    <3>1. PICK k \in 1 .. Len(stack) : stack[k].b = v
      BY <1>1, <1>6, <2>2 DEF CallsInv
    <3> QED
      BY <1>2, <3>1
  <2> QED
    BY <2>1, <2>2
<1> QED
  BY <1>4, <1>5, <1>6 DEF CallsInv

LEMMA CallsAfterLeave == TypeInv /\ CallsInv /\ Leave => CallsInv'
<1> SUFFICES ASSUME TypeInv, CallsInv, Leave PROVE CallsInv'
  OBVIOUS
<1>1. /\ stack' = Below /\ active' = [active EXCEPT ![Top.b] = {}]
      /\ stack \in Seq(Frames) /\ stack # <<>> /\ active \in [Values -> Options]
  BY DEF Leave, TypeInv, TypeOK, Control
<1>2. /\ Len(stack) \in Nat \ {0} /\ Top = stack[Len(stack)] /\ Top.b \in Values
      /\ Len(stack') = Len(stack) - 1
      /\ \A k \in 1 .. Len(stack) - 1 : stack'[k] = stack[k] /\ stack[k].b \in Values
  BY <1>1, TopTypes, FrameTypes
<1>3. \A k \in 1 .. Len(stack) - 1 : stack[k].b # Top.b
  BY <1>2 DEF CallsInv
<1>4. \A k \in 1 .. Len(stack') : active'[stack'[k].b] = {stack'[k].c}
  BY <1>1, <1>2, <1>3 DEF CallsInv
<1>5. \A j, k \in 1 .. Len(stack') : stack'[j].b = stack'[k].b => j = k
  BY <1>2 DEF CallsInv
<1>6. ASSUME NEW v \in Values, active'[v] # {}
      PROVE  \E k \in 1 .. Len(stack') : stack'[k].b = v
  <2>1. v # Top.b /\ active[v] # {}
    BY <1>1, <1>6
  <2>2. PICK k \in 1 .. Len(stack) : stack[k].b = v
    BY <2>1 DEF CallsInv
  <2>3. k \in 1 .. Len(stack')
    BY <1>2, <2>1, <2>2
  <2> QED
    BY <1>2, <2>2, <2>3
<1> QED
  BY <1>4, <1>5, <1>6 DEF CallsInv

LEMMA CallsAfterFold == TypeInv /\ CallsInv /\ FoldResult => CallsInv'
<1> SUFFICES ASSUME TypeInv, CallsInv, FoldResult PROVE CallsInv'
  OBVIOUS
<1>1. /\ stack' = [stack EXCEPT ![Len(stack)] = Advanced(stack[Len(stack)])]
      /\ stack \in Seq(Frames) /\ active' = active
  BY DEF FoldResult, TypeInv, TypeOK
<1>2. Len(stack') = Len(stack)
  BY <1>1
<1>3. \A k \in 1 .. Len(stack) : stack'[k].b = stack[k].b /\ stack'[k].c = stack[k].c
  <2> TAKE k \in 1 .. Len(stack)
  <2>1. CASE k = Len(stack)
    BY <1>1, <2>1 DEF Advanced
  <2>2. CASE k # Len(stack)
    BY <1>1, <2>2
  <2> QED
    BY <2>1, <2>2
<1>4. \A k \in 1 .. Len(stack') : active'[stack'[k].b] = {stack'[k].c}
  BY <1>1, <1>2, <1>3 DEF CallsInv
<1>5. \A j, k \in 1 .. Len(stack') : stack'[j].b = stack'[k].b => j = k
  BY <1>2, <1>3 DEF CallsInv
<1>6. ASSUME NEW v \in Values, active'[v] # {}
      PROVE  \E k \in 1 .. Len(stack') : stack'[k].b = v
  <2>1. PICK k \in 1 .. Len(stack) : stack[k].b = v
    BY <1>1, <1>6 DEF CallsInv
  <2> QED
    BY <1>2, <1>3, <2>1
<1> QED
  BY <1>4, <1>5, <1>6 DEF CallsInv

LEMMA StepCalls ==
  ASSUME TypeInv, CallsInv, [Next]_vars
  PROVE  CallsInv'
<1>1. CASE UNCHANGED <<active, stack>>
  BY <1>1 DEF CallsInv
<1>2. CASE \E q \in Queries : DemandProve(q)
  <2>1. stack = <<>> /\ stack' = stack /\ active' = [v \in Values |-> {}]
    BY <1>2 DEF DemandProve, TypeInv, Control
  <2> QED
    BY <2>1 DEF CallsInv
<1> QED
  BY <1>1, <1>2, CallsAfterVisit, CallsAfterLeave, CallsAfterFold
  DEF Next, Prove, Add, Finish, AlreadyProven, NoIncomingEdges, ActiveCycle,
      Return, Descend, Conclude, vars

LEMMA CallsAreActive == TypeInv /\ CallsInv => ActiveIsStack
<1> SUFFICES ASSUME TypeInv, CallsInv, NEW v \in Values
             PROVE  LET frames == {k \in DOMAIN stack : stack[k].b = v}
                    IN  /\ active[v] = {stack[k].c : k \in frames}
                        /\ \A j, k \in frames : j = k
  BY DEF ActiveIsStack
<1>1. DOMAIN stack = 1 .. Len(stack)
  BY DEF TypeInv, TypeOK
<1>2. CASE \E k \in 1 .. Len(stack) : stack[k].b = v
  <2>1. PICK k \in 1 .. Len(stack) : stack[k].b = v
    BY <1>2
  <2>2. {j \in DOMAIN stack : stack[j].b = v} = {k}
    BY <1>1, <2>1 DEF CallsInv
  <2>3. active[v] = {stack[k].c}
    BY <2>1 DEF CallsInv
  <2> QED
    BY <2>2, <2>3
<1>3. CASE ~\E k \in 1 .. Len(stack) : stack[k].b = v
  BY <1>1, <1>3 DEF CallsInv
<1> QED
  BY <1>2, <1>3

LEMMA CallsInvariant == Spec => [](TypeInv /\ CallsInv)
<1>1. Init => TypeInv /\ CallsInv
  BY InitType, InitCalls
<1>2. TypeInv /\ CallsInv /\ [Next]_vars => (TypeInv /\ CallsInv)'
  BY StepType, StepCalls
<1> QED
  BY <1>1, <1>2, PTL DEF Spec

\* active is the stack of calls, on every graph (Prover.cpp:49-50, 65).
THEOREM ActiveStaysStack == Spec => []ActiveIsStack
BY CallsInvariant, CallsAreActive, PTL

LEMMA CallsBounded ==
  ASSUME IsFiniteSet(Values), TypeInv, CallsInv
  PROVE  DepthBound
<1> DEFINE f == [k \in 1 .. Len(stack) |-> stack[k].b]
<1>1. /\ Len(stack) \in Nat
      /\ \A k \in 1 .. Len(stack) : stack[k] \in Frames /\ stack[k].b \in Values
  BY FrameTypes DEF TypeInv, TypeOK
<1>2. f \in Injection(1 .. Len(stack), Values)
  <2>1. f \in [1 .. Len(stack) -> Values]
    BY <1>1
  <2>2. \A j, k \in 1 .. Len(stack) : f[j] = f[k] => j = k
    BY DEF CallsInv
  <2> QED
    BY <2>1, <2>2 DEF Injection, IsInjective
<1> HIDE DEF f
<1>3. Cardinality(1 .. Len(stack)) <= Cardinality(Values)
  BY <1>2, FS_Injection
<1>4. Cardinality(1 .. Len(stack)) = Len(stack)
  <2>1. /\ 1 \in Int /\ Len(stack) \in Int
    BY <1>1
  <2>2. Cardinality(1 .. Len(stack)) = IF 1 > Len(stack) THEN 0 ELSE Len(stack) - 1 + 1
    BY <2>1, FS_Interval
  <2> QED
    BY <1>1, <2>2
<1> QED
  BY <1>3, <1>4 DEF DepthBound

\* A query over finitely many values recurses no deeper than there are values,
\* whatever cycles the graph has (Prover.cpp:49, 58-63).
THEOREM DepthIsBounded ==
  ASSUME IsFiniteSet(Values)
  PROVE  Spec => []DepthBound
<1>1. TypeInv /\ CallsInv => DepthBound
  BY CallsBounded
<1> QED
  BY <1>1, CallsInvariant, PTL

(***************************************************************************)
(* On an acyclic graph nothing is ever REDUCED.                            *)
(***************************************************************************)
Descending(rank) ==
  /\ \A j, k \in 1 .. Len(stack) : j < k => rank[stack[k].b] < rank[stack[j].b]
  /\ pc = "enter" => \A k \in 1 .. Len(stack) : rank[call.b] < rank[stack[k].b]

NeverReduced ==
  /\ \A d \in Diffs : memo[d]["REDUCED"] = {}
  /\ ret # "REDUCED"
  /\ \A n \in DOMAIN answered : answered[n].l # "REDUCED"

RankInv(rank) == GraphInv /\ CallsInv /\ Descending(rank) /\ NeverReduced

LEMMA InitRank == ASSUME NEW rank PROVE Init => RankInv(rank)
<1> SUFFICES ASSUME Init PROVE RankInv(rank)
  OBVIOUS
<1>1. \A d \in Diffs : memo[d]["REDUCED"] = {}
  BY DEF Init, Cleared, Proven
<1> QED
  BY <1>1, InitGraph, InitCalls
  DEF RankInv, Init, Descending, NeverReduced

LEMMA MemoGetNotReduced ==
  ASSUME NeverReduced, NEW q \in Inequalities
  PROVE  MemoGet(q) # "REDUCED"
<1>1. FixedBoundGet(q.a, q.b, q.c) # "REDUCED"
  BY DEF FixedBoundGet, BoundGet, Fixed, Cleared, Proven
<1>2. memo[DiffOf(q)]["REDUCED"] = {}
  BY InequalityTypes DEF NeverReduced
<1>3. BoundGet(memo[DiffOf(q)], q.c) # "REDUCED"
  BY <1>2 DEF BoundGet
<1> QED
  BY <1>1, <1>3 DEF MemoGet

LEMMA ModifyNotReduced ==
  ASSUME NEW bound \in LBounds, NEW strengthen, NEW l \in L, NEW c,
         bound["REDUCED"] = {}, l # "REDUCED"
  PROVE  Modify(bound, strengthen, l, c)["REDUCED"] = {}
<1>1. Cleared["REDUCED"] = {}
  BY DEF Cleared, Proven
<1>2. Strengthen(bound, l, c)["REDUCED"] = {}
  BY DEF Strengthen, LBounds, Proven, L
<1>3. Weaken(bound, l, c)["REDUCED"] = {}
  BY <1>1 DEF Weaken, LBounds, Proven, L
<1> QED
  BY <1>2, <1>3 DEF Modify

LEMMA StepDescending ==
  ASSUME NEW rank, Ranked(rank), RankInv(rank), [Next]_vars
  PROVE  Descending(rank)'
<1>0. TypeOK /\ TypeInv /\ Control /\ stack \in Seq(Frames)
      /\ \A v \in Values : rank[v] \in Nat
  BY DEF RankInv, GraphInv, TypeInv, TypeOK, Ranked
<1>1. CASE \E q \in Queries : DemandProve(q)
  BY <1>0, <1>1 DEF DemandProve, Control, Descending
<1>2. CASE Visit
  <2> DEFINE new == [a |-> call.a, b |-> call.b, c |-> call.c, i |-> 1]
  <2>1. stack' = Append(stack, new) /\ pc' = "loop" /\ pc = "enter"
    BY <1>2 DEF Visit
  <2>2. new \in Frames /\ new.b = call.b
    BY <1>0, InequalityTypes DEF TypeOK, Frames
  <2> HIDE DEF new
  <2>3. /\ Len(stack') = Len(stack) + 1 /\ Len(stack) \in Nat
        /\ \A k \in 1 .. Len(stack) : stack'[k] = stack[k]
        /\ stack'[Len(stack')].b = call.b
    BY <1>0, <2>1, <2>2
  <2>4. ASSUME NEW j \in 1 .. Len(stack'), NEW k \in 1 .. Len(stack'), j < k
        PROVE  rank[stack'[k].b] < rank[stack'[j].b]
    <3>1. CASE k = Len(stack')
      <4>1. j \in 1 .. Len(stack) /\ stack'[j] = stack[j]
        BY <2>3, <2>4, <3>1
      <4>2. rank[call.b] < rank[stack[j].b]
        BY <2>1, <4>1 DEF RankInv, Descending
      <4> QED
        BY <2>3, <3>1, <4>1, <4>2
    <3>2. CASE k # Len(stack')
      <4>1. j \in 1 .. Len(stack) /\ k \in 1 .. Len(stack)
        BY <2>3, <2>4, <3>2
      <4>2. rank[stack[k].b] < rank[stack[j].b]
        BY <2>4, <4>1 DEF RankInv, Descending
      <4> QED
        BY <2>3, <4>1, <4>2
    <3> QED
      BY <3>1, <3>2
  <2> QED
    BY <2>1, <2>4 DEF Descending
<1>3. CASE Descend
  <2>1. /\ stack' = stack /\ call' = SubGoal(Top) /\ stack # <<>>
        /\ Waiting(Top) /\ Top = stack[Len(stack)]
    BY <1>0, <1>3 DEF Descend, Control, Waiting, Top
  <2>2. Top \in Frames /\ Len(stack) \in Nat \ {0}
    BY <1>0, <2>1, TopTypes
  <2>3. Top.b \in Values /\ Top.i \in 1 .. Len(incomingEdges[Top.b])
    BY <1>0, <2>1, <2>2, FrameTypes DEF Waiting, TypeOK
  <2>4. [a |-> incomingEdges[Top.b][Top.i].a, b |-> Top.b,
         c |-> incomingEdges[Top.b][Top.i].c] \in EdgeInputs
    BY <2>3 DEF RankInv, GraphInv, EdgesGiven
  <2>5. rank[call'.b] < rank[Top.b]
    BY <2>1, <2>4 DEF Ranked, SubGoal
  <2>6. call'.b \in Values
    BY <1>0, <2>1, <2>2, SubGoalType, InequalityTypes DEF Waiting
  <2>7. ASSUME NEW k \in 1 .. Len(stack) PROVE rank[call'.b] < rank[stack[k].b]
    <3>1. CASE k = Len(stack)
      BY <2>1, <2>5, <3>1
    <3>2. CASE k # Len(stack)
      <4>1. k < Len(stack) /\ Len(stack) \in 1 .. Len(stack)
        BY <2>2, <3>2
      <4>2. rank[Top.b] < rank[stack[k].b]
        BY <2>1, <4>1 DEF RankInv, Descending
      <4>3. stack[k].b \in Values
        BY <1>0, FrameTypes
      <4> QED
        BY <1>0, <2>3, <2>5, <2>6, <4>2, <4>3
    <3> QED
      BY <3>1, <3>2
  <2> QED
    BY <2>1, <2>7 DEF RankInv, Descending
<1>4. CASE FoldResult
  <2>1. /\ stack' = [stack EXCEPT ![Len(stack)] = Advanced(stack[Len(stack)])]
        /\ pc' = "loop"
    BY <1>4 DEF FoldResult
  <2>2. Len(stack') = Len(stack)
    BY <1>0, <2>1
  <2>3. \A k \in 1 .. Len(stack) : stack'[k].b = stack[k].b
    <3> TAKE k \in 1 .. Len(stack)
    <3>1. CASE k = Len(stack)
      BY <1>0, <2>1, <3>1 DEF Advanced
    <3>2. CASE k # Len(stack)
      BY <1>0, <2>1, <3>2
    <3> QED
      BY <3>1, <3>2
  <2> QED
    BY <2>1, <2>2, <2>3 DEF RankInv, Descending
<1>5. CASE Leave
  <2>1. /\ stack' = Below /\ stack # <<>> /\ pc' = "return"
    BY <1>0, <1>5 DEF Leave, Control
  <2>2. /\ Len(stack) \in Nat \ {0} /\ Len(stack') = Len(stack) - 1
        /\ \A k \in 1 .. Len(stack) - 1 : stack'[k] = stack[k]
    BY <1>0, <2>1, TopTypes
  <2> QED
    BY <2>1, <2>2 DEF RankInv, Descending
<1>6. CASE UNCHANGED <<stack, pc, call>> \/ (stack' = stack /\ pc' # "enter")
  BY <1>6 DEF RankInv, Descending
<1> QED
  BY <1>1, <1>2, <1>3, <1>4, <1>5, <1>6
  DEF Next, Prove, Add, Finish, AlreadyProven, NoIncomingEdges, ActiveCycle,
      Return, Conclude, vars

\* The value a call is entered for is not being proved already.
LEMMA NoActiveCycle ==
  ASSUME NEW rank, Ranked(rank), RankInv(rank)
  PROVE  ~ActiveCycle
<1> SUFFICES ASSUME ActiveCycle PROVE FALSE
  OBVIOUS
<1>1. call.b \in Values /\ rank[call.b] \in Nat
  BY InequalityTypes DEF RankInv, GraphInv, TypeInv, TypeOK, Ranked
<1>2. PICK k \in 1 .. Len(stack) : stack[k].b = call.b
  BY <1>1 DEF ActiveCycle, InProgress, RankInv, CallsInv
<1>3. rank[call.b] < rank[stack[k].b]
  BY DEF ActiveCycle, RankInv, Descending
<1> QED
  BY <1>1, <1>2, <1>3

LEMMA StepNeverReduced ==
  ASSUME NEW rank, Ranked(rank), RankInv(rank), [Next]_vars
  PROVE  NeverReduced'
<1>0. TypeOK /\ TypeInv /\ Control /\ NeverReduced
  BY DEF RankInv, GraphInv, TypeInv
<1>1. CASE AlreadyProven
  <2>1. MemoGet(call) # "REDUCED"
    BY <1>0, MemoGetNotReduced DEF TypeOK
  <2> QED
    BY <1>0, <1>1, <2>1 DEF AlreadyProven, Return, NeverReduced
<1>2. CASE NoIncomingEdges
  BY <1>0, <1>2 DEF NoIncomingEdges, Return, NeverReduced
<1>3. CASE FoldResult
  <2> DEFINE q == InequalityOf(Top)
  <2>1. DiffOf(q) \in Diffs
    BY <1>0, <1>3, TopTypes, FrameTypes, InequalityTypes DEF FoldResult, TypeOK
  <2>2. memo' = [memo EXCEPT ![DiffOf(q)] = Modify(@, Top.b \notin Phis, ret, q.c)]
    BY <1>3 DEF FoldResult, MemoModify
  <2>3. \A d \in Diffs : memo'[d]["REDUCED"] = {}
    <3> TAKE d \in Diffs
    <3>1. CASE d = DiffOf(q)
      <4>1. memo[d] \in LBounds /\ ret \in L /\ ret # "REDUCED"
            /\ memo[d]["REDUCED"] = {}
        BY <1>0 DEF TypeOK, NeverReduced
      <4>2. Modify(memo[d], Top.b \notin Phis, ret, q.c)["REDUCED"] = {}
        BY <4>1, ModifyNotReduced
      <4> QED
        BY <1>0, <2>1, <2>2, <3>1, <4>2 DEF TypeOK
    <3>2. CASE d # DiffOf(q)
      BY <1>0, <2>2, <3>2 DEF TypeOK, NeverReduced
    <3> QED
      BY <3>1, <3>2
  <2> QED
    BY <1>0, <1>3, <2>3 DEF FoldResult, NeverReduced
<1>4. CASE Leave
  <2>1. InequalityOf(Top) \in Inequalities
    BY <1>0, <1>4, TopTypes, FrameTypes DEF Leave, TypeOK, Control
  <2>2. MemoGet(InequalityOf(Top)) # "REDUCED"
    BY <1>0, <2>1, MemoGetNotReduced
  <2> QED
    BY <1>0, <1>4, <2>2 DEF Leave, NeverReduced
<1>5. CASE Conclude
  <2>1. answered' = Append(answered, [q |-> goal, l |-> ret])
        /\ UNCHANGED <<memo, ret>>
    BY <1>5 DEF Conclude
  <2>2. /\ answered \in Seq([q : Inequalities, l : L])
        /\ [q |-> goal, l |-> ret] \in [q : Inequalities, l : L]
        /\ [q |-> goal, l |-> ret].l # "REDUCED"
    BY <1>0 DEF TypeOK, NeverReduced
  <2>3. \A n \in DOMAIN answered' : answered'[n].l # "REDUCED"
    BY <1>0, <2>1, <2>2 DEF NeverReduced
  <2> QED
    BY <1>0, <2>1, <2>3 DEF NeverReduced
<1>6. CASE UNCHANGED <<memo, ret, answered>>
  BY <1>0, <1>6 DEF NeverReduced
<1> QED
  BY <1>1, <1>2, <1>3, <1>4, <1>5, <1>6, NoActiveCycle
  DEF Next, Prove, Add, Finish, DemandProve, Visit, Descend, vars

LEMMA StepRank ==
  ASSUME NEW rank, Ranked(rank), RankInv(rank), [Next]_vars
  PROVE  RankInv(rank)'
BY StepGraph, StepCalls, StepDescending, StepNeverReduced DEF RankInv, GraphInv

(***************************************************************************)
(* The prover implements its specification.                                *)
(***************************************************************************)
ProverInv(rank) == ProofInv /\ RankInv(rank)

LEMMA ProverInvariant ==
  ASSUME ConstantsExact, WeightsNotPositive, NEW CONSTANT rank, Ranked(rank)
  PROVE  Spec => []ProverInv(rank)
<1>1. Init => ProverInv(rank)
  BY InitProof, InitRank DEF ProverInv
<1>2. ProverInv(rank) /\ [Next]_vars => ProverInv(rank)'
  BY StepProof, StepRank, NotPositiveFits DEF ProverInv, ProofInv
<1> QED
  BY <1>1, <1>2, PTL DEF Spec

LEMMA ProverInvSound ==
  ASSUME NEW rank, ProverInv(rank)
  PROVE  AnswersSound
BY DEF ProverInv, ProofInv, SoundInv, SoundAt, RankInv, NeverReduced,
   AnswersSound, Entails, Proved

\* On an acyclic graph demandProve says "proven" only of what follows from the
\* graph, whatever was asked before (Prover.cpp:75-81).
THEOREM AnswersAreSound ==
  ASSUME ConstantsExact, WeightsNotPositive, NEW CONSTANT rank, Ranked(rank)
  PROVE  Spec => []AnswersSound
<1>1. ProverInv(rank) => AnswersSound
  BY ProverInvSound
<1> QED
  BY <1>1, ProverInvariant, PTL

VerdictsOf(s) == [n \in DOMAIN s |-> [q |-> s[n].q, proven |-> Proved(s[n].l)]]

LEMMA VerdictsAreSeq ==
  ASSUME NEW s \in Seq([q : Inequalities, l : L])
  PROVE  /\ VerdictsOf(s) \in Seq([q : Inequalities, proven : BOOLEAN])
         /\ Len(VerdictsOf(s)) = Len(s)
         /\ \A k \in 1 .. Len(s) :
              VerdictsOf(s)[k] = [q |-> s[k].q, proven |-> Proved(s[k].l)]
<1> DEFINE V == [q : Inequalities, proven : BOOLEAN]
           v(k) == [q |-> s[k].q, proven |-> Proved(s[k].l)]
<1>1. Len(s) \in Nat /\ DOMAIN s = 1 .. Len(s)
  BY LenProperties
<1>2. \A k \in 1 .. Len(s) : v(k) \in V
  <2> TAKE k \in 1 .. Len(s)
  <2>1. s[k] \in [q : Inequalities, l : L]
    BY ElementOfSeq
  <2>2. s[k].q \in Inequalities
    BY <2>1
  <2>3. Proved(s[k].l) \in BOOLEAN
    BY DEF Proved
  <2> QED
    BY <2>2, <2>3
<1>3. VerdictsOf(s) = [k \in 1 .. Len(s) |-> v(k)]
  BY <1>1 DEF VerdictsOf
<1> HIDE DEF V, v
<1>4. VerdictsOf(s) \in Seq(V) /\ Len(VerdictsOf(s)) = Len(s)
  BY <1>1, <1>2, <1>3
<1>5. \A k \in 1 .. Len(s) : VerdictsOf(s)[k] = v(k)
  BY <1>3
<1> QED
  BY <1>4, <1>5 DEF V, v

LEMMA GraphAfterAdd ==
  ASSUME TypeOK, NEW e \in EdgeInputs, Add(e)
  PROVE  Graph' = Graph \/ Graph' = Graph \cup {e}
<1>1. CASE incomingEdges' = incomingEdges
  BY <1>1 DEF Graph
<1>2. CASE incomingEdges' # incomingEdges
  <2>1. incomingEdges' = [incomingEdges EXCEPT
                            ![e.b] = Append(@, [a |-> e.a, c |-> e.c])]
    BY <1>2 DEF Add, AddEdge, graphVars
  <2>2. /\ e.b \in Values /\ e = [a |-> e.a, b |-> e.b, c |-> e.c]
        /\ [a |-> e.a, c |-> e.c] \in InEdges
    BY InputsAssumption DEF InEdges
  <2>3. incomingEdges \in [Values -> Seq(InEdges)]
    BY DEF TypeOK
  <2> DEFINE Into(s, b) == {[a |-> s[i].a, b |-> b, c |-> s[i].c] : i \in DOMAIN s}
  <2>4. Into(incomingEdges'[e.b], e.b) = Into(incomingEdges[e.b], e.b) \cup {e}
    <3> DEFINE s == incomingEdges[e.b]
               t == incomingEdges'[e.b]
    <3>1. /\ t = Append(s, [a |-> e.a, c |-> e.c]) /\ s \in Seq(InEdges)
      BY <2>1, <2>2, <2>3
    <3>2. /\ DOMAIN t = DOMAIN s \cup {Len(s) + 1}
          /\ \A i \in DOMAIN s : t[i] = s[i]
          /\ t[Len(s) + 1] = [a |-> e.a, c |-> e.c]
      BY <2>2, <3>1
    <3> HIDE DEF s, t
    <3>3. [a |-> t[Len(s) + 1].a, b |-> e.b, c |-> t[Len(s) + 1].c] = e
      BY <2>2, <3>2
    <3>4. Into(t, e.b) = Into(s, e.b) \cup {e}
      BY <3>2, <3>3
    <3> QED
      BY <3>4 DEF s, t
  <2>5. \A b \in Values : b # e.b =>
          Into(incomingEdges'[b], b) = Into(incomingEdges[b], b)
    BY <2>1, <2>3
  <2>6. /\ Graph = UNION {Into(incomingEdges[b], b) : b \in Values}
        /\ Graph' = UNION {Into(incomingEdges'[b], b) : b \in Values}
    BY DEF Graph
  <2> HIDE DEF Into
  <2> QED
    BY <2>2, <2>4, <2>5, <2>6
<1> QED
  BY <1>1, <1>2

LEMMA VerdictsAfterConclude ==
  ASSUME TypeOK, Conclude
  PROVE  VerdictsOf(answered') =
           Append(VerdictsOf(answered), [q |-> goal, proven |-> Proved(ret)])
<1> DEFINE V == [q : Inequalities, proven : BOOLEAN]
           last == [q |-> goal, l |-> ret]
           s == VerdictsOf(answered)
           t == VerdictsOf(answered')
           end == [q |-> goal, proven |-> Proved(ret)]
<1>1. /\ answered' = Append(answered, last)
      /\ answered \in Seq([q : Inequalities, l : L])
      /\ last \in [q : Inequalities, l : L]
  BY DEF Conclude, TypeOK
<1>2. /\ answered' \in Seq([q : Inequalities, l : L])
      /\ Len(answered') = Len(answered) + 1
      /\ \A k \in 1 .. Len(answered) : answered'[k] = answered[k]
      /\ answered'[Len(answered) + 1] = last
  <2> HIDE DEF last
  <2> QED
    BY <1>1, AppendProperties
<1>3. Len(answered) \in Nat
  BY <1>1, LenProperties
<1>4. /\ s \in Seq(V) /\ Len(s) = Len(answered)
      /\ \A k \in 1 .. Len(answered) :
           s[k] = [q |-> answered[k].q, proven |-> Proved(answered[k].l)]
  BY <1>1, VerdictsAreSeq
<1>5. /\ t \in Seq(V) /\ Len(t) = Len(answered) + 1
      /\ \A k \in 1 .. Len(answered) + 1 :
           t[k] = [q |-> answered'[k].q, proven |-> Proved(answered'[k].l)]
  BY <1>2, VerdictsAreSeq
<1>6. t[Len(answered) + 1] = end
  <2>1. Len(answered) + 1 \in 1 .. Len(answered) + 1
    BY <1>3
  <2>2. answered'[Len(answered) + 1].q = goal /\ answered'[Len(answered) + 1].l = ret
    BY <1>2
  <2> QED
    BY <1>5, <2>1, <2>2
<1>7. \A k \in 1 .. Len(answered) : t[k] = s[k]
  <2> TAKE k \in 1 .. Len(answered)
  <2>1. k \in 1 .. Len(answered) + 1
    BY <1>3
  <2> QED
    BY <1>2, <1>4, <1>5, <2>1
<1>8. end \in V
  <2>1. Proved(ret) \in BOOLEAN
    BY DEF Proved
  <2> QED
    BY <2>1 DEF TypeOK
<1> HIDE DEF s, t, end, V
<1>9. /\ Append(s, end) \in Seq(V) /\ Len(Append(s, end)) = Len(s) + 1
      /\ \A k \in 1 .. Len(s) : Append(s, end)[k] = s[k]
      /\ Append(s, end)[Len(s) + 1] = end
  BY <1>4, <1>8, AppendProperties
<1>10. \A k \in 1 .. Len(t) : t[k] = Append(s, end)[k]
  <2> TAKE k \in 1 .. Len(t)
  <2>1. k \in 1 .. Len(answered) \/ k = Len(answered) + 1
    BY <1>3, <1>5
  <2> QED
    BY <1>4, <1>6, <1>7, <1>9, <2>1
<1>11. t = Append(s, end)
  BY <1>4, <1>5, <1>9, <1>10, SeqEqual
<1> QED
  BY <1>11 DEF s, t, end

LEMMA OracleInit == Init => Oracle!Init
<1> SUFFICES ASSUME Init PROVE Oracle!Init
  OBVIOUS
<1>1. \A v \in Values : DOMAIN incomingEdges[v] = {}
  BY DEF Init
<1>2. Graph = {}
  BY <1>1 DEF Graph
<1> QED
  BY <1>2 DEF Init, Oracle!Init

LEMMA OracleStep ==
  ASSUME NEW rank, ProverInv(rank), [Next]_vars
  PROVE  [Oracle!Next]_(Oracle!vars)
<1>0. TypeInv /\ TypeOK /\ Control /\ NothingAsked
  BY DEF ProverInv, ProofInv, GraphInv, TypeInv
<1>1. CASE \E e \in EdgeInputs : Add(e)
  <2>1. PICK e \in EdgeInputs : Add(e)
    BY <1>1
  <2>2. /\ pc = "build" /\ pc' = "build" /\ answered = <<>> /\ answered' = answered
    BY <1>0, <2>1 DEF Add, NothingAsked
  <2>3. Graph' = Graph \/ Graph' = Graph \cup {e}
    BY <1>0, <2>1, GraphAfterAdd
  <2>4. e \in Inequalities
    BY InputsAssumption DEF Inequalities
  <2>5. CASE Graph' = Graph
    BY <2>2, <2>5 DEF Oracle!vars, Proved
  <2>6. CASE Graph' = Graph \cup {e}
    <3>1. Oracle!Tell(e)
      BY <2>2, <2>6 DEF Oracle!Tell, Proved
    <3> QED
      BY <2>4, <3>1 DEF Oracle!Next
  <2> QED
    BY <2>3, <2>5, <2>6
<1>2. CASE ~\E e \in EdgeInputs : Add(e)
  <2>1. Graph' = Graph
    BY <1>2, SameGraph
  <2>2. CASE \E q \in Queries : DemandProve(q)
    <3>1. PICK q \in Queries : DemandProve(q)
      BY <2>2
    <3>2. q \in Inequalities
      BY InputsAssumption DEF Inequalities
    <3>3. Len(VerdictsOf(answered)) = Len(answered)
      BY <1>0, VerdictsAreSeq DEF TypeOK
    <3>4. Oracle!Ask(q)
      BY <2>1, <3>1, <3>3 DEF DemandProve, Oracle!Ask, Proved, VerdictsOf
    <3> QED
      BY <3>2, <3>4 DEF Oracle!Next
  <2>3. CASE Conclude
    <3>1. VerdictsOf(answered') =
            Append(VerdictsOf(answered), [q |-> goal, proven |-> Proved(ret)])
      BY <1>0, <2>3, VerdictsAfterConclude
    <3>2. Proved(ret) => Entails(Graph, goal)
      <4>1. ret # "REDUCED"
        BY DEF ProverInv, RankInv, NeverReduced
      <4>2. pc = "return" /\ call = goal
        BY <2>3 DEF Conclude, ProverInv, ProofInv, CallsLinked
      <4> QED
        BY <4>1, <4>2 DEF Proved, Entails, ProverInv, ProofInv, SoundInv, SoundAt
    <3>3. Proved(ret) \in BOOLEAN
      BY DEF Proved
    <3>4. PICK p \in BOOLEAN : p = Proved(ret)
      BY <3>3
    <3>5. VerdictsOf(answered') = Append(VerdictsOf(answered), [q |-> goal, proven |-> p])
      BY <3>1, <3>4
    <3>6. p => Entails(Graph, goal)
      BY <3>2, <3>4
    <3>7. Oracle!Reply(p)
      BY <2>1, <2>3, <3>5, <3>6 DEF Conclude, Oracle!Reply, VerdictsOf
    <3> QED
      BY <3>7 DEF Oracle!Next
  <2>4. CASE /\ ~\E q \in Queries : DemandProve(q)
             /\ ~Conclude
    <3>1. /\ UNCHANGED <<goal, answered>>
          /\ pc \in {"build", "idle"} <=> pc' \in {"build", "idle"}
      BY <1>2, <2>4 DEF Next, Prove, Finish, AlreadyProven, NoIncomingEdges,
         ActiveCycle, Return, Visit, Descend, FoldResult, Leave, vars
    <3> QED
      BY <2>1, <3>1 DEF Oracle!vars, Proved
  <2> QED
    BY <2>2, <2>3, <2>4
<1> QED
  BY <1>1, <1>2

\* The memoising traversal implements the one-step oracle, on every acyclic
\* graph without positive weights (all of Prover.cpp).
THEOREM ProverImplementsOracle ==
  ASSUME ConstantsExact, WeightsNotPositive, NEW CONSTANT rank, Ranked(rank)
  PROVE  Spec => ImplementsOracle
<1>1. Init => Oracle!Init
  BY OracleInit
<1>2. ProverInv(rank) /\ [Next]_vars => [Oracle!Next]_(Oracle!vars)
  BY OracleStep
<1> QED
  BY <1>1, <1>2, ProverInvariant, PTL
  DEF Spec, ImplementsOracle, Oracle!Spec

(***************************************************************************)
(* Questions that the graph states.                                        *)
(***************************************************************************)

\* What holds of the calls and the memo on every graph.
TraversalInv == GraphInv /\ CallsLinked /\ MergesUnproven

\* q needs the graph to be answered, and its target is no merge.
Open(q) == ~IsConstant(q.a, q.b) /\ q.b \notin Phis

\* The inequality q is the i-th edge into its target.
EdgeAt(q, i) ==
  i \in 1 .. Len(incomingEdges[q.b]) /\ incomingEdges[q.b][i] = [a |-> q.a, c |-> q.c]

Stated(q) == \E i \in Nat : EdgeAt(q, i)

Asked(v) == \E n \in DOMAIN answered : answered[n].q.a = v

\* A question only touches the cells of its own value.
SourceInv ==
  /\ \A k \in 1 .. Len(stack) : stack[k].a = goal.a
  /\ \A d \in Diffs : memo[d] # Cleared =>
       Asked(d[1]) \/ (pc \in {"enter", "loop", "return"} /\ d[1] = goal.a)
  /\ pc = "enter" /\ stack = <<>> =>
       /\ active[goal.b] = {}
       /\ ~Asked(goal.a) => memo[DiffOf(goal)] = Cleared

\* While the first question from a value is open: at its own edge the goal is
\* trivial, and once that edge is behind the memo knows the goal.
GoalInv ==
  Open(goal) /\ ~Asked(goal.a) =>
    /\ stack # <<>> =>
         \A i \in Nat : EdgeAt(goal, i) /\ i < stack[1].i =>
           BoundGet(memo[DiffOf(goal)], goal.c) = "TRUE"
    /\ pc = "return" /\ Len(stack) = 1 => (EdgeAt(goal, stack[1].i) => ret = "TRUE")
    /\ pc = "return" /\ stack = <<>> => (Stated(goal) => ret = "TRUE")

VerdictInv ==
  \A n \in DOMAIN answered :
    FirstFromSource(n) /\ Open(answered[n].q) /\ Stated(answered[n].q) =>
      answered[n].l = "TRUE"

StatedInv == SourceInv /\ GoalInv /\ VerdictInv

\* Before the first question there is nothing to say.
LEMMA NothingStated ==
  ASSUME pc = "build", stack = <<>>, answered = <<>>, memo = [d \in Diffs |-> Cleared]
  PROVE  StatedInv
<1>1. Len(stack) = 0 /\ DOMAIN answered = {}
  OBVIOUS
<1> QED BY <1>1 DEF StatedInv, SourceInv, GoalInv, VerdictInv

LEMMA StatedFromNothing ==
  ASSUME pc' = "build", stack' = <<>>, answered' = <<>>, memo' = [d \in Diffs |-> Cleared]
  PROVE  StatedInv'
<1>1. Len(stack') = 0 /\ DOMAIN answered' = {}
  OBVIOUS
<1> QED BY <1>1 DEF StatedInv, SourceInv, GoalInv, VerdictInv

\* The answers are looked at only when one is added.
LEMMA VerdictsStay ==
  ASSUME VerdictInv, UNCHANGED <<incomingEdges, answered>>
  PROVE  VerdictInv'
BY DEF VerdictInv, FirstFromSource, Open, Stated, EdgeAt

\* The goal that the edge of the question itself leads to.
LEMMA OwnEdgeTrivial ==
  ASSUME NEW f \in Frames, EdgeAt(InequalityOf(f), f.i)
  PROVE  MemoGet(SubGoal(f)) = "TRUE"
<1>1. /\ incomingEdges[f.b][f.i] = [a |-> f.a, c |-> f.c]
      /\ f.c \in APInts
  BY FrameTypes DEF EdgeAt, InequalityOf
<1>2. Sub(f.c, f.c) = 0
  BY <1>1, SignBitAssumption, SMT DEF Sub, WrapAt, APInts
<1>3. SubGoal(f) = [a |-> f.a, b |-> f.a, c |-> 0]
  BY <1>1, <1>2 DEF SubGoal
<1>4. Fixed(0, Sub(0, 1))["TRUE"] = {0}
  BY DEF Fixed, Cleared, Proven
<1>5. FixedBoundGet(f.a, f.a, 0) = "TRUE"
  BY <1>4, BoundGetTrue DEF FixedBoundGet
<1> QED BY <1>3, <1>5 DEF MemoGet

\* The memo, not arithmetic, answers an open question.
LEMMA OpenMemoGet ==
  ASSUME NEW q, Open(q)
  PROVE  MemoGet(q) = BoundGet(memo[DiffOf(q)], q.c)
BY DEF Open, IsConstant, FixedBoundGet, MemoGet

\* A cell that is told "true" says so.
LEMMA StrengthenGivesTrue ==
  ASSUME NEW bound \in LBounds, NEW c \in APInts
  PROVE  BoundGet(Strengthen(bound, "TRUE", c), c) = "TRUE"
<1>1. Strengthen(bound, "TRUE", c)["TRUE"] = StrongerBound("TRUE", bound["TRUE"], c)
  BY DEF Strengthen, LBounds, Proven
<1>2. bound["TRUE"] \in Options
  BY DEF LBounds, Proven
<1>3. \E t \in StrongerBound("TRUE", bound["TRUE"], c) : t <= c
  BY <1>2, SignBitAssumption, SMT DEF StrongerBound, Options, Lower, APInts
<1> QED BY <1>1, <1>3, BoundGetTrue

\* The lowest activation is at the goal, in its type.
LEMMA FirstFrame ==
  ASSUME TraversalInv, stack # <<>>
  PROVE  /\ Len(stack) \in Nat \ {0} /\ 1 \in 1 .. Len(stack)
         /\ stack[1] \in Frames /\ stack[1].i \in Nat
         /\ InequalityOf(stack[1]) = goal
         /\ goal.a = stack[1].a /\ goal.b = stack[1].b /\ goal.c = stack[1].c
<1>1. stack \in Seq(Frames)
  BY DEF TraversalInv, GraphInv, TypeInv, TypeOK
<1>2. Len(stack) \in Nat \ {0} /\ 1 \in 1 .. Len(stack) /\ stack[1] \in Frames
  BY <1>1
<1>3. InequalityOf(stack[1]) = goal
  BY DEF TraversalInv, CallsLinked
<1> QED BY <1>2, <1>3, FrameTypes DEF InequalityOf

\* The call in hand is from the value of the goal.
LEMMA CallFromSource ==
  ASSUME TraversalInv, SourceInv, pc \in {"enter", "return"}
  PROVE  call.a = goal.a
<1>1. CASE stack = <<>>
  BY <1>1 DEF TraversalInv, CallsLinked
<1>2. CASE stack # <<>>
  <2>1. /\ Len(stack) \in 1 .. Len(stack) /\ Top = stack[Len(stack)]
    BY <1>2, TopTypes DEF TraversalInv, GraphInv, TypeInv, TypeOK
  <2>2. Top.a = goal.a /\ call = SubGoal(Top)
    BY <1>2, <2>1 DEF TraversalInv, CallsLinked, SourceInv
  <2> QED BY <2>2 DEF SubGoal
<1> QED BY <1>1, <1>2

\* The first question from a value is not answered when it is entered.
LEMMA FirstNotAnsweredAtOnce ==
  ASSUME TraversalInv, SourceInv, Open(goal), ~Asked(goal.a), stack = <<>>, pc = "enter"
  PROVE  /\ MemoGet(call) = "NULL" /\ ~InProgress(call.b)
         /\ Stated(goal) => incomingEdges[call.b] # <<>>
<1>1. call = goal
  BY DEF TraversalInv, CallsLinked
<1>2. memo[DiffOf(goal)] = Cleared /\ active[goal.b] = {}
  BY DEF SourceInv
<1>3. MemoGet(call) = "NULL"
  BY <1>1, <1>2, OpenMemoGet, BoundGetCleared
<1>4. Stated(goal) => incomingEdges[call.b] # <<>>
  <2> SUFFICES ASSUME Stated(goal) PROVE incomingEdges[goal.b] # <<>>
    BY <1>1
  <2>1. PICK i \in Nat : EdgeAt(goal, i)
    BY DEF Stated
  <2>2. Len(incomingEdges[goal.b]) # 0
    BY <2>1 DEF EdgeAt
  <2>3. incomingEdges[goal.b] = <<>> => Len(incomingEdges[goal.b]) = 0
    OBVIOUS
  <2> QED BY <2>2, <2>3
<1> QED BY <1>1, <1>2, <1>3, <1>4 DEF InProgress

\* An early return of the question itself, or of the goal at its own edge, is
\* not one that says no.
LEMMA StatedAfterReturn ==
  ASSUME TraversalInv, StatedInv, AlreadyProven \/ NoIncomingEdges \/ ActiveCycle
  PROVE  StatedInv'
<1>1. /\ pc = "enter" /\ pc' = "return"
      /\ UNCHANGED <<incomingEdges, memo, active, stack, goal, call, answered>>
      /\ MemoGet(call) = "TRUE" => ret' = "TRUE"
  BY DEF AlreadyProven, NoIncomingEdges, ActiveCycle, Return, graphVars
<1>2. SourceInv' /\ VerdictInv'
  BY <1>1, VerdictsStay DEF StatedInv, SourceInv, Asked
<1>3. GoalInv'
  <2> SUFFICES ASSUME Open(goal), ~Asked(goal.a) PROVE GoalInv'
    BY <1>1 DEF GoalInv, Open, Asked
  <2>1. CASE stack = <<>>
    <3>1. ~Stated(goal)
      BY <1>1, <2>1, FirstNotAnsweredAtOnce
      DEF StatedInv, AlreadyProven, NoIncomingEdges, ActiveCycle
    <3>2. Len(stack) = 0
      BY <2>1
    <3> QED BY <1>1, <2>1, <3>1, <3>2 DEF GoalInv, Stated, EdgeAt
  <2>2. CASE stack # <<>>
    <3>1. ASSUME Len(stack) = 1, EdgeAt(goal, stack[1].i) PROVE ret' = "TRUE"
      <4>1. /\ stack[1] \in Frames /\ InequalityOf(stack[1]) = goal
            /\ call = SubGoal(stack[1])
        BY <1>1, <2>2, <3>1, FirstFrame DEF TraversalInv, CallsLinked, Top
      <4>2. EdgeAt(InequalityOf(stack[1]), stack[1].i)
        BY <3>1, <4>1
      <4> QED BY <1>1, <4>1, <4>2, OwnEdgeTrivial
    <3> QED BY <1>1, <2>2, <3>1 DEF StatedInv, GoalInv, EdgeAt
  <2> QED BY <2>1, <2>2
<1> QED BY <1>2, <1>3 DEF StatedInv

LEMMA StatedAfterVisit ==
  ASSUME TraversalInv, StatedInv, Visit
  PROVE  StatedInv'
<1> DEFINE new == [a |-> call.a, b |-> call.b, c |-> call.c, i |-> 1]
<1>1. /\ pc = "enter" /\ pc' = "loop" /\ stack' = Append(stack, new)
      /\ UNCHANGED <<incomingEdges, memo, goal, answered>>
  BY DEF Visit, graphVars
<1>2. stack \in Seq(Frames) /\ new \in Frames
  BY InequalityTypes DEF TraversalInv, GraphInv, TypeInv, TypeOK, Frames
<1>3. new.i = 1 /\ new.a = goal.a
  BY <1>1, CallFromSource DEF StatedInv
<1> HIDE DEF new
<1>4. stack' # <<>> /\ stack'[1] = IF stack = <<>> THEN new ELSE stack[1]
  BY <1>1, <1>2
<1>5. ASSUME NEW k \in 1 .. Len(stack') PROVE stack'[k].a = goal'.a
  <2>1. stack'[k] = new \/ (k \in 1 .. Len(stack) /\ stack'[k] = stack[k])
    BY <1>1, <1>2
  <2> QED BY <1>1, <1>3, <2>1 DEF StatedInv, SourceInv
<1>6. SourceInv' /\ VerdictInv'
  BY <1>1, <1>5, VerdictsStay DEF StatedInv, SourceInv, Asked
<1>7. ASSUME NEW i \in Nat, Open(goal), ~Asked(goal.a), EdgeAt(goal, i), i < stack'[1].i
      PROVE  BoundGet(memo[DiffOf(goal)], goal.c) = "TRUE"
  <2>1. stack # <<>>
    BY <1>3, <1>4, <1>7 DEF EdgeAt
  <2> QED BY <1>4, <1>7, <2>1 DEF StatedInv, GoalInv
<1>8. GoalInv'
  BY <1>1, <1>7 DEF GoalInv, Open, Asked, EdgeAt
<1> QED BY <1>6, <1>8 DEF StatedInv

LEMMA StatedAfterFold ==
  ASSUME TraversalInv, StatedInv, FoldResult
  PROVE  StatedInv'
<1>1. /\ pc = "return" /\ pc' = "loop" /\ stack # <<>>
      /\ stack' = [stack EXCEPT ![Len(stack)] = Advanced(stack[Len(stack)])]
      /\ UNCHANGED <<incomingEdges, goal, ret, answered>>
      /\ MemoModify(InequalityOf(Top).b \notin Phis, InequalityOf(Top), ret)
  BY DEF FoldResult, graphVars, InequalityOf
<1>2. /\ stack \in Seq(Frames) /\ Top \in Frames /\ Top = stack[Len(stack)]
      /\ InequalityOf(Top) \in Inequalities /\ ret \in L
      /\ Len(stack) \in Nat \ {0} /\ memo \in [Diffs -> LBounds] /\ TypeInv /\ MergesUnproven
  BY <1>1, TopTypes, FrameTypes DEF TraversalInv, GraphInv, TypeInv, TypeOK
<1>3. /\ 1 \in 1 .. Len(stack) /\ stack[1].i \in Nat /\ InequalityOf(stack[1]) = goal
      /\ goal \in Inequalities
  BY <1>1, FirstFrame DEF TraversalInv, GraphInv, TypeInv, TypeOK
<1>4. DiffOf(goal) \in Diffs /\ goal.c \in APInts
  BY <1>3, InequalityTypes
<1>5. /\ stack'[1].i = (IF Len(stack) = 1 THEN stack[1].i + 1 ELSE stack[1].i)
      /\ stack' # <<>> /\ Len(stack') = Len(stack)
      /\ \A k \in 1 .. Len(stack) : stack'[k].a = stack[k].a
  BY <1>1, <1>2, <1>3 DEF Advanced
<1>6. SourceInv'
  <2>1. Top.a = goal.a /\ DiffOf(InequalityOf(Top))[1] = goal.a
    BY <1>2 DEF StatedInv, SourceInv, DiffOf, InequalityOf
  <2>2. \A d \in Diffs : d # DiffOf(InequalityOf(Top)) => memo'[d] = memo[d]
    BY <1>1, <1>2 DEF MemoModify
  <2>3. \A d \in Diffs : memo'[d] # Cleared => Asked(d[1]) \/ d[1] = goal.a
    BY <2>1, <2>2 DEF StatedInv, SourceInv
  <2>4. ASSUME NEW k \in 1 .. Len(stack') PROVE stack'[k].a = goal'.a
    <3>1. k \in 1 .. Len(stack) /\ stack'[k].a = stack[k].a
      BY <1>5
    <3>2. stack[k].a = goal.a
      BY <3>1 DEF StatedInv, SourceInv
    <3> QED BY <1>1, <3>1, <3>2
  <2>5. \A v : Asked(v)' <=> Asked(v)
    BY <1>1 DEF Asked
  <2>6. \A d \in Diffs : memo'[d] # Cleared => Asked(d[1])' \/ d[1] = goal'.a
    BY <1>1, <2>3 DEF Asked
  <2> QED BY <1>1, <2>4, <2>6 DEF SourceInv
<1>7. ASSUME NEW i \in Nat, Open(goal), ~Asked(goal.a), EdgeAt(goal, i), i < stack'[1].i
      PROVE  BoundGet(memo'[DiffOf(goal)], goal.c) = "TRUE"
  <2>1. CASE i < stack[1].i
    <3>1. BoundGet(memo[DiffOf(goal)], goal.c) = "TRUE"
      BY <1>1, <1>7, <2>1 DEF StatedInv, GoalInv
    <3> QED BY <1>1, <1>2, <1>4, <3>1, ModifyKeepsTrue
  <2>2. CASE ~(i < stack[1].i)
    <3>1. Len(stack) = 1 /\ i = stack[1].i
      BY <1>3, <1>5, <1>7, <2>2
    <3>2. ret = "TRUE" /\ InequalityOf(Top) = goal
      BY <1>1, <1>2, <1>3, <1>7, <3>1 DEF StatedInv, GoalInv
    <3>3. goal.b \notin Phis
      BY <1>7 DEF Open
    <3>4. memo'[DiffOf(goal)] = Strengthen(memo[DiffOf(goal)], "TRUE", goal.c)
      BY <1>1, <1>2, <1>4, <3>2, <3>3 DEF MemoModify, Modify
    <3>5. memo[DiffOf(goal)] \in LBounds
      BY <1>2, <1>4
    <3> QED BY <1>4, <3>4, <3>5, StrengthenGivesTrue
  <2> QED BY <2>1, <2>2
<1>8. GoalInv'
  BY <1>1, <1>7 DEF GoalInv, Open, Asked, EdgeAt
<1> QED BY <1>1, <1>6, <1>8, VerdictsStay DEF StatedInv

LEMMA StatedAfterLeave ==
  ASSUME TraversalInv, StatedInv, Leave
  PROVE  StatedInv'
<1>1. /\ pc = "loop" /\ pc' = "return" /\ stack # <<>>
      /\ Top.i > Len(incomingEdges[Top.b])
      /\ stack' = Below /\ ret' = MemoGet(InequalityOf(Top))
      /\ UNCHANGED <<incomingEdges, memo, goal, answered>>
  BY DEF Leave, graphVars, TraversalInv, GraphInv, TypeInv, Control
<1>2. /\ stack \in Seq(Frames) /\ Top \in Frames /\ Top = stack[Len(stack)]
      /\ Len(stack) \in Nat \ {0} /\ stack' \in Seq(Frames) /\ Len(stack') = Len(stack) - 1
      /\ \A k \in 1 .. Len(stack) - 1 : stack'[k] = stack[k]
  BY <1>1, TopTypes DEF TraversalInv, GraphInv, TypeInv, TypeOK
<1>3. /\ InequalityOf(stack[1]) = goal /\ stack[1] \in Frames
      /\ goal.b = stack[1].b /\ stack[1].i \in Nat
  BY <1>1, FirstFrame
<1>4. SourceInv' /\ VerdictInv'
  <2>1. \A k \in 1 .. Len(stack') : k \in 1 .. Len(stack) /\ stack'[k] = stack[k]
    BY <1>2
  <2> QED BY <1>1, <2>1, VerdictsStay DEF StatedInv, SourceInv, Asked
<1>5. GoalInv'
  <2> SUFFICES ASSUME Open(goal), ~Asked(goal.a) PROVE GoalInv'
    BY <1>1 DEF GoalInv, Open, Asked
  <2>1. CASE Len(stack) = 1
    <3>1. stack' = <<>>
      BY <1>2, <2>1, EmptySeq
    <3>2. ASSUME Stated(goal) PROVE ret' = "TRUE"
      <4>1. PICK i \in Nat : EdgeAt(goal, i)
        BY <3>2 DEF Stated
      <4>2. InequalityOf(Top) = goal /\ Top = stack[1]
        BY <1>2, <1>3, <2>1
      <4>3. i < stack[1].i
        <5>1. incomingEdges[goal.b] \in Seq(InEdges)
          BY <1>3, FrameTypes DEF TraversalInv, GraphInv, TypeInv, TypeOK
        <5>2. stack[1].i > Len(incomingEdges[goal.b]) /\ Len(incomingEdges[goal.b]) \in Nat
          BY <1>1, <1>3, <4>2, <5>1
        <5> QED BY <1>3, <4>1, <5>2 DEF EdgeAt
      <4>4. BoundGet(memo[DiffOf(goal)], goal.c) = "TRUE"
        BY <1>1, <4>1, <4>3 DEF StatedInv, GoalInv
      <4> QED BY <1>1, <4>2, <4>4, OpenMemoGet
    <3>3. Len(stack') # 1
      BY <3>1
    <3>4. Stated(goal)' => Stated(goal)
      BY <1>1 DEF Stated, EdgeAt
    <3> QED BY <1>1, <3>1, <3>2, <3>3, <3>4 DEF GoalInv
  <2>2. CASE Len(stack) # 1
    <3>1. Len(stack) - 1 \in 1 .. Len(stack) - 1 /\ 1 \in 1 .. Len(stack) - 1
      BY <1>2, <2>2
    <3>2. stack'[1] = stack[1] /\ stack' # <<>> /\ Len(stack') \in Nat
      BY <1>2, <3>1
    <3>3. ASSUME Len(stack') = 1, EdgeAt(goal, stack'[1].i) PROVE ret' = "TRUE"
      <4>1. Len(stack) = 2
        <5>1. Len(stack) \in Nat /\ Len(stack') = Len(stack) - 1
          BY <1>2
        <5>2. Len(stack') = 1
          BY <3>3
        <5>3. \A n \in Nat : 1 = n - 1 => n = 2
          OBVIOUS
        <5> QED BY <5>1, <5>2, <5>3
      <4>2. InequalityOf(stack[1 + 1]) = SubGoal(stack[1])
        BY <3>1 DEF TraversalInv, CallsLinked
      <4>3. InequalityOf(Top) = SubGoal(stack[1])
        BY <1>2, <4>1, <4>2
      <4>4. EdgeAt(InequalityOf(stack[1]), stack[1].i)
        BY <1>3, <3>2, <3>3
      <4> QED BY <1>1, <1>3, <4>3, <4>4, OwnEdgeTrivial
    <3> QED BY <1>1, <3>2, <3>3 DEF StatedInv, GoalInv, EdgeAt
  <2> QED BY <2>1, <2>2
<1> QED BY <1>4, <1>5 DEF StatedInv

LEMMA StatedAfterDemand ==
  ASSUME TraversalInv, StatedInv, NEW q \in Queries, DemandProve(q)
  PROVE  StatedInv'
<1>1. /\ pc = "idle" /\ pc' = "enter" /\ stack = <<>> /\ goal' = q
      /\ UNCHANGED <<incomingEdges, memo, stack, answered>>
      /\ active' = [v \in Values |-> {}]
  BY DEF DemandProve, graphVars, TraversalInv, GraphInv, TypeInv, Control
<1>2. q \in Inequalities /\ q.b \in Values /\ DiffOf(q) \in Diffs /\ DiffOf(q)[1] = q.a
  BY InputsAssumption, InequalityTypes DEF Inequalities, DiffOf
<1>3. \A d \in Diffs : memo[d] # Cleared => Asked(d[1])
  BY <1>1 DEF StatedInv, SourceInv
<1>4. Len(stack) = 0
  BY <1>1
<1>5. SourceInv'
  <2>1. \A v : Asked(v)' <=> Asked(v)
    BY <1>1 DEF Asked
  <2>2. ~Asked(q.a) => memo[DiffOf(q)] = Cleared
    BY <1>2, <1>3
  <2>3. \A d \in Diffs : memo'[d] # Cleared => Asked(d[1])'
    BY <1>1, <1>3 DEF Asked
  <2>4. ~Asked(goal.a)' => memo'[DiffOf(goal')] = Cleared
    BY <1>1, <2>2 DEF Asked
  <2> QED BY <1>1, <1>2, <1>4, <2>3, <2>4 DEF SourceInv, DiffOf
<1>6. GoalInv'
  BY <1>1, <1>4 DEF GoalInv
<1> QED BY <1>1, <1>5, <1>6, VerdictsStay DEF StatedInv

\* The answer that is added is the one that was returned to the goal.
LEMMA StatedAfterConclude ==
  ASSUME TraversalInv, StatedInv, Conclude
  PROVE  StatedInv'
<1> DEFINE new == [q |-> goal, l |-> ret]
<1>1. /\ pc = "return" /\ pc' = "idle" /\ stack = <<>>
      /\ answered' = Append(answered, new)
      /\ UNCHANGED <<incomingEdges, memo, stack, goal>>
      /\ answered \in Seq([q : Inequalities, l : L])
      /\ new \in [q : Inequalities, l : L]
  BY DEF Conclude, graphVars, TraversalInv, GraphInv, TypeInv, TypeOK
<1>2. new.q = goal /\ new.l = ret
  OBVIOUS
<1> HIDE DEF new
<1> DEFINE last == Len(answered) + 1
<1>3. /\ last \in Nat /\ DOMAIN answered = 1 .. last - 1 /\ DOMAIN answered' = 1 .. last
      /\ answered'[last] = new
      /\ \A n \in DOMAIN answered : n \in DOMAIN answered' /\ answered'[n] = answered[n]
  BY <1>1
<1> HIDE DEF last
<1>4. Asked(goal.a)' /\ \A v : Asked(v) => Asked(v)'
  BY <1>1, <1>2, <1>3 DEF Asked
<1>5. SourceInv'
  <2>1. Len(stack') = 0
    BY <1>1
  <2> QED BY <1>1, <1>4, <2>1 DEF StatedInv, SourceInv
<1>6. GoalInv'
  BY <1>4 DEF GoalInv
<1>7. VerdictInv'
  <2>3. \A q : Stated(q)' <=> Stated(q)
    BY <1>1 DEF Stated, EdgeAt
  <2> SUFFICES ASSUME NEW n \in DOMAIN answered', FirstFromSource(n)',
                      Open(answered'[n].q), Stated(answered'[n].q)
               PROVE  answered'[n].l = "TRUE"
    BY <1>1, <2>3 DEF VerdictInv, Open, Stated, EdgeAt
  <2>1. CASE n \in DOMAIN answered
    <3>1. n \in 1 .. last - 1 /\ answered'[n] = answered[n]
      BY <1>3, <2>1
    <3>2. \A m \in 1 .. n - 1 : answered'[m] = answered[m]
      BY <1>3, <3>1
    <3>3. FirstFromSource(n)
      BY <3>1, <3>2 DEF FirstFromSource
    <3> QED BY <2>1, <3>1, <3>3 DEF StatedInv, VerdictInv
  <2>2. CASE n \notin DOMAIN answered
    <3>1. n = last /\ answered'[n] = new
      BY <1>3, <2>2
    <3>2. ~Asked(goal.a)
      BY <1>2, <1>3, <3>1 DEF Asked, FirstFromSource
    <3>3. Open(goal) /\ Stated(goal)
      BY <1>2, <3>1
    <3> QED BY <1>1, <1>2, <3>1, <3>2, <3>3 DEF StatedInv, GoalInv
  <2> QED BY <2>1, <2>2
<1> QED BY <1>5, <1>6, <1>7 DEF StatedInv

LEMMA StepTraversal == TraversalInv /\ [Next]_vars => TraversalInv'
BY StepGraph, StepLinked, StepMerges DEF TraversalInv, GraphInv

LEMMA StepStated == TraversalInv /\ StatedInv /\ [Next]_vars => StatedInv'
<1> SUFFICES ASSUME TraversalInv, StatedInv, [Next]_vars PROVE StatedInv'
  OBVIOUS
<1>1. CASE UNCHANGED vars
  BY <1>1 DEF vars, StatedInv, SourceInv, GoalInv, VerdictInv, Asked, Open, Stated,
     EdgeAt, FirstFromSource
<1>2. ASSUME NEW e \in EdgeInputs, Add(e) PROVE StatedInv'
  <2>1. /\ pc' = "build" /\ stack' = <<>> /\ answered' = <<>>
        /\ memo' = [d \in Diffs |-> Cleared]
    BY <1>2 DEF Add, TraversalInv, GraphInv, NothingAsked, TypeInv, Control
  <2> QED BY <2>1, StatedFromNothing
<1>3. ASSUME Finish PROVE StatedInv'
  <2>1. /\ pc' = "idle" /\ stack = <<>> /\ Len(stack) = 0
        /\ memo = [d \in Diffs |-> Cleared]
        /\ UNCHANGED <<incomingEdges, memo, stack, answered, goal>>
    BY <1>3 DEF Finish, graphVars, TraversalInv, GraphInv, NothingAsked, TypeInv, Control
  <2> QED BY <2>1, VerdictsStay DEF StatedInv, SourceInv, GoalInv
<1>4. ASSUME Descend PROVE StatedInv'
  <2>1. /\ pc = "loop" /\ pc' = "enter" /\ stack # <<>>
        /\ UNCHANGED <<incomingEdges, memo, stack, goal, answered>>
    BY <1>4 DEF Descend, graphVars, TraversalInv, GraphInv, TypeInv, Control
  <2> QED BY <2>1, VerdictsStay DEF StatedInv, SourceInv, GoalInv, Asked, Open, EdgeAt
<1> QED
  BY <1>1, <1>2, <1>3, <1>4, StatedAfterDemand, StatedAfterReturn, StatedAfterVisit,
     StatedAfterFold, StatedAfterLeave, StatedAfterConclude DEF Next, Prove

\* It holds of every graph, cyclic ones and those with merges included.
LEMMA StatedInvariant == Spec => [](TraversalInv /\ StatedInv)
<1>1. Init => TraversalInv /\ StatedInv
  <2>1. Init => TraversalInv
    BY InitGraph DEF Init, TraversalInv, CallsLinked, MergesUnproven
  <2>2. Init => StatedInv
    BY NothingStated DEF Init
  <2> QED BY <2>1, <2>2
<1> QED BY <1>1, StepTraversal, StepStated, PTL DEF Spec

(***************************************************************************)
(* The same question gets the same answer.                                 *)
(***************************************************************************)

\* q is answered without following an edge.
Decided(q) == MemoGet(q) # "NULL" \/ incomingEdges[q.b] = <<>>

VerdictOf(q) == IF MemoGet(q) = "NULL" THEN "FALSE" ELSE MemoGet(q)

\* Every answer given can be had again at once.
AnswersStay ==
  \A n \in DOMAIN answered :
    Decided(answered[n].q) /\ VerdictOf(answered[n].q) = answered[n].l

\* A call that has an edge behind it knows an answer.
FramesDecided ==
  \A k \in 1 .. Len(stack) :
    /\ incomingEdges[stack[k].b] # <<>>
    /\ stack[k].i > 1 => MemoGet(InequalityOf(stack[k])) # "NULL"

\* A call in progress may change the cell of a question that was answered FALSE,
\* but only for a larger bound: it was entered because the cell did not answer.
FramesAhead ==
  \A k \in 1 .. Len(stack) : \A n \in DOMAIN answered :
    LET q == answered[n].q
    IN  /\ q.a = stack[k].a /\ q.b = stack[k].b
        /\ FixedBoundGet(q.a, q.b, q.c) = "NULL" /\ answered[n].l = "FALSE"
        => q.c < stack[k].c

ReturnDecided == pc = "return" => Decided(call) /\ ret = VerdictOf(call)

StableInv == AnswersStay /\ FramesDecided /\ FramesAhead /\ ReturnDecided

LEMMA StrengthenDecides ==
  ASSUME NEW bound \in LBounds, NEW c \in APInts, NEW l \in {"TRUE", "FALSE"}
  PROVE  BoundGet(Strengthen(bound, l, c), c) # "NULL"
<1>1. CASE l = "TRUE"
  BY <1>1, StrengthenGivesTrue
<1>2. CASE l = "FALSE"
  <2>1. Strengthen(bound, "FALSE", c)["FALSE"] = StrongerBound("FALSE", bound["FALSE"], c)
    BY DEF Strengthen, LBounds, Proven
  <2>2. bound["FALSE"] \in Options
    BY DEF LBounds, Proven
  <2>3. \E f \in StrongerBound("FALSE", bound["FALSE"], c) : f >= c
    BY <2>2, SignBitAssumption, SMT DEF StrongerBound, Options, Higher, APInts
  <2> QED BY <1>2, <2>1, <2>3 DEF BoundGet
<1> QED BY <1>1, <1>2

\* An answer folded in for a larger bound leaves a FALSE what it is.
LEMMA StrengthenKeepsFalse ==
  ASSUME NEW bound \in LBounds, NEW c \in APInts, NEW d \in APInts, d < c,
         NEW l \in {"TRUE", "FALSE"}, BoundGet(bound, d) = "FALSE"
  PROVE  BoundGet(Strengthen(bound, l, c), d) = "FALSE"
<1>1. /\ bound["TRUE"] \in Options /\ bound["FALSE"] \in Options
      /\ ~\E t \in bound["TRUE"] : t <= d
      /\ \E f \in bound["FALSE"] : f >= d
  BY DEF LBounds, Proven, BoundGet
<1>2. CASE l = "TRUE"
  <2>1. /\ Strengthen(bound, l, c)["TRUE"] = StrongerBound("TRUE", bound["TRUE"], c)
        /\ Strengthen(bound, l, c)["FALSE"] = bound["FALSE"]
    BY <1>2 DEF Strengthen, LBounds, Proven
  <2>2. ~\E t \in StrongerBound("TRUE", bound["TRUE"], c) : t <= d
    BY <1>1, SignBitAssumption, SMT DEF StrongerBound, Options, Lower, APInts
  <2> QED BY <1>1, <2>1, <2>2 DEF BoundGet
<1>3. CASE l = "FALSE"
  <2>1. /\ Strengthen(bound, l, c)["FALSE"] = StrongerBound("FALSE", bound["FALSE"], c)
        /\ Strengthen(bound, l, c)["TRUE"] = bound["TRUE"]
    BY <1>3 DEF Strengthen, LBounds, Proven
  <2>2. \E f \in StrongerBound("FALSE", bound["FALSE"], c) : f >= d
    BY <1>1, SignBitAssumption, SMT DEF StrongerBound, Options, Higher, APInts
  <2> QED BY <1>1, <2>1, <2>2 DEF BoundGet
<1> QED BY <1>2, <1>3

\* A cell that says FALSE at d and nothing at c does so because d is smaller.
LEMMA FalseBelowNull ==
  ASSUME NEW bound \in LBounds, NEW c \in APInts, NEW d \in APInts,
         BoundGet(bound, d) = "FALSE", BoundGet(bound, c) = "NULL"
  PROVE  d < c
<1>1. bound["FALSE"] \in Options /\ \E f \in bound["FALSE"] : f >= d
  BY DEF LBounds, Proven, BoundGet
<1>2. ~\E f \in bound["FALSE"] : f >= c
  BY DEF BoundGet
<1> QED BY <1>1, <1>2, SignBitAssumption, SMT DEF Options, APInts

LEMMA AnsweredTypes ==
  ASSUME TypeInv, NEW n \in DOMAIN answered
  PROVE  answered[n].q \in Inequalities /\ answered[n].l \in L
<1>1. answered \in Seq([q : Inequalities, l : L])
  BY DEF TypeInv, TypeOK
<1> DEFINE S == [q : Inequalities, l : L]
<1>2. answered \in Seq(S)
  BY <1>1
<1> HIDE DEF S
<1>3. n \in 1 .. Len(answered)
  BY <1>2
<1>4. answered[n] \in S
  BY <1>2, <1>3
<1> QED BY <1>4 DEF S

LEMMA StableAfterVisit ==
  ASSUME TypeInv, StableInv, Visit
  PROVE  StableInv'
<1> DEFINE new == [a |-> call.a, b |-> call.b, c |-> call.c, i |-> 1]
<1>1. /\ pc' = "loop" /\ stack' = Append(stack, new)
      /\ MemoGet(call) = "NULL" /\ incomingEdges[call.b] # <<>>
      /\ UNCHANGED <<incomingEdges, memo, answered>>
  BY DEF Visit, graphVars
<1>2. stack \in Seq(Frames) /\ new \in Frames /\ call \in Inequalities
  BY InequalityTypes DEF TypeInv, TypeOK, Frames
<1>3. new.i = 1 /\ new.a = call.a /\ new.b = call.b /\ new.c = call.c
  OBVIOUS
<1> HIDE DEF new
<1>4. \A k \in 1 .. Len(stack') :
        stack'[k] = new \/ (k \in 1 .. Len(stack) /\ stack'[k] = stack[k])
  BY <1>1, <1>2
<1>5. AnswersStay'
  BY <1>1 DEF StableInv, AnswersStay, Decided, VerdictOf, MemoGet
<1>6. FramesDecided'
  <2> SUFFICES ASSUME NEW k \in 1 .. Len(stack'), NEW g, g = stack'[k]
               PROVE  /\ incomingEdges[g.b] # <<>>
                      /\ g.i > 1 => MemoGet(InequalityOf(g)) # "NULL"
    BY <1>1 DEF FramesDecided, MemoGet, InequalityOf
  <2>1. CASE g = new
    BY <1>1, <1>3, <2>1
  <2>2. CASE k \in 1 .. Len(stack) /\ g = stack[k]
    BY <2>2 DEF StableInv, FramesDecided
  <2> QED BY <1>4, <2>1, <2>2
<1>7. ASSUME NEW n \in DOMAIN answered, NEW q, q = answered[n].q,
             q.a = call.a, q.b = call.b,
             FixedBoundGet(q.a, q.b, q.c) = "NULL", answered[n].l = "FALSE"
      PROVE  q.c < call.c
  <2>1. q \in Inequalities
    BY <1>7, AnsweredTypes
  <2>2. BoundGet(memo[DiffOf(q)], q.c) = "FALSE"
    BY <1>1, <1>7 DEF StableInv, AnswersStay, Decided, VerdictOf, MemoGet
  <2>3. BoundGet(memo[DiffOf(call)], call.c) = "NULL"
    BY <1>1 DEF MemoGet
  <2>4. /\ DiffOf(q) = DiffOf(call) /\ memo[DiffOf(q)] \in LBounds
        /\ q.c \in APInts /\ call.c \in APInts
    BY <1>2, <1>7, <2>1, InequalityTypes DEF DiffOf, TypeInv, TypeOK
  <2> QED BY <2>2, <2>3, <2>4, FalseBelowNull
<1>8. FramesAhead'
  <2> SUFFICES ASSUME NEW k \in 1 .. Len(stack'), NEW n \in DOMAIN answered, NEW q,
                      q = answered[n].q, q.a = stack'[k].a, q.b = stack'[k].b,
                      FixedBoundGet(q.a, q.b, q.c) = "NULL", answered[n].l = "FALSE"
               PROVE  q.c < stack'[k].c
    BY <1>1 DEF FramesAhead
  <2>1. CASE stack'[k] = new
    BY <1>3, <1>7, <2>1
  <2>2. CASE k \in 1 .. Len(stack) /\ stack'[k] = stack[k]
    BY <2>2 DEF StableInv, FramesAhead
  <2> QED BY <1>4, <2>1, <2>2
<1>9. ReturnDecided'
  BY <1>1 DEF ReturnDecided
<1> QED BY <1>5, <1>6, <1>8, <1>9 DEF StableInv

LEMMA StableAfterFold ==
  ASSUME NEW rank, RankInv(rank), Phis = {}, StableInv, FoldResult
  PROVE  StableInv'
<1> DEFINE f == InequalityOf(Top)
<1>1. /\ pc = "return" /\ pc' = "loop" /\ stack # <<>>
      /\ stack' = [stack EXCEPT ![Len(stack)] = Advanced(stack[Len(stack)])]
      /\ memo' = [memo EXCEPT ![DiffOf(f)] = Strengthen(memo[DiffOf(f)], ret, f.c)]
      /\ UNCHANGED <<incomingEdges, answered>>
  BY DEF FoldResult, graphVars, MemoModify, Modify
<1>2. /\ stack \in Seq(Frames) /\ Top = stack[Len(stack)] /\ Top \in Frames
      /\ Len(stack) \in Nat \ {0} /\ memo \in [Diffs -> LBounds]
      /\ call \in Inequalities
  BY <1>1, TopTypes DEF RankInv, GraphInv, TypeInv, TypeOK
<1>3. /\ f.a = Top.a /\ f.b = Top.b /\ f.c = Top.c /\ DiffOf(f) = <<Top.a, Top.b>>
      /\ f \in Inequalities /\ DiffOf(f) \in Diffs /\ f.c \in APInts
  BY <1>2, FrameTypes, InequalityTypes DEF InequalityOf, DiffOf
<1>4. ret \in {"TRUE", "FALSE"}
  <2>1. MemoGet(call) \in L /\ MemoGet(call) # "REDUCED"
    BY <1>2, MemoGetNotReduced, MemoGetType DEF RankInv
  <2>2. ret = VerdictOf(call)
    BY <1>1 DEF StableInv, ReturnDecided
  <2> QED BY <2>1, <2>2 DEF VerdictOf, L, Proven
<1> HIDE DEF f
<1>5. /\ memo[DiffOf(f)] \in LBounds
      /\ memo'[DiffOf(f)] = Strengthen(memo[DiffOf(f)], ret, f.c)
      /\ \A d \in Diffs : d # DiffOf(f) => memo'[d] = memo[d]
  BY <1>1, <1>2, <1>3
<1>6. AnswersStay'
  <2> SUFFICES ASSUME NEW n \in DOMAIN answered, NEW q, q = answered[n].q
               PROVE  Decided(q)' /\ VerdictOf(q)' = answered[n].l
    BY <1>1 DEF AnswersStay, Decided, VerdictOf, MemoGet
  <2>1. q \in Inequalities /\ DiffOf(q) \in Diffs /\ q.c \in APInts
    BY AnsweredTypes, InequalityTypes DEF RankInv, GraphInv
  <2>2. Decided(q) /\ VerdictOf(q) = answered[n].l
    BY DEF StableInv, AnswersStay
  <2>3. CASE FixedBoundGet(q.a, q.b, q.c) # "NULL" \/ DiffOf(q) # DiffOf(f)
    <3>1. MemoGet(q)' = MemoGet(q)
      BY <1>5, <2>1, <2>3 DEF MemoGet
    <3> QED BY <1>1, <2>2, <3>1 DEF Decided, VerdictOf
  <2>4. CASE FixedBoundGet(q.a, q.b, q.c) = "NULL" /\ DiffOf(q) = DiffOf(f)
    <3>1. q.a = Top.a /\ q.b = Top.b
      BY <1>3, <2>4 DEF DiffOf
    <3>2. incomingEdges[q.b] # <<>>
      BY <1>2, <3>1 DEF StableInv, FramesDecided
    <3>3. /\ MemoGet(q) = BoundGet(memo[DiffOf(f)], q.c)
          /\ MemoGet(q)' = BoundGet(memo'[DiffOf(f)], q.c)
      BY <2>4 DEF MemoGet
    <3>4. MemoGet(q) = answered[n].l /\ MemoGet(q) # "NULL"
      BY <2>2, <3>2 DEF Decided, VerdictOf
    <3>5. MemoGet(q) \in {"TRUE", "FALSE"}
      BY <2>1, <3>4, MemoGetNotReduced, MemoGetType DEF RankInv, L, Proven
    <3>6. MemoGet(q)' = MemoGet(q)
      <4>1. CASE MemoGet(q) = "TRUE"
        <5>1. PICK t \in memo[DiffOf(f)]["TRUE"] : t <= q.c
          BY <3>3, <4>1, BoundGetTrue
        <5>2. PICK s \in Strengthen(memo[DiffOf(f)], ret, f.c)["TRUE"] : s <= t
          BY <1>3, <1>4, <1>5, StrengthenKeepsTrue DEF L, Proven
        <5>3. s <= q.c
          <6>1. /\ memo[DiffOf(f)]["TRUE"] \in Options
                /\ Strengthen(memo[DiffOf(f)], ret, f.c) \in LBounds
            BY <1>3, <1>4, <1>5, ModifyType DEF Modify, LBounds, L, Proven
          <6>2. s \in Int /\ t \in Int /\ q.c \in Int
            BY <2>1, <6>1 DEF LBounds, Options, Proven, APInts
          <6> QED BY <5>1, <5>2, <6>2
        <5> QED BY <1>5, <3>3, <4>1, <5>3, BoundGetTrue
      <4>2. CASE MemoGet(q) = "FALSE"
        <5>1. q.c < f.c
          <6>1. Len(stack) \in 1 .. Len(stack) /\ q.a = stack[Len(stack)].a
                /\ q.b = stack[Len(stack)].b /\ f.c = stack[Len(stack)].c
            BY <1>2, <1>3, <3>1
          <6> QED BY <2>4, <3>4, <4>2, <6>1 DEF StableInv, FramesAhead
        <5>2. BoundGet(memo[DiffOf(f)], q.c) = "FALSE"
          BY <3>3, <4>2
        <5>3. BoundGet(Strengthen(memo[DiffOf(f)], ret, f.c), q.c) = "FALSE"
          BY <1>3, <1>4, <1>5, <2>1, <5>1, <5>2, StrengthenKeepsFalse
        <5> QED BY <1>5, <3>3, <4>2, <5>3
      <4> QED BY <3>5, <4>1, <4>2
    <3> QED BY <1>1, <2>2, <3>6 DEF Decided, VerdictOf
  <2> QED BY <2>3, <2>4
<1>7. \A k \in 1 .. Len(stack') :
        /\ k \in 1 .. Len(stack)
        /\ stack'[k].a = stack[k].a /\ stack'[k].b = stack[k].b /\ stack'[k].c = stack[k].c
        /\ k # Len(stack) => stack'[k] = stack[k]
  BY <1>1, <1>2 DEF Advanced
<1>8. FramesDecided'
  <2> SUFFICES ASSUME NEW k \in 1 .. Len(stack'), NEW g, g = InequalityOf(stack[k]),
                      stack'[k].i > 1
               PROVE  MemoGet(g)' # "NULL"
    BY <1>1, <1>7 DEF StableInv, FramesDecided, InequalityOf, MemoGet
  <2>1. CASE k = Len(stack)
    <3>1. g = f
      BY <1>2, <2>1 DEF f
    <3>2. BoundGet(memo'[DiffOf(f)], f.c) # "NULL"
      BY <1>3, <1>4, <1>5, StrengthenDecides
    <3> QED BY <3>1, <3>2 DEF MemoGet
  <2>2. CASE k # Len(stack)
    <3>1. k \in 1 .. Len(stack) /\ stack'[k] = stack[k] /\ Len(stack) \in 1 .. Len(stack)
      BY <1>2, <1>7, <2>2
    <3>2. stack[k] \in Frames /\ g \in Inequalities /\ DiffOf(g) \in Diffs
      BY <1>2, <3>1, FrameTypes, InequalityTypes
    <3>3. DiffOf(g) # DiffOf(f)
      <4>1. stack[k].b # Top.b
        BY <1>2, <2>2, <3>1 DEF RankInv, CallsInv
      <4> QED BY <1>3, <4>1 DEF DiffOf, InequalityOf
    <3>4. MemoGet(g) # "NULL"
      BY <3>1 DEF StableInv, FramesDecided
    <3> QED BY <1>5, <3>2, <3>3, <3>4 DEF MemoGet
  <2> QED BY <2>1, <2>2
<1>9. FramesAhead'
  BY <1>1, <1>7 DEF StableInv, FramesAhead
<1>10. ReturnDecided'
  BY <1>1 DEF ReturnDecided
<1> QED BY <1>6, <1>8, <1>9, <1>10 DEF StableInv

LEMMA StableAfterLeave ==
  ASSUME TypeInv, StableInv, Leave
  PROVE  StableInv'
<1>1. /\ pc = "loop" /\ pc' = "return" /\ stack # <<>>
      /\ Top.i > Len(incomingEdges[Top.b])
      /\ stack' = Below /\ call' = InequalityOf(Top) /\ ret' = MemoGet(InequalityOf(Top))
      /\ UNCHANGED <<incomingEdges, memo, answered>>
  BY DEF Leave, graphVars, TypeInv, Control
<1>2. /\ stack \in Seq(Frames) /\ Top \in Frames /\ Top = stack[Len(stack)]
      /\ Len(stack) \in Nat \ {0} /\ Len(stack') = Len(stack) - 1
      /\ \A k \in 1 .. Len(stack) - 1 : stack'[k] = stack[k]
  BY <1>1, TopTypes DEF TypeInv, TypeOK
<1>3. \A k \in 1 .. Len(stack') : k \in 1 .. Len(stack) /\ stack'[k] = stack[k]
  BY <1>2
<1>4. MemoGet(InequalityOf(Top)) # "NULL"
  <2>1. incomingEdges[Top.b] \in Seq(InEdges) /\ incomingEdges[Top.b] # <<>> /\ Top.i \in Nat
    BY <1>2, FrameTypes DEF TypeInv, TypeOK, StableInv, FramesDecided
  <2>2. Len(incomingEdges[Top.b]) \in Nat \ {0}
    BY <2>1
  <2>3. Top.i > 1
    BY <1>1, <2>1, <2>2
  <2> QED BY <1>2, <2>3 DEF StableInv, FramesDecided
<1>5. AnswersStay' /\ FramesDecided' /\ FramesAhead'
  BY <1>1, <1>3 DEF StableInv, AnswersStay, FramesDecided, FramesAhead, Decided,
     VerdictOf, MemoGet
<1>6. ReturnDecided'
  BY <1>1, <1>4 DEF ReturnDecided, Decided, VerdictOf, MemoGet
<1> QED BY <1>5, <1>6 DEF StableInv

LEMMA StableAfterConclude ==
  ASSUME TypeInv, CallsLinked, StableInv, Conclude
  PROVE  StableInv'
<1>1. /\ pc = "return" /\ pc' = "idle" /\ stack = <<>> /\ call = goal
      /\ answered' = Append(answered, [q |-> goal, l |-> ret])
      /\ UNCHANGED <<incomingEdges, memo, stack>>
      /\ answered \in Seq([q : Inequalities, l : L])
      /\ [q |-> goal, l |-> ret] \in [q : Inequalities, l : L]
  BY DEF Conclude, graphVars, CallsLinked, TypeInv, TypeOK
<1>2. \A n \in DOMAIN answered' :
        \/ n \in DOMAIN answered /\ answered'[n] = answered[n]
        \/ answered'[n].q = call /\ answered'[n].l = ret
  BY <1>1
<1>3. Decided(call) /\ VerdictOf(call) = ret
  BY <1>1 DEF StableInv, ReturnDecided
<1>4. \A n \in DOMAIN answered' :
        Decided(answered'[n].q) /\ VerdictOf(answered'[n].q) = answered'[n].l
  BY <1>2, <1>3 DEF StableInv, AnswersStay
<1>5. AnswersStay'
  BY <1>1, <1>4 DEF AnswersStay, Decided, VerdictOf, MemoGet
<1>6. Len(stack') = 0
  BY <1>1
<1> QED BY <1>1, <1>5, <1>6 DEF StableInv, FramesDecided, FramesAhead, ReturnDecided

LEMMA StepStable ==
  ASSUME NEW rank, Ranked(rank), RankInv(rank), CallsLinked, StableInv, Phis = {},
         [Next]_vars
  PROVE  StableInv'
<1>1. TypeInv /\ GraphInv
  BY DEF RankInv, GraphInv
<1>2. CASE UNCHANGED <<incomingEdges, memo, stack, answered>> /\
           (pc' = "return" => UNCHANGED <<pc, call, ret>>)
  BY <1>2 DEF StableInv, AnswersStay, FramesDecided, FramesAhead, ReturnDecided,
     Decided, VerdictOf, MemoGet
<1>3. ASSUME NEW e \in EdgeInputs, Add(e) PROVE StableInv'
  <2>1. pc' = "build" /\ stack' = <<>> /\ answered' = <<>>
    BY <1>1, <1>3 DEF Add, GraphInv, NothingAsked, TypeInv, Control
  <2>2. Len(stack') = 0 /\ DOMAIN answered' = {}
    BY <2>1
  <2> QED BY <2>1, <2>2 DEF StableInv, AnswersStay, FramesDecided, FramesAhead,
       ReturnDecided
<1>4. CASE AlreadyProven \/ NoIncomingEdges
  <2>1. /\ UNCHANGED <<incomingEdges, memo, stack, answered, call>>
        /\ Decided(call) /\ ret' = VerdictOf(call)
    BY <1>4 DEF AlreadyProven, NoIncomingEdges, Return, graphVars, Decided, VerdictOf
  <2> QED BY <2>1 DEF StableInv, AnswersStay, FramesDecided, FramesAhead, ReturnDecided,
       Decided, VerdictOf, MemoGet
<1>5. CASE \/ Finish \/ Descend \/ UNCHANGED vars \/ \E q \in Queries : DemandProve(q)
  <2>1. /\ UNCHANGED <<incomingEdges, memo, stack, answered>>
        /\ pc' = "return" => UNCHANGED <<pc, call, ret>>
    BY <1>5 DEF Finish, Descend, DemandProve, vars, graphVars
  <2> QED BY <1>2, <2>1
<1> QED
  BY <1>1, <1>3, <1>4, <1>5, NoActiveCycle, StableAfterVisit, StableAfterFold,
     StableAfterLeave, StableAfterConclude DEF Next, Prove

\* On an acyclic graph without merges, as those of the pass, a question that is
\* asked again gets the answer it got, whatever was asked in between: the memo
\* never turns a failure into a proof, nor a proof into a failure
\* (Prover.cpp:75-81, LBound.cpp:67-97).
THEOREM AnswersRepeat ==
  ASSUME NEW CONSTANT rank, Ranked(rank), Phis = {}
  PROVE  Spec => []Repeatable
<1> DEFINE I == RankInv(rank) /\ CallsLinked /\ StableInv
<1>1. Init => I
  <2> SUFFICES ASSUME Init PROVE I
    OBVIOUS
  <2>1. pc = "build" /\ stack = <<>> /\ answered = <<>> /\ Len(stack) = 0 /\ DOMAIN answered = {}
    BY DEF Init
  <2> QED BY <2>1, InitRank DEF CallsLinked, StableInv, AnswersStay, FramesDecided,
       FramesAhead, ReturnDecided
<1>2. I /\ [Next]_vars => I'
  <2> SUFFICES ASSUME I, [Next]_vars PROVE I'
    OBVIOUS
  <2>1. TypeInv
    BY DEF RankInv, GraphInv
  <2> QED BY <2>1, StepRank, StepLinked, StepStable
<1>3. I => Repeatable
  BY DEF StableInv, AnswersStay, Repeatable
<1> QED
  BY <1>1, <1>2, <1>3, PTL DEF Spec
=============================================================================
