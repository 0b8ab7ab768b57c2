---------------------------- MODULE ProverProofs ----------------------------
(***************************************************************************)
(* Proofs about the prover: for every set of values, every width, every    *)
(* graph and every sequence of queries.                                    *)
(***************************************************************************)
EXTENDS ProverSafety, SequenceTheorems, TLAPS

(***************************************************************************)
(* The memo cells and their arithmetic, for every width.                   *)
(***************************************************************************)
\* Subtraction stays within the width; when it takes away nothing positive it
\* can only wrap towards a smaller, that is a stronger, bound (Prover.cpp:61).
LEMMA SubType ==
  ASSUME NEW x \in APInts, NEW y \in APInts
  PROVE  /\ Sub(x, y) \in APInts
         /\ y <= 0 => Sub(x, y) <= x - y
BY SignBitAssumption, SMT DEF Sub, WrapAt, APInts

LEMMA ZeroIsAPInt == 0 \in APInts /\ Sub(0, 1) \in APInts
BY SignBitAssumption, SMT DEF Sub, WrapAt, APInts

LEMMA BoundGetType ==
  ASSUME NEW bound, NEW c
  PROVE  BoundGet(bound, c) \in L
BY DEF BoundGet, L, Proven

\* A cell answers true exactly for the bounds that its true field reaches.
LEMMA BoundGetTrue ==
  ASSUME NEW bound, NEW c
  PROVE  BoundGet(bound, c) = "TRUE" <=> \E t \in bound["TRUE"] : t <= c
BY DEF BoundGet

\* An empty cell answers nothing.
LEMMA BoundGetCleared ==
  ASSUME NEW c
  PROVE  BoundGet(Cleared, c) = "NULL"
BY DEF BoundGet, Cleared, Proven

LEMMA ClearedType == Cleared \in LBounds
BY DEF Cleared, LBounds, Options

LEMMA StrongerBoundType ==
  ASSUME NEW l \in Proven, NEW old \in Options, NEW c \in APInts
  PROVE  StrongerBound(l, old, c) \in Options
BY SMT DEF StrongerBound, Options, Higher, Lower, APInts

LEMMA WeakerBoundType ==
  ASSUME NEW l \in Proven, NEW old \in Options, NEW c \in APInts
  PROVE  WeakerBound(l, old, c) \in Options
BY SMT DEF WeakerBound, Options, Higher, Lower, APInts

LEMMA ModifyType ==
  ASSUME NEW bound \in LBounds, NEW strengthen \in BOOLEAN, NEW l \in L,
         NEW c \in APInts
  PROVE  Modify(bound, strengthen, l, c) \in LBounds
<1>1. CASE l = "NULL"
  BY <1>1, ClearedType DEF Modify, Strengthen, Weaken
<1>2. CASE l # "NULL"
  <2>1. l \in Proven /\ bound[l] \in Options
    BY <1>2 DEF L, LBounds
  <2>2. StrongerBound(l, bound[l], c) \in Options
    BY <2>1, StrongerBoundType
  <2>3. WeakerBound(l, bound[l], c) \in Options
    BY <2>1, WeakerBoundType
  <2> QED
    BY <1>2, <2>1, <2>2, <2>3 DEF Modify, Strengthen, Weaken, LBounds
<1> QED
  BY <1>1, <1>2

\* Strengthening leaves the true field alone unless the answer is true; then
\* the field holds one of its old bound and the new one.
LEMMA StrengthenTrue ==
  ASSUME NEW bound \in LBounds, NEW l \in L, NEW c \in APInts,
         NEW t \in Strengthen(bound, l, c)["TRUE"]
  PROVE  t \in bound["TRUE"] \/ (l = "TRUE" /\ t = c)
<1>1. CASE l = "TRUE"
  BY <1>1 DEF Strengthen, StrongerBound, Lower, LBounds, Proven
<1>2. CASE l # "TRUE"
  BY <1>2 DEF Strengthen, LBounds, Proven, L
<1> QED
  BY <1>1, <1>2

\* Nor does it lose what the true field said.
LEMMA StrengthenKeepsTrue ==
  ASSUME NEW bound \in LBounds, NEW l \in L, NEW c \in APInts,
         NEW t \in bound["TRUE"]
  PROVE  \E s \in Strengthen(bound, l, c)["TRUE"] : s <= t
<1>0. bound["TRUE"] = {t} /\ t \in APInts
  BY DEF LBounds, Options, Proven
<1>1. CASE l = "TRUE"
  <2>1. Strengthen(bound, l, c)["TRUE"] = StrongerBound("TRUE", {t}, c)
    BY <1>0, <1>1 DEF Strengthen, LBounds, Proven
  <2>2. StrongerBound("TRUE", {t}, c) = {Lower(t, c)}
    BY DEF StrongerBound
  <2>3. Lower(t, c) <= t
    BY <1>0, SMT DEF Lower, APInts
  <2> QED
    BY <2>1, <2>2, <2>3
<1>2. CASE l # "TRUE"
  <2>1. Strengthen(bound, l, c)["TRUE"] = bound["TRUE"]
    BY <1>2 DEF Strengthen, LBounds, Proven, L
  <2> QED
    BY <1>0, <2>1, SMT DEF APInts
<1> QED
  BY <1>1, <1>2

\* Nothing is weaker than nothing: weakening never fills an empty cell, so a
\* merge never gets an answer into the memo (LBound.cpp:74-79).
LEMMA WeakenCleared ==
  ASSUME NEW l \in L, NEW c
  PROVE  Weaken(Cleared, l, c) = Cleared
<1>1. CASE l = "NULL"
  BY <1>1 DEF Weaken
<1>2. CASE l # "NULL"
  <2>1. l \in Proven /\ Cleared[l] = {}
    BY <1>2 DEF L, Cleared
  <2>2. WeakerBound(l, {}, c) = {}
    BY DEF WeakerBound
  <2> QED
    BY <1>2, <2>1, <2>2 DEF Weaken, Cleared
<1> QED
  BY <1>1, <1>2

(***************************************************************************)
(* Types.                                                                  *)
(***************************************************************************)
LEMMA MemoGetType ==
  ASSUME NEW q
  PROVE  MemoGet(q) \in L
<1>1. FixedBoundGet(q.a, q.b, q.c) \in L
  BY BoundGetType DEF FixedBoundGet, L, Proven
<1>2. BoundGet(memo[DiffOf(q)], q.c) \in L
  BY BoundGetType
<1> QED
  BY <1>1, <1>2 DEF MemoGet

LEMMA InequalityTypes ==
  ASSUME NEW q \in Inequalities
  PROVE  /\ q.a \in Values /\ q.b \in Values /\ q.c \in APInts
         /\ DiffOf(q) \in Diffs
BY DEF Inequalities, DiffOf, Diffs

LEMMA FrameTypes ==
  ASSUME NEW f \in Frames
  PROVE  /\ f.a \in Values /\ f.b \in Values /\ f.c \in APInts
         /\ f.i \in Nat \ {0}
         /\ InequalityOf(f) \in Inequalities
BY DEF Frames, InequalityOf, Inequalities

LEMMA UnsetType == Unset \in Inequalities
<1>1. PICK v \in Values : TRUE
  BY ValuesAssumption
<1>2. [a |-> v, b |-> v, c |-> 0] \in Inequalities
  BY ZeroIsAPInt DEF Inequalities
<1> QED
  BY <1>2 DEF Unset

LEMMA TopTypes ==
  ASSUME stack \in Seq(Frames), stack # <<>>
  PROVE  /\ Len(stack) \in Nat \ {0}
         /\ Top = stack[Len(stack)] /\ Top \in Frames
         /\ Below \in Seq(Frames)
         /\ Len(Below) = Len(stack) - 1
         /\ \A k \in 1 .. Len(stack) - 1 : Below[k] = stack[k]
<1>1. Len(stack) \in Nat \ {0} /\ stack[Len(stack)] \in Frames
  OBVIOUS
<1>2. \A k \in 1 .. Len(stack) - 1 : stack[k] \in Frames
  BY <1>1
<1> DEFINE n == Len(stack) - 1
<1>3. /\ Below \in Seq(Frames)
      /\ Len(Below) = IF 1 <= n THEN n - 1 + 1 ELSE 0
      /\ \A k \in 1 .. n - 1 + 1 : Below[k] = stack[1 + k - 1]
  <2>1. n \in Int /\ 1 \in Int
    BY <1>1
  <2>2. \A k \in 1 .. n : stack[k] \in Frames
    BY <1>2
  <2> HIDE DEF n
  <2>3. /\ SubSeq(stack, 1, n) \in Seq(Frames)
        /\ Len(SubSeq(stack, 1, n)) = IF 1 <= n THEN n - 1 + 1 ELSE 0
        /\ \A k \in 1 .. n - 1 + 1 : SubSeq(stack, 1, n)[k] = stack[1 + k - 1]
    BY <2>1, <2>2, SubSeqProperties
  <2>4. Below = SubSeq(stack, 1, n)
    BY DEF Below, n
  <2> QED
    BY <2>3, <2>4
<1>4. Len(Below) = Len(stack) - 1
  <2>1. Len(stack) \in Nat \ {0} /\ Len(Below) = IF 1 <= n THEN n - 1 + 1 ELSE 0
    BY <1>1, <1>3
  <2> QED
    BY <2>1, Z3
<1>5. \A k \in 1 .. Len(stack) - 1 : Below[k] = stack[k]
  BY <1>1, <1>3
<1> QED
  BY <1>1, <1>3, <1>4, <1>5 DEF Top

LEMMA SubGoalType ==
  ASSUME TypeOK, NEW f \in Frames, f.i <= Len(incomingEdges[f.b])
  PROVE  /\ incomingEdges[f.b][f.i] \in InEdges
         /\ SubGoal(f) \in Inequalities
<1>1. incomingEdges[f.b] \in Seq(InEdges)
  BY FrameTypes DEF TypeOK
<1>2. f.i \in 1 .. Len(incomingEdges[f.b])
  BY <1>1, FrameTypes
<1>3. incomingEdges[f.b][f.i] \in InEdges
  BY <1>1, <1>2
<1> QED
  BY <1>3, FrameTypes, SubType DEF SubGoal, Inequalities, InEdges

\* Where control is tells whether there are activations.
Control ==
  /\ pc \in {"build", "idle"} => stack = <<>>
  /\ pc = "loop" => stack # <<>>

TypeInv == TypeOK /\ Control

LEMMA InitType == Init => TypeInv
<1> SUFFICES ASSUME Init PROVE TypeInv
  OBVIOUS
<1>1. memo \in [Diffs -> LBounds]
  BY ClearedType DEF Init
<1>2. goal \in Inequalities /\ call \in Inequalities
  BY UnsetType DEF Init
<1> QED
  BY <1>1, <1>2 DEF Init, TypeInv, TypeOK, Control, Options, L

LEMMA AddType ==
  ASSUME TypeInv, NEW e \in EdgeInputs, Add(e)
  PROVE  TypeInv'
<1>1. e \in Inequalities
  BY InputsAssumption DEF Inequalities
<1>2. CASE UNCHANGED graphVars
  BY <1>2 DEF TypeInv, TypeOK, Control, Add, graphVars
<1>3. CASE AddEdge(e) /\ edges[DiffOf(e)] = {}
  <2>1. [a |-> e.a, c |-> e.c] \in InEdges
    BY <1>1, InequalityTypes DEF InEdges
  <2>2. incomingEdges \in [Values -> Seq(InEdges)] /\ edges \in [Diffs -> Options]
    BY DEF TypeInv, TypeOK
  <2>3. /\ incomingEdges' = [incomingEdges EXCEPT ![e.b] =
                               Append(incomingEdges[e.b], [a |-> e.a, c |-> e.c])]
        /\ edges' = [edges EXCEPT ![DiffOf(e)] = {e.c}]
    BY <1>3 DEF AddEdge
  <2>4. Append(incomingEdges[e.b], [a |-> e.a, c |-> e.c]) \in Seq(InEdges)
    BY <1>1, <2>1, <2>2, InequalityTypes
  <2>5. incomingEdges' \in [Values -> Seq(InEdges)]
    BY <2>2, <2>3, <2>4
  <2>6. {e.c} \in Options
    BY <1>1, InequalityTypes DEF Options
  <2>7. edges' \in [Diffs -> Options]
    BY <2>2, <2>3, <2>6
  <2> QED
    BY <2>5, <2>7 DEF TypeInv, TypeOK, Control, Add
<1> QED
  BY <1>2, <1>3 DEF Add, AddEdge

LEMMA StepType == TypeInv /\ [Next]_vars => TypeInv'
<1> SUFFICES ASSUME TypeInv, [Next]_vars PROVE TypeInv'
  OBVIOUS
<1> USE DEF TypeInv, TypeOK, Control
<1>1. CASE \E e \in EdgeInputs : Add(e)
  BY <1>1, AddType
<1>2. CASE Finish
  BY <1>2 DEF Finish, graphVars
<1>3. CASE \E q \in Queries : DemandProve(q)
  <2>1. PICK q \in Queries : DemandProve(q)
    BY <1>3
  <2>2. q \in Inequalities
    BY InputsAssumption DEF Inequalities
  <2> QED
    BY <2>1, <2>2 DEF DemandProve, Options, graphVars
<1>4. CASE AlreadyProven
  BY <1>4, MemoGetType DEF AlreadyProven, Return, graphVars
<1>5. CASE NoIncomingEdges
  BY <1>5 DEF NoIncomingEdges, Return, L, Proven, graphVars
<1>6. CASE ActiveCycle
  BY <1>6 DEF ActiveCycle, Return, L, Proven, graphVars
<1>7. CASE Visit
  <2>1. [a |-> call.a, b |-> call.b, c |-> call.c, i |-> 1] \in Frames
    BY InequalityTypes DEF Frames
  <2>2. active' \in [Values -> Options]
    BY <1>7, InequalityTypes DEF Visit, Options
  <2>3. stack' \in Seq(Frames) /\ stack' # <<>>
    BY <1>7, <2>1 DEF Visit
  <2> QED
    BY <1>7, <2>2, <2>3 DEF Visit, graphVars
<1>8. CASE Descend
  <2>1. Top \in Frames
    BY <1>8, TopTypes DEF Descend
  <2>2. call' \in Inequalities
    BY <1>8, <2>1, SubGoalType DEF Descend
  <2> QED
    BY <1>8, <2>2 DEF Descend, graphVars
<1>9. CASE FoldResult
  <2>1. Top \in Frames /\ Len(stack) \in Nat \ {0}
    BY <1>9, TopTypes DEF FoldResult
  <2>2. DiffOf(InequalityOf(Top)) \in Diffs /\ InequalityOf(Top).c \in APInts
    BY <2>1, FrameTypes, InequalityTypes
  <2>3. memo' \in [Diffs -> LBounds]
    BY <1>9, <2>2, ModifyType DEF FoldResult, MemoModify
  <2>4. Advanced(Top) \in Frames
    BY <2>1 DEF Advanced, Frames
  <2>5. stack' \in Seq(Frames) /\ stack' # <<>>
    BY <1>9, <2>1, <2>4 DEF FoldResult, Top
  <2> QED
    BY <1>9, <2>3, <2>5 DEF FoldResult, graphVars
<1>10. CASE Leave
  <2>1. Top \in Frames /\ Below \in Seq(Frames)
    BY <1>10, TopTypes DEF Leave
  <2>2. active' \in [Values -> Options]
    BY <1>10, <2>1, FrameTypes DEF Leave, Options
  <2> QED
    BY <1>10, <2>1, <2>2, FrameTypes, MemoGetType DEF Leave, graphVars
<1>11. CASE Conclude
  BY <1>11 DEF Conclude, graphVars
<1>12. CASE UNCHANGED vars
  BY <1>12 DEF vars
<1> QED
  BY <1>1, <1>2, <1>3, <1>4, <1>5, <1>6, <1>7, <1>8, <1>9, <1>10, <1>11,
     <1>12 DEF Next, Prove

\* Every variable keeps its type: in particular every bound on the stack and
\* in the memo fits the width the prover computes in (Prover.cpp, Memo.cpp).
THEOREM TypeCorrect == Spec => []TypeOK
<1>1. TypeInv => TypeOK
  BY DEF TypeInv
<1> QED
  BY <1>1, InitType, StepType, PTL DEF Spec

(***************************************************************************)
(* The stack: every answer reaches the call that asked for it.             *)
(***************************************************************************)
LEMMA LinkedAfterVisit == TypeInv /\ CallsLinked /\ Visit => CallsLinked'
<1> SUFFICES ASSUME TypeInv, CallsLinked, Visit PROVE CallsLinked'
  OBVIOUS
<1> DEFINE new == [a |-> call.a, b |-> call.b, c |-> call.c, i |-> 1]
<1>1. /\ stack' = Append(stack, new) /\ pc' = "loop"
      /\ incomingEdges' = incomingEdges /\ goal' = goal /\ pc = "enter"
  BY DEF Visit, graphVars
<1>2. stack \in Seq(Frames) /\ new \in Frames /\ call \in Inequalities
  BY InequalityTypes DEF TypeInv, TypeOK, Frames
<1>3. InequalityOf(new) = call
  BY <1>2 DEF InequalityOf, Inequalities
<1> HIDE DEF new
<1>4. /\ Len(stack') = Len(stack) + 1
      /\ \A k \in 1 .. Len(stack) : stack'[k] = stack[k]
      /\ stack'[Len(stack) + 1] = new
  BY <1>1, <1>2
<1>5. ASSUME NEW k \in 1 .. Len(stack') - 1
      PROVE  /\ stack'[k].i <= Len(incomingEdges'[stack'[k].b])
             /\ InequalityOf(stack'[k + 1]) = SubGoal(stack[k])
             /\ stack'[k] = stack[k]
  <2>1. CASE k = Len(stack)
    <3>1. stack # <<>> /\ Top = stack[k] /\ stack'[k] = stack[k]
      BY <1>2, <1>4, <2>1 DEF Top
    <3>2. Waiting(Top) /\ call = SubGoal(Top)
      BY <1>1, <3>1 DEF CallsLinked
    <3> QED
      BY <1>1, <1>3, <1>4, <2>1, <3>1, <3>2 DEF Waiting
  <2>2. CASE k # Len(stack)
    <3>1. k \in 1 .. Len(stack) - 1 /\ k + 1 \in 1 .. Len(stack)
      BY <1>2, <1>4, <2>2
    <3>2. Waiting(stack[k]) /\ InequalityOf(stack[k + 1]) = SubGoal(stack[k])
      BY <3>1 DEF CallsLinked
    <3>3. stack'[k] = stack[k] /\ stack'[k + 1] = stack[k + 1]
      BY <1>4, <3>1
    <3> QED
      BY <1>1, <3>2, <3>3 DEF Waiting
  <2> QED
    BY <2>1, <2>2
<1>6. \A k \in 1 .. Len(stack') - 1 :
        Waiting(stack[k])' /\ InequalityOf(stack[k + 1])' = SubGoal(stack[k])'
  BY <1>1, <1>5 DEF Waiting, InequalityOf, SubGoal
<1>7. stack' # <<>> /\ InequalityOf(stack'[1]) = goal'
  <2>1. CASE stack = <<>>
    BY <1>1, <1>3, <1>4, <2>1 DEF CallsLinked
  <2>2. CASE stack # <<>>
    <3>1. 1 \in 1 .. Len(stack)
      BY <1>2, <2>2
    <3> QED
      BY <1>1, <1>2, <1>4, <2>2, <3>1 DEF CallsLinked
  <2> QED
    BY <2>1, <2>2
<1> QED
  BY <1>1, <1>6, <1>7 DEF CallsLinked, InequalityOf

LEMMA LinkedAfterFold == TypeInv /\ CallsLinked /\ FoldResult => CallsLinked'
<1> SUFFICES ASSUME TypeInv, CallsLinked, FoldResult PROVE CallsLinked'
  OBVIOUS
<1>1. /\ stack' = [stack EXCEPT ![Len(stack)] = Advanced(stack[Len(stack)])]
      /\ stack # <<>> /\ stack \in Seq(Frames) /\ pc' = "loop"
      /\ incomingEdges' = incomingEdges /\ goal' = goal
  BY DEF FoldResult, graphVars, TypeInv, TypeOK
<1>2. /\ Len(stack') = Len(stack) /\ Len(stack) \in Nat \ {0}
      /\ \A k \in 1 .. Len(stack) - 1 : stack'[k] = stack[k]
      /\ stack'[Len(stack)] = Advanced(stack[Len(stack)])
  BY <1>1
<1>3. \A k \in 1 .. Len(stack) : InequalityOf(stack'[k]) = InequalityOf(stack[k])
  <2> TAKE k \in 1 .. Len(stack)
  <2>1. CASE k = Len(stack)
    BY <1>2, <2>1 DEF Advanced, InequalityOf
  <2>2. CASE k # Len(stack)
    BY <1>2, <2>2
  <2> QED
    BY <2>1, <2>2
<1>4. ASSUME NEW k \in 1 .. Len(stack) - 1
      PROVE  Waiting(stack[k])' /\ InequalityOf(stack[k + 1])' = SubGoal(stack[k])'
  <2>1. Waiting(stack[k]) /\ InequalityOf(stack[k + 1]) = SubGoal(stack[k])
    BY DEF CallsLinked
  <2>2. stack'[k] = stack[k] /\ k + 1 \in 1 .. Len(stack)
    BY <1>2
  <2>3. InequalityOf(stack'[k + 1]) = InequalityOf(stack[k + 1])
    BY <1>3, <2>2
  <2> QED
    BY <1>1, <2>1, <2>2, <2>3 DEF Waiting, SubGoal, InequalityOf
<1>5. InequalityOf(stack'[1]) = goal'
  <2>1. 1 \in 1 .. Len(stack)
    BY <1>2
  <2>2. InequalityOf(stack[1]) = goal
    BY <1>1 DEF CallsLinked
  <2> QED
    BY <1>1, <1>3, <2>1, <2>2
<1> QED
  BY <1>1, <1>2, <1>4, <1>5 DEF CallsLinked, InequalityOf

LEMMA LinkedAfterLeave == TypeInv /\ CallsLinked /\ Leave => CallsLinked'
<1> SUFFICES ASSUME TypeInv, CallsLinked, Leave PROVE CallsLinked'
  OBVIOUS
<1>1. /\ stack' = Below /\ call' = InequalityOf(Top) /\ pc' = "return"
      /\ incomingEdges' = incomingEdges /\ goal' = goal
      /\ stack \in Seq(Frames) /\ stack # <<>>
  BY DEF Leave, graphVars, TypeInv, TypeOK, Control
<1>2. /\ Len(stack) \in Nat \ {0} /\ Top = stack[Len(stack)]
      /\ stack' \in Seq(Frames)
      /\ Len(stack') = Len(stack) - 1
      /\ \A k \in 1 .. Len(stack) - 1 : stack'[k] = stack[k]
  BY <1>1, TopTypes
<1>3. \A k \in 1 .. Len(stack) - 1 :
        /\ Waiting(stack[k]) /\ InequalityOf(stack[k + 1]) = SubGoal(stack[k])
        /\ stack'[k] = stack[k]
  BY <1>2 DEF CallsLinked
<1>4. ASSUME NEW k \in 1 .. Len(stack') - 1
      PROVE  Waiting(stack[k])' /\ InequalityOf(stack[k + 1])' = SubGoal(stack[k])'
  <2>1. k \in 1 .. Len(stack) - 1 /\ k + 1 \in 1 .. Len(stack) - 1
    BY <1>2
  <2> QED
    BY <1>1, <1>3, <2>1 DEF Waiting, SubGoal, InequalityOf
<1>5. CASE Len(stack) = 1
  <2>1. stack' = <<>>
    BY <1>2, <1>5
  <2>2. call' = goal'
    BY <1>1, <1>2, <1>5 DEF CallsLinked
  <2> QED
    BY <1>1, <1>4, <2>1, <2>2 DEF CallsLinked
<1>6. CASE Len(stack) # 1
  <2>1. Len(stack') \in 1 .. Len(stack) - 1 /\ stack' # <<>>
        /\ Len(stack') + 1 = Len(stack) /\ 1 \in 1 .. Len(stack) - 1
    BY <1>2, <1>6
  <2>2. /\ Waiting(stack[Len(stack')])
        /\ InequalityOf(Top) = SubGoal(stack[Len(stack')])
        /\ stack'[Len(stack')] = stack[Len(stack')]
    BY <1>2, <1>3, <2>1
  <2>3. Waiting(Top)' /\ call' = SubGoal(Top)'
    BY <1>1, <2>2 DEF Waiting, SubGoal, Top
  <2>4. InequalityOf(stack'[1]) = goal'
    BY <1>1, <1>3, <2>1 DEF CallsLinked
  <2> QED
    BY <1>1, <1>4, <2>1, <2>3, <2>4 DEF CallsLinked, InequalityOf
<1> QED
  BY <1>5, <1>6

LEMMA StepLinked == TypeInv /\ CallsLinked /\ [Next]_vars => CallsLinked'
<1> SUFFICES ASSUME TypeInv, CallsLinked, [Next]_vars PROVE CallsLinked'
  OBVIOUS
<1> USE DEF CallsLinked, Waiting, SubGoal, InequalityOf, Top
<1>1. CASE \E e \in EdgeInputs : Add(e)
  BY <1>1 DEF Add, TypeInv, Control
<1>2. CASE Finish
  BY <1>2 DEF Finish, TypeInv, Control
<1>3. CASE \E q \in Queries : DemandProve(q)
  BY <1>3 DEF DemandProve, TypeInv, Control
<1>4. CASE AlreadyProven
  BY <1>4 DEF AlreadyProven, Return, graphVars
<1>5. CASE NoIncomingEdges
  BY <1>5 DEF NoIncomingEdges, Return, graphVars
<1>6. CASE ActiveCycle
  BY <1>6 DEF ActiveCycle, Return, graphVars
<1>7. CASE Visit
  BY <1>7, LinkedAfterVisit
<1>8. CASE Descend
  BY <1>8 DEF Descend, graphVars, TypeInv, Control
<1>9. CASE FoldResult
  BY <1>9, LinkedAfterFold
<1>10. CASE Leave
  BY <1>10, LinkedAfterLeave
<1>11. CASE Conclude
  BY <1>11 DEF Conclude, graphVars
<1>12. CASE UNCHANGED vars
  BY <1>12 DEF vars
<1> QED
  BY <1>1, <1>2, <1>3, <1>4, <1>5, <1>6, <1>7, <1>8, <1>9, <1>10, <1>11,
     <1>12 DEF Next, Prove

\* However deep the recursion and however many edges each call follows, the
\* answer at hand answers the goal the call below waits for (Prover.cpp:58-63).
THEOREM CallsStayLinked == Spec => []CallsLinked
<1>1. Init => TypeInv /\ CallsLinked
  BY InitType DEF Init, CallsLinked
<1>2. TypeInv /\ CallsLinked /\ [Next]_vars => (TypeInv /\ CallsLinked)'
  BY StepType, StepLinked
<1> QED
  BY <1>1, <1>2, PTL DEF Spec

(***************************************************************************)
(* The graph: built before the first query, from what was passed to add.   *)
(***************************************************************************)
EdgesGiven ==
  \A b \in Values : \A i \in 1 .. Len(incomingEdges[b]) :
    [a |-> incomingEdges[b][i].a, b |-> b, c |-> incomingEdges[b][i].c] \in EdgeInputs

NothingAsked == pc = "build" => memo = [d \in Diffs |-> Cleared] /\ answered = <<>>

GraphInv == TypeInv /\ EdgesGiven /\ NothingAsked

LEMMA InitGraph == Init => GraphInv
BY InitType DEF Init, GraphInv, EdgesGiven, NothingAsked

\* Whatever set S the edges are in, adding one of S keeps them in it.
LEMMA EdgesAfterAdd ==
  ASSUME TypeOK, NEW S, NEW e \in Inequalities, e \in S, Add(e),
         \A b \in Values : \A i \in 1 .. Len(incomingEdges[b]) :
           [a |-> incomingEdges[b][i].a, b |-> b, c |-> incomingEdges[b][i].c] \in S
  PROVE  \A b \in Values : \A i \in 1 .. Len(incomingEdges'[b]) :
           [a |-> incomingEdges'[b][i].a, b |-> b, c |-> incomingEdges'[b][i].c] \in S
<1>1. CASE incomingEdges' # incomingEdges
  <2>1. incomingEdges' = [incomingEdges EXCEPT
                            ![e.b] = Append(@, [a |-> e.a, c |-> e.c])]
    BY <1>1 DEF Add, AddEdge, graphVars
  <2>2. e = [a |-> e.a, b |-> e.b, c |-> e.c]
    BY DEF Inequalities
  <2>3. incomingEdges \in [Values -> Seq(InEdges)]
    BY DEF TypeOK
  <2> TAKE b \in Values
  <2> TAKE i \in 1 .. Len(incomingEdges'[b])
  <2>4. CASE i \in 1 .. Len(incomingEdges[b])
    <3>1. incomingEdges'[b][i] = incomingEdges[b][i]
      BY <2>1, <2>3, <2>4
    <3> QED
      BY <2>4, <3>1
  <2>5. CASE i \notin 1 .. Len(incomingEdges[b])
    <3>1. b = e.b /\ incomingEdges'[b][i] = [a |-> e.a, c |-> e.c]
      BY <2>1, <2>3, <2>5
    <3> QED
      BY <2>2, <3>1
  <2> QED
    BY <2>4, <2>5
<1> QED
  BY <1>1

LEMMA EdgesGivenAfterAdd ==
  ASSUME GraphInv, NEW e \in EdgeInputs, Add(e)
  PROVE  EdgesGiven'
<1>1. e \in Inequalities
  BY InputsAssumption DEF Inequalities
<1> QED
  BY <1>1, EdgesAfterAdd DEF GraphInv, TypeInv, EdgesGiven

LEMMA StepGraph == GraphInv /\ [Next]_vars => GraphInv'
<1> SUFFICES ASSUME GraphInv, [Next]_vars PROVE GraphInv'
  OBVIOUS
<1>1. TypeInv'
  BY StepType DEF GraphInv
<1>2. CASE \E e \in EdgeInputs : Add(e)
  BY <1>1, <1>2, EdgesGivenAfterAdd DEF GraphInv, NothingAsked, Add
<1>3. CASE ~\E e \in EdgeInputs : Add(e)
  <2>1. incomingEdges' = incomingEdges
    BY <1>3 DEF Next, Prove, Finish, DemandProve, AlreadyProven, NoIncomingEdges,
       ActiveCycle, Return, Visit, Descend, FoldResult, Leave, Conclude, vars,
       graphVars
  <2>2. EdgesGiven'
    BY <2>1 DEF GraphInv, EdgesGiven
  <2>3. pc' = "build" => UNCHANGED <<pc, memo, answered>>
    BY <1>3 DEF Next, Prove, Finish, DemandProve, AlreadyProven, NoIncomingEdges,
       ActiveCycle, Return, Visit, Descend, FoldResult, Leave, Conclude, vars
  <2> QED
    BY <1>1, <2>2, <2>3 DEF GraphInv, NothingAsked
<1> QED
  BY <1>2, <1>3

LEMMA GraphMember ==
  ASSUME TypeOK, NEW f \in Frames, Waiting(f)
  PROVE  [a |-> incomingEdges[f.b][f.i].a, b |-> f.b,
          c |-> incomingEdges[f.b][f.i].c] \in Graph
<1>1. f.b \in Values /\ f.i \in DOMAIN incomingEdges[f.b]
  BY FrameTypes DEF TypeOK, Waiting
<1> QED
  BY <1>1 DEF Graph

(***************************************************************************)
(* Merges: their memo cells stay empty.                                    *)
(***************************************************************************)
LEMMA StepMerges ==
  ASSUME TypeInv, MergesUnproven, [Next]_vars
  PROVE  MergesUnproven'
<1>1. CASE UNCHANGED memo
  BY <1>1 DEF MergesUnproven
<1>2. CASE FoldResult
  <2>1. Top \in Frames /\ InequalityOf(Top) \in Inequalities
    BY <1>2, TopTypes, FrameTypes DEF FoldResult, TypeInv, TypeOK
  <2>2. /\ DiffOf(InequalityOf(Top)) \in Diffs
        /\ DiffOf(InequalityOf(Top))[2] = Top.b
    BY <2>1, InequalityTypes DEF DiffOf, InequalityOf
  <2>3. memo' = [memo EXCEPT ![DiffOf(InequalityOf(Top))] =
                   Modify(@, Top.b \notin Phis, ret, InequalityOf(Top).c)]
    BY <1>2 DEF FoldResult, MemoModify
  <2>4. CASE Top.b \in Phis
    <3>1. memo[DiffOf(InequalityOf(Top))] = Cleared
      BY <2>2, <2>4 DEF MergesUnproven
    <3>2. Modify(Cleared, Top.b \notin Phis, ret, InequalityOf(Top).c) = Cleared
      BY <2>4, WeakenCleared DEF Modify, TypeInv, TypeOK
    <3>3. memo' = memo
      BY <2>2, <2>3, <3>1, <3>2 DEF TypeInv, TypeOK
    <3> QED
      BY <3>3 DEF MergesUnproven
  <2>5. CASE Top.b \notin Phis
    BY <2>2, <2>3, <2>5 DEF MergesUnproven, TypeInv, TypeOK
  <2> QED
    BY <2>4, <2>5
<1> QED
  BY <1>1, <1>2 DEF Next, Prove, Add, Finish, DemandProve, AlreadyProven,
     NoIncomingEdges, ActiveCycle, Return, Visit, Descend, Leave, Conclude, vars

\* Whatever is asked in whatever order, no answer about a merge with several
\* incoming values is ever in the memo (LBound.cpp:74-79, Prover.cpp:52-56).
THEOREM MergesStayUnproven == Spec => []MergesUnproven
<1>1. Init => TypeInv /\ MergesUnproven
  BY InitType DEF Init, MergesUnproven
<1>2. TypeInv /\ MergesUnproven /\ [Next]_vars => (TypeInv /\ MergesUnproven)'
  BY StepType, StepMerges
<1> QED
  BY <1>1, <1>2, PTL DEF Spec

\* Folding an answer into a cell never takes a true bound from it.
LEMMA ModifyKeepsTrue ==
  ASSUME TypeInv, MergesUnproven, NEW q \in Inequalities, NEW l \in L,
         MemoModify(q.b \notin Phis, q, l),
         NEW d \in Diffs, NEW c \in APInts, BoundGet(memo[d], c) = "TRUE"
  PROVE  BoundGet(memo'[d], c) = "TRUE"
<1>1. /\ memo \in [Diffs -> LBounds] /\ DiffOf(q) \in Diffs /\ DiffOf(q)[2] = q.b
      /\ q.c \in APInts
  BY InequalityTypes DEF TypeInv, TypeOK, DiffOf
<1>2. memo' = [memo EXCEPT ![DiffOf(q)] = Modify(memo[DiffOf(q)], q.b \notin Phis, l, q.c)]
  BY DEF MemoModify
<1>3. PICK t \in memo[d]["TRUE"] : t <= c
  BY BoundGetTrue
<1>4. CASE d # DiffOf(q)
  <2>1. memo'[d] = memo[d]
    BY <1>1, <1>2, <1>4
  <2> QED BY <2>1
<1>5. CASE d = DiffOf(q)
  <2>1. q.b \notin Phis
    <3>1. memo[d] # Cleared
      BY <1>3 DEF Cleared, Proven
    <3> QED BY <1>1, <1>5, <3>1 DEF MergesUnproven
  <2>2. memo'[d] = Strengthen(memo[d], l, q.c)
    BY <1>1, <1>2, <1>5, <2>1 DEF Modify
  <2>3. PICK u \in memo'[d]["TRUE"] : u <= t
    BY <1>1, <1>3, <2>2, StrengthenKeepsTrue
  <2>4. memo[d] \in LBounds /\ memo'[d] \in LBounds
    BY <1>1, <1>5, <2>1, <2>2, ModifyType DEF Modify
  <2>5. t \in Int /\ u \in Int /\ c \in Int
    <3>1. \A bound \in LBounds : \A n \in bound["TRUE"] : n \in Int
      BY SignBitAssumption DEF LBounds, Options, Proven, APInts
    <3> QED BY <1>3, <2>3, <2>4, <3>1, SignBitAssumption DEF APInts
  <2>6. u <= c
    BY <1>3, <2>3, <2>5
  <2> QED BY <2>3, <2>6, BoundGetTrue
<1> QED BY <1>4, <1>5

\* At every width and on every graph, a bound known to be true stays known for
\* as long as the prover lives (LBound.cpp:67-97, Memo.cpp:17-29).
THEOREM TrueStaysKept == Spec => TrueIsKept
<1> DEFINE Kept ==
      \A d \in Diffs : \A c \in APInts :
        BoundGet(memo[d], c) = "TRUE" => BoundGet(memo'[d], c) = "TRUE"
<1>1. TypeInv /\ MergesUnproven /\ [Next]_vars => Kept
  <2> SUFFICES ASSUME TypeInv, MergesUnproven, [Next]_vars PROVE Kept
    OBVIOUS
  <2>1. CASE FoldResult
    <3>1. Top \in Frames /\ InequalityOf(Top) \in Inequalities /\ ret \in L
      BY <2>1, TopTypes, FrameTypes DEF FoldResult, TypeInv, TypeOK
    <3>2. MemoModify(InequalityOf(Top).b \notin Phis, InequalityOf(Top), ret)
      BY <2>1 DEF FoldResult, InequalityOf
    <3> QED BY <3>1, <3>2, ModifyKeepsTrue
  <2>2. CASE ~FoldResult
    <3>1. memo' = memo
      BY <2>2 DEF Next, Prove, Add, Finish, DemandProve, AlreadyProven, NoIncomingEdges,
         ActiveCycle, Return, Visit, Descend, Leave, Conclude, vars
    <3> QED BY <3>1
  <2> QED BY <2>1, <2>2
<1>2. Init => TypeInv /\ MergesUnproven
  BY InitType DEF Init, MergesUnproven
<1>3. TypeInv /\ MergesUnproven /\ [Next]_vars => (TypeInv /\ MergesUnproven)'
  BY StepType, StepMerges
<1>4. TypeInv /\ MergesUnproven /\ [Next]_vars => [Kept]_vars
  BY <1>1
<1> HIDE DEF Kept
<1>5. Spec => [][Kept]_vars
  BY <1>2, <1>3, <1>4, PTL DEF Spec
<1> QED
  BY <1>5 DEF Kept, TrueIsKept

(***************************************************************************)
(* The two indexes of the graph.                                           *)
(***************************************************************************)
LEMMA IndexesAfterAdd ==
  ASSUME TypeOK, IndexesAgree, NEW e \in EdgeInputs, AddEdge(e)
  PROVE  IndexesAgree'
<1>1. /\ e \in Inequalities /\ e.a \in Values /\ e.b \in Values
      /\ DiffOf(e) \in Diffs /\ DiffOf(e) = <<e.a, e.b>>
  BY InputsAssumption DEF Inequalities, Diffs, DiffOf
<1>2. incomingEdges \in [Values -> Seq(InEdges)] /\ edges \in [Diffs -> Options]
  BY DEF TypeOK
<1>3. CASE edges[DiffOf(e)] # {}
  <2>1. edges' = edges /\ incomingEdges' = incomingEdges
    BY <1>3 DEF AddEdge, graphVars
  <2> QED BY <2>1 DEF IndexesAgree
<1>4. CASE edges[DiffOf(e)] = {}
  <2> DEFINE new == [a |-> e.a, c |-> e.c]
             Into(graph, d) == {i \in DOMAIN graph[d[2]] : graph[d[2]][i].a = d[1]}
  <2>1. /\ incomingEdges' = [incomingEdges EXCEPT ![e.b] = Append(incomingEdges[e.b], new)]
        /\ edges' = [edges EXCEPT ![DiffOf(e)] = {e.c}]
    BY <1>4 DEF AddEdge
  <2> SUFFICES ASSUME NEW d \in Diffs
               PROVE  /\ edges'[d] = {incomingEdges'[d[2]][i].c : i \in Into(incomingEdges', d)}
                      /\ \A i, j \in Into(incomingEdges', d) : i = j
    BY DEF IndexesAgree
  <2>2. /\ edges[d] = {incomingEdges[d[2]][i].c : i \in Into(incomingEdges, d)}
        /\ \A i, j \in Into(incomingEdges, d) : i = j
    BY DEF IndexesAgree
  <2>3. d[1] \in Values /\ d[2] \in Values /\ d = <<d[1], d[2]>>
    BY DEF Diffs
  <2>4. CASE d[2] # e.b
    <3>1. incomingEdges'[d[2]] = incomingEdges[d[2]] /\ edges'[d] = edges[d]
      BY <1>1, <1>2, <2>1, <2>3, <2>4
    <3> QED BY <2>2, <3>1
  <2>5. CASE d[2] = e.b
    <3> DEFINE old == incomingEdges[e.b]
               n == Len(old) + 1
    <3>1. old \in Seq(InEdges) /\ new \in InEdges
      BY <1>1, <1>2 DEF InEdges, Inequalities
    <3>2. incomingEdges'[e.b] = Append(old, new)
      BY <1>1, <1>2, <2>1
    <3> HIDE DEF old
    <3>3. /\ n \in DOMAIN Append(old, new) /\ Append(old, new)[n] = new
          /\ DOMAIN Append(old, new) = DOMAIN old \cup {n} /\ n \notin DOMAIN old
          /\ \A i \in DOMAIN old : Append(old, new)[i] = old[i]
      BY <3>1
    <3> HIDE DEF n
    <3>4. CASE d[1] = e.a
      <4>1. d = DiffOf(e) /\ Into(incomingEdges, d) = {}
        BY <1>1, <1>4, <2>2, <2>3, <2>5, <3>4, SMTT(30)
      <4>2. \A i \in DOMAIN old : old[i].a # d[1]
        BY <2>5, <4>1 DEF old
      <4>3. Into(incomingEdges', d) = {n}
        BY <2>5, <3>2, <3>3, <3>4, <4>2
      <4>4. edges'[d] = {e.c}
        BY <1>1, <1>2, <2>1, <4>1
      <4> QED BY <2>5, <3>2, <3>3, <4>3, <4>4
    <3>5. CASE d[1] # e.a
      <4>1. Into(incomingEdges', d) = Into(incomingEdges, d)
        BY <2>5, <3>2, <3>3, <3>5 DEF old
      <4>2. \A i \in Into(incomingEdges, d) : incomingEdges'[d[2]][i] = incomingEdges[d[2]][i]
        BY <2>5, <3>2, <3>3 DEF old
      <4>3. edges'[d] = edges[d]
        BY <1>1, <1>2, <2>1, <2>3, <3>5
      <4> QED BY <2>2, <4>1, <4>2, <4>3
    <3> QED BY <3>4, <3>5
  <2> QED BY <2>4, <2>5
<1> QED BY <1>3, <1>4

\* The map of weights and the multimap of edges, which every add writes both
\* or neither of, agree on every graph (Prover.cpp:25-35).
THEOREM IndexesStayAgreed == Spec => []IndexesAgree
<1>1. Init => TypeInv /\ IndexesAgree
  <2>1. Init => IndexesAgree
    BY DEF Init, IndexesAgree, Diffs
  <2> QED BY <2>1, InitType
<1>2. TypeInv /\ IndexesAgree /\ [Next]_vars => (TypeInv /\ IndexesAgree)'
  <2> SUFFICES ASSUME TypeInv, IndexesAgree, [Next]_vars PROVE IndexesAgree'
    BY StepType
  <2>1. CASE UNCHANGED graphVars
    BY <2>1 DEF graphVars, IndexesAgree
  <2>2. CASE \E e \in EdgeInputs : Add(e)
    BY <2>1, <2>2, IndexesAfterAdd DEF Add, TypeInv
  <2>3. CASE ~\E e \in EdgeInputs : Add(e)
    BY <2>1, <2>3 DEF Next, Prove, Finish, DemandProve, AlreadyProven, NoIncomingEdges,
       ActiveCycle, Return, Visit, Descend, FoldResult, Leave, Conclude, vars, graphVars
  <2> QED BY <2>2, <2>3
<1> QED
  BY <1>1, <1>2, PTL DEF Spec

(***************************************************************************)
(* Soundness of the answer TRUE, in one valuation the graph admits.        *)
(***************************************************************************)
MemoSoundAt(val) ==
  \A d \in Diffs : \A t \in memo[d]["TRUE"] : val[d[2]] - val[d[1]] <= t

SoundAt(val) ==
  /\ MemoSoundAt(val)
  /\ pc = "return" /\ ret = "TRUE" => Holds(val, call)
  /\ \A n \in DOMAIN answered : answered[n].l = "TRUE" => Holds(val, answered[n].q)

SoundInv == \A val \in Valuations : Admits(val, Graph) => SoundAt(val)

ProofInv == GraphInv /\ CallsLinked /\ MergesUnproven /\ SoundInv

\* What needs no graph is decided exactly.
LEMMA FixedSound ==
  ASSUME ConstantsExact, NEW val \in Valuations, NEW q \in Inequalities,
         FixedBoundGet(q.a, q.b, q.c) = "TRUE"
  PROVE  Holds(val, q)
<1>1. /\ q.a \in Values /\ q.b \in Values /\ q.c \in Int
      /\ val[q.a] \in Int /\ val[q.b] \in Int
  BY InequalityTypes, ValuationsAssumption, SignBitAssumption DEF APInts
<1>2. CASE q.a = q.b
  <2>1. \E t \in Fixed(0, Sub(0, 1))["TRUE"] : t <= q.c
    BY <1>2, BoundGetTrue DEF FixedBoundGet
  <2>2. 0 <= q.c
    BY <2>1 DEF Fixed, Cleared, Proven
  <2> QED
    BY <1>1, <1>2, <2>2 DEF Holds
<1>3. CASE q.a # q.b
  <2> DEFINE v == WideSub(ConstVal[q.b], ConstVal[q.a])
  <2>1. /\ q.a \in Constants /\ q.b \in Constants
        /\ BoundGet(Fixed(v, WideSub(v, 1)), Reread(q.c)) = "TRUE"
    BY <1>3 DEF FixedBoundGet
  <2>2. \E t \in Fixed(v, WideSub(v, 1))["TRUE"] : t <= Reread(q.c)
    BY <2>1, BoundGetTrue
  <2>3. v <= Reread(q.c)
    BY <2>2 DEF Fixed, Cleared, Proven
  <2>4. ConstVal[q.b] - ConstVal[q.a] <= q.c
    BY <1>3, <2>1, <2>3, InequalityTypes DEF ConstantsExact
  <2> QED
    BY <2>1, <2>4, ValuationsAssumption DEF Holds
<1> QED
  BY <1>2, <1>3

LEMMA MemoGetSound ==
  ASSUME TypeOK, ConstantsExact, NEW val \in Valuations, MemoSoundAt(val),
         NEW q \in Inequalities, MemoGet(q) = "TRUE"
  PROVE  Holds(val, q)
<1>1. CASE FixedBoundGet(q.a, q.b, q.c) # "NULL"
  BY <1>1, FixedSound DEF MemoGet
<1>2. CASE FixedBoundGet(q.a, q.b, q.c) = "NULL"
  <2>1. PICK t \in memo[DiffOf(q)]["TRUE"] : t <= q.c
    BY <1>2, BoundGetTrue DEF MemoGet
  <2>2. DiffOf(q) \in Diffs /\ DiffOf(q)[1] = q.a /\ DiffOf(q)[2] = q.b
    BY InequalityTypes DEF DiffOf
  <2>3. val[q.b] - val[q.a] <= t
    BY <2>2 DEF MemoSoundAt
  <2>4. /\ val[q.a] \in Int /\ val[q.b] \in Int /\ q.c \in Int
    BY InequalityTypes, ValuationsAssumption, SignBitAssumption DEF APInts
  <2>5. t \in Int
    BY <2>2, SignBitAssumption DEF TypeOK, LBounds, Options, Proven, APInts
  <2> QED
    BY <2>1, <2>3, <2>4, <2>5 DEF Holds
<1> QED
  BY <1>1, <1>2

\* The subtraction of the edge in hand has not wrapped to a weaker bound.
StepFits(f) == SubGoal(f).c <= f.c - incomingEdges[f.b][f.i].c

TopFits == stack # <<>> /\ Waiting(Top) => StepFits(Top)

\* Where no weight is positive, it can only wrap to a stronger one.
LEMMA NotPositiveFits ==
  ASSUME GraphInv, WeightsNotPositive
  PROVE  TopFits
<1> SUFFICES ASSUME stack # <<>>, Waiting(Top) PROVE StepFits(Top)
  BY DEF TopFits
<1> DEFINE pred == incomingEdges[Top.b][Top.i]
<1>1. TypeOK /\ stack \in Seq(Frames)
  BY DEF GraphInv, TypeInv, TypeOK
<1>2. Top \in Frames
  BY <1>1, TopTypes
<1>3. Top.b \in Values /\ Top.c \in APInts /\ Top.i \in Nat \ {0}
  BY <1>2, FrameTypes
<1>4. pred \in InEdges /\ pred.c \in APInts
  BY <1>1, <1>2, SubGoalType DEF Waiting, InEdges
<1>5. Top.i \in 1 .. Len(incomingEdges[Top.b])
  BY <1>1, <1>3 DEF Waiting, TypeOK
<1>6. [a |-> pred.a, b |-> Top.b, c |-> pred.c] \in EdgeInputs
  BY <1>3, <1>5 DEF GraphInv, EdgesGiven
<1>7. pred.c <= 0
  BY <1>6 DEF WeightsNotPositive
<1>8. Sub(Top.c, pred.c) <= Top.c - pred.c
  BY <1>3, <1>4, <1>7, SubType
<1> QED BY <1>8 DEF StepFits, SubGoal

\* An answer to the subgoal over an edge that holds, whose bound has not wrapped
\* to a weaker one, answers the goal.
LEMMA SubGoalSound ==
  ASSUME GraphInv, NEW val \in Valuations,
         Admits(val, Graph), NEW f \in Frames, Waiting(f), StepFits(f),
         f.b \notin Phis, Holds(val, SubGoal(f))
  PROVE  Holds(val, InequalityOf(f))
<1> DEFINE pred == incomingEdges[f.b][f.i]
           edge == [a |-> pred.a, b |-> f.b, c |-> pred.c]
<1>1. f.a \in Values /\ f.b \in Values /\ f.c \in APInts /\ f.i \in Nat \ {0}
  BY FrameTypes
<1>2. TypeOK
  BY DEF GraphInv, TypeInv
<1>3. pred \in InEdges
  BY <1>2, SubGoalType DEF Waiting
<1>4. f.i \in 1 .. Len(incomingEdges[f.b])
  BY <1>1, <1>2 DEF Waiting, TypeOK
<1>6. Holds(val, edge)
  <2>1. edge \in Graph
    BY <1>2, GraphMember
  <2> QED
    BY <2>1 DEF Admits
<1>7. pred.a \in Values /\ pred.c \in APInts
  BY <1>3 DEF InEdges
<1>8. /\ SubGoal(f).a = f.a /\ SubGoal(f).b = pred.a
      /\ SubGoal(f).c = Sub(f.c, pred.c)
  BY DEF SubGoal
<1>9. /\ Sub(f.c, pred.c) \in APInts
      /\ Sub(f.c, pred.c) <= f.c - pred.c
  BY <1>1, <1>7, <1>8, SubType DEF StepFits
<1>10. /\ val[f.a] \in Int /\ val[f.b] \in Int /\ val[pred.a] \in Int
  BY <1>1, <1>7, ValuationsAssumption
<1>11. val[pred.a] - val[f.a] <= Sub(f.c, pred.c)
  BY <1>8 DEF Holds
<1>12. val[f.b] - val[pred.a] <= pred.c
  BY <1>6 DEF Holds
<1>13. /\ f.c \in Int /\ pred.c \in Int /\ Sub(f.c, pred.c) \in Int
  BY <1>1, <1>7, <1>9, SignBitAssumption DEF APInts
<1> HIDE DEF pred, edge
<1>14. val[f.b] - val[f.a] <= f.c
  BY <1>9, <1>10, <1>11, <1>12, <1>13
<1> QED
  BY <1>14 DEF Holds, InequalityOf

LEMMA SoundAfterFold ==
  ASSUME ConstantsExact, TopFits, ProofInv, FoldResult,
         NEW val \in Valuations, Admits(val, Graph), SoundAt(val)
  PROVE  MemoSoundAt(val)'
<1> DEFINE q == InequalityOf(Top)
<1>1. TypeOK /\ stack # <<>> /\ pc = "return" /\ ret \in L
  BY DEF ProofInv, GraphInv, TypeInv, TypeOK, FoldResult
<1>2. Top \in Frames
  BY <1>1, TopTypes DEF TypeOK
<1>3. /\ q \in Inequalities /\ q.c = Top.c /\ q.c \in APInts
      /\ DiffOf(q) \in Diffs /\ DiffOf(q) = <<Top.a, Top.b>>
  BY <1>2, FrameTypes, InequalityTypes DEF InequalityOf, DiffOf
<1>4. memo' = [memo EXCEPT ![DiffOf(q)] = Modify(@, Top.b \notin Phis, ret, q.c)]
  BY DEF FoldResult, MemoModify
<1>5. CASE Top.b \in Phis
  <2>1. memo[DiffOf(q)] = Cleared
    BY <1>3, <1>5 DEF ProofInv, MergesUnproven
  <2>2. Modify(Cleared, Top.b \notin Phis, ret, q.c) = Cleared
    BY <1>1, <1>5, WeakenCleared DEF Modify
  <2>3. memo' = memo
    BY <1>1, <1>3, <1>4, <2>1, <2>2 DEF TypeOK
  <2> QED
    BY <2>3 DEF SoundAt, MemoSoundAt
<1>6. CASE Top.b \notin Phis
  <2>1. ASSUME ret = "TRUE" PROVE Holds(val, q)
    <3>1. Waiting(Top) /\ Holds(val, SubGoal(Top))
      BY <1>1, <2>1 DEF ProofInv, CallsLinked, SoundAt
    <3> QED
      BY <1>1, <1>2, <1>6, <3>1, SubGoalSound DEF ProofInv, TopFits
  <2>2. ASSUME NEW d \in Diffs, NEW t \in memo'[d]["TRUE"]
        PROVE  val[d[2]] - val[d[1]] <= t
    <3>1. CASE d # DiffOf(q)
      BY <1>1, <1>4, <2>2, <3>1 DEF SoundAt, MemoSoundAt, TypeOK
    <3>2. CASE d = DiffOf(q)
      <4>1. t \in Strengthen(memo[d], ret, q.c)["TRUE"] /\ memo[d] \in LBounds
        BY <1>1, <1>4, <1>6, <2>2, <3>2 DEF Modify, TypeOK
      <4>2. t \in memo[d]["TRUE"] \/ (ret = "TRUE" /\ t = q.c)
        BY <1>1, <1>3, <4>1, StrengthenTrue
      <4>3. CASE t \in memo[d]["TRUE"]
        BY <4>3 DEF SoundAt, MemoSoundAt
      <4>4. CASE ret = "TRUE" /\ t = q.c
        <5>1. Holds(val, q)
          BY <2>1, <4>4
        <5>2. q.a = d[1] /\ q.b = d[2]
          BY <3>2 DEF DiffOf
        <5> QED
          BY <4>4, <5>1, <5>2 DEF Holds
      <4> QED
        BY <4>2, <4>3, <4>4
    <3> QED
      BY <3>1, <3>2
  <2> QED
    BY <2>2 DEF MemoSoundAt
<1> QED
  BY <1>5, <1>6

LEMMA InitProof == Init => ProofInv
<1> SUFFICES ASSUME Init PROVE ProofInv
  OBVIOUS
<1>1. GraphInv /\ CallsLinked /\ MergesUnproven
  BY InitGraph DEF Init, CallsLinked, MergesUnproven
<1>2. \A d \in Diffs : memo[d]["TRUE"] = {}
  BY DEF Init, Cleared, Proven
<1>3. SoundInv
  BY <1>2 DEF Init, SoundInv, SoundAt, MemoSoundAt
<1> QED
  BY <1>1, <1>3 DEF ProofInv

\* Nothing has been answered while the graph grows.
LEMMA SoundAfterAdd ==
  ASSUME ProofInv, NEW e \in EdgeInputs, Add(e)
  PROVE  SoundInv'
<1>1. /\ memo' = [d \in Diffs |-> Cleared] /\ answered' = <<>> /\ pc' = "build"
  BY DEF ProofInv, GraphInv, NothingAsked, Add
<1>2. \A d \in Diffs : memo'[d]["TRUE"] = {}
  BY <1>1 DEF Cleared, Proven
<1> QED
  BY <1>1, <1>2 DEF SoundInv, SoundAt, MemoSoundAt

LEMMA SoundAfterStep ==
  ASSUME ConstantsExact, TopFits, ProofInv, [Next]_vars,
         ~\E e \in EdgeInputs : Add(e),
         NEW val \in Valuations, Admits(val, Graph), SoundAt(val)
  PROVE  SoundAt(val)'
<1> USE DEF SoundAt
<1>0. TypeOK /\ TypeInv
  BY DEF ProofInv, GraphInv, TypeInv
<1>1. CASE Finish
  BY <1>1 DEF Finish, MemoSoundAt
<1>2. CASE \E q \in Queries : DemandProve(q)
  BY <1>2 DEF DemandProve, MemoSoundAt
<1>3. CASE AlreadyProven
  <2>1. MemoGet(call) = "TRUE" => Holds(val, call)
    BY <1>0, MemoGetSound DEF TypeOK
  <2> QED
    BY <1>3, <2>1 DEF AlreadyProven, Return, MemoSoundAt, Holds
<1>4. CASE NoIncomingEdges
  BY <1>4 DEF NoIncomingEdges, Return, MemoSoundAt
<1>5. CASE ActiveCycle
  BY <1>5 DEF ActiveCycle, Return, MemoSoundAt
<1>6. CASE Visit
  BY <1>6 DEF Visit, MemoSoundAt
<1>7. CASE Descend
  BY <1>7 DEF Descend, MemoSoundAt
<1>8. CASE FoldResult
  <2>1. MemoSoundAt(val)'
    BY <1>8, SoundAfterFold
  <2> QED
    BY <1>8, <2>1 DEF FoldResult
<1>9. CASE Leave
  <2>1. InequalityOf(Top) \in Inequalities
    BY <1>0, <1>9, TopTypes, FrameTypes DEF Leave, TypeInv, TypeOK, Control
  <2>2. MemoGet(InequalityOf(Top)) = "TRUE" => Holds(val, InequalityOf(Top))
    BY <1>0, <2>1, MemoGetSound
  <2> QED
    BY <1>9, <2>2 DEF Leave, MemoSoundAt, Holds
<1>10. CASE Conclude
  <2>1. ret = "TRUE" => Holds(val, goal)
    BY <1>10 DEF Conclude, ProofInv, CallsLinked
  <2>2. answered' = Append(answered, [q |-> goal, l |-> ret])
    BY <1>10 DEF Conclude
  <2>3. answered \in Seq([q : Inequalities, l : L])
    BY <1>0 DEF TypeOK
  <2>4. ASSUME NEW n \in DOMAIN answered', answered'[n].l = "TRUE"
        PROVE  Holds(val, answered'[n].q)
    <3>1. CASE n \in DOMAIN answered
      <4>1. answered'[n] = answered[n]
        BY <2>2, <2>3, <3>1
      <4> QED
        BY <2>4, <3>1, <4>1
    <3>2. CASE n \notin DOMAIN answered
      <4>1. [q |-> goal, l |-> ret] \in [q : Inequalities, l : L]
        BY <1>0 DEF TypeOK
      <4>2. answered'[n] = [q |-> goal, l |-> ret]
        BY <2>2, <2>3, <3>2, <4>1
      <4>3. answered'[n].l = ret /\ answered'[n].q = goal
        BY <4>2
      <4> QED
        BY <2>1, <2>4, <4>3
    <3> QED
      BY <3>1, <3>2
  <2> QED
    BY <1>10, <2>4 DEF Conclude, MemoSoundAt, Holds
<1>11. CASE UNCHANGED vars
  BY <1>11 DEF vars, MemoSoundAt
<1> QED
  BY <1>1, <1>2, <1>3, <1>4, <1>5, <1>6, <1>7, <1>8, <1>9, <1>10, <1>11
  DEF Next, Prove

LEMMA SameGraph ==
  ASSUME [Next]_vars, ~\E e \in EdgeInputs : Add(e)
  PROVE  incomingEdges' = incomingEdges /\ Graph' = Graph
<1>1. incomingEdges' = incomingEdges
  BY DEF Next, Prove, Finish, DemandProve, AlreadyProven, NoIncomingEdges,
     ActiveCycle, Return, Visit, Descend, FoldResult, Leave, Conclude, vars,
     graphVars
<1> QED
  BY <1>1 DEF Graph

LEMMA StepProof ==
  ASSUME ConstantsExact, TopFits, ProofInv, [Next]_vars
  PROVE  ProofInv'
<1>1. GraphInv' /\ CallsLinked' /\ MergesUnproven'
  BY StepGraph, StepLinked, StepMerges DEF ProofInv, GraphInv
<1>2. SoundInv'
  <2>1. CASE \E e \in EdgeInputs : Add(e)
    BY <2>1, SoundAfterAdd
  <2>2. CASE ~\E e \in EdgeInputs : Add(e)
    <3>1. ASSUME NEW val \in Valuations, Admits(val, Graph') PROVE SoundAt(val)'
      BY <2>2, <3>1, SameGraph, SoundAfterStep DEF ProofInv, SoundInv
    <3> QED
      BY <3>1 DEF SoundInv, Admits, Holds
  <2> QED
    BY <2>1, <2>2
<1> QED
  BY <1>1, <1>2 DEF ProofInv

LEMMA ProofImpliesMemoSound == ProofInv => MemoSound
BY DEF ProofInv, SoundInv, SoundAt, MemoSoundAt, MemoSound, Entails, Holds

\* At every width, on every graph without positive weights and with constants
\* that compare exactly, what the memo holds as true follows from the graph:
\* wrapping, early returns and the order of the queries cannot spoil it
\* (Prover.cpp:40-73, Memo.cpp:17-29, LBound.cpp:67-97).
THEOREM MemoIsSound ==
  ASSUME ConstantsExact, WeightsNotPositive
  PROVE  Spec => []MemoSound
<1>1. Init => ProofInv
  BY InitProof
<1>2. ProofInv /\ [Next]_vars => ProofInv'
  BY StepProof, NotPositiveFits DEF ProofInv
<1>3. ProofInv => MemoSound
  BY ProofImpliesMemoSound
<1> QED
  BY <1>1, <1>2, <1>3, PTL DEF Spec

\* The two hypotheses hold of the removal pass by its one-bit bounds, as long
\* as the program compares with at most one constant.
LEMMA OneBitWeights == SignBit = 1 => WeightsNotPositive
BY InputsAssumption DEF WeightsNotPositive, APInts

LEMMA OneConstantExact == (\A j, k \in Constants : j = k) => ConstantsExact
BY DEF ConstantsExact

THEOREM OneBitMemoIsSound ==
  ASSUME SignBit = 1, \A j, k \in Constants : j = k
  PROVE  Spec => []MemoSound
BY OneBitWeights, OneConstantExact, MemoIsSound
=============================================================================
