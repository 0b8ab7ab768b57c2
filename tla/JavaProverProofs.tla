-------------------------- MODULE JavaProverProofs --------------------------
(***************************************************************************)
(* What the Java prototype remembers as true follows from its multigraph,  *)
(* and what its multigraph states it answers "proven" when it is the first *)
(* question from its value.  Its steps are those of the prover but for the *)
(* one that adds an inequality, so the invariants of the proofs about the  *)
(* prover are kept by all of them once they are kept by that one.          *)
(***************************************************************************)
EXTENDS JavaProver, ProverCallProofs

LEMMA PutType ==
  ASSUME TypeInv, NEW e \in EdgeInputs, GraphAdd(e)
  PROVE  /\ TypeInv' /\ e \in Inequalities
         /\ incomingEdges \in [Values -> Seq(InEdges)]
         /\ incomingEdges' = [incomingEdges EXCEPT ![e.b] =
                                Append(incomingEdges[e.b], [a |-> e.a, c |-> e.c])]
<1>1. e \in Inequalities
  BY InputsAssumption DEF Inequalities
<1>2. [a |-> e.a, c |-> e.c] \in InEdges /\ e.b \in Values
  BY <1>1, InequalityTypes DEF InEdges
<1>3. incomingEdges \in [Values -> Seq(InEdges)]
  BY DEF TypeInv, TypeOK
<1>4. incomingEdges' = [incomingEdges EXCEPT ![e.b] =
                          Append(incomingEdges[e.b], [a |-> e.a, c |-> e.c])]
  BY DEF GraphAdd, Put
<1>5. Append(incomingEdges[e.b], [a |-> e.a, c |-> e.c]) \in Seq(InEdges)
  BY <1>2, <1>3
<1>6. incomingEdges' \in [Values -> Seq(InEdges)]
  BY <1>3, <1>4, <1>5
<1>7. TypeInv'
  BY <1>6 DEF TypeInv, TypeOK, Control, GraphAdd
<1> QED BY <1>1, <1>3, <1>4, <1>7

LEMMA PutGiven ==
  ASSUME GraphInv, NEW e \in EdgeInputs, GraphAdd(e)
  PROVE  EdgesGiven'
<1>1. /\ e \in Inequalities
      /\ incomingEdges \in [Values -> Seq(InEdges)]
      /\ incomingEdges' = [incomingEdges EXCEPT ![e.b] =
                             Append(incomingEdges[e.b], [a |-> e.a, c |-> e.c])]
  BY PutType DEF GraphInv
<1>2. e = [a |-> e.a, b |-> e.b, c |-> e.c]
  BY <1>1 DEF Inequalities
<1> SUFFICES ASSUME NEW b \in Values, NEW i \in 1 .. Len(incomingEdges'[b])
             PROVE  [a |-> incomingEdges'[b][i].a, b |-> b,
                     c |-> incomingEdges'[b][i].c] \in EdgeInputs
  BY DEF EdgesGiven
<1>3. CASE i \in 1 .. Len(incomingEdges[b])
  <2>1. incomingEdges'[b][i] = incomingEdges[b][i]
    BY <1>1, <1>3
  <2> QED BY <1>3, <2>1 DEF GraphInv, EdgesGiven
<1>4. CASE i \notin 1 .. Len(incomingEdges[b])
  <2>1. b = e.b /\ incomingEdges'[b][i] = [a |-> e.a, c |-> e.c]
    BY <1>1, <1>4
  <2> QED BY <1>2, <2>1
<1> QED BY <1>3, <1>4

\* Nothing is in progress, and nothing has been answered, while the graph grows.
LEMMA PutKeepsCalls ==
  ASSUME TraversalInv, NEW e \in EdgeInputs, GraphAdd(e)
  PROVE  /\ TraversalInv'
         /\ pc' = "build" /\ stack' = <<>> /\ answered' = <<>>
         /\ memo' = [d \in Diffs |-> Cleared]
<1>1. /\ pc = "build" /\ pc' = "build" /\ stack' = stack
      /\ memo' = [d \in Diffs |-> Cleared] /\ answered' = <<>>
  BY DEF TraversalInv, GraphInv, NothingAsked, GraphAdd
<1>2. TypeInv' /\ EdgesGiven'
  BY PutType, PutGiven DEF TraversalInv, GraphInv
<1>3. stack' = <<>>
  BY <1>1 DEF TraversalInv, GraphInv, TypeInv, Control
<1>4. CallsLinked'
  <2>1. Len(stack') = 0
    BY <1>3
  <2> QED BY <1>1, <1>3, <2>1 DEF CallsLinked
<1>5. MergesUnproven'
  BY <1>1 DEF MergesUnproven
<1> QED BY <1>1, <1>2, <1>3, <1>4, <1>5 DEF TraversalInv, GraphInv, NothingAsked

LEMMA PutKeeps ==
  ASSUME ProofInv, NEW e \in EdgeInputs, GraphAdd(e)
  PROVE  ProofInv'
<1>1. /\ TraversalInv' /\ stack' = <<>> /\ pc' = "build" /\ answered' = <<>>
      /\ memo' = [d \in Diffs |-> Cleared]
  BY PutKeepsCalls DEF ProofInv, TraversalInv
<1>2. \A d \in Diffs : memo'[d]["TRUE"] = {}
  BY <1>1 DEF Cleared, Proven
<1>3. SoundInv'
  BY <1>1, <1>2 DEF SoundInv, SoundAt, MemoSoundAt
<1> QED BY <1>1, <1>3 DEF ProofInv, TraversalInv

\* A step of JavaNext adds an inequality or is one of the prover's.
LEMMA JavaStep ==
  ASSUME [JavaNext]_<<vars, told>>
  PROVE  (\E e \in EdgeInputs : GraphAdd(e)) \/ [Next]_vars
BY DEF JavaNext, Next, Prove

(***************************************************************************)
(* No bound of the recursion leaves the width.                             *)
(***************************************************************************)
QuestionsGiven ==
  /\ pc \in {"enter", "loop", "return"} => goal \in Queries
  /\ \A n \in DOMAIN answered : answered[n].q \in Queries

LEMMA StepQuestions ==
  ASSUME TraversalInv, QuestionsGiven, [Next]_vars
  PROVE  QuestionsGiven'
<1>1. CASE UNCHANGED <<goal, answered>> /\ (pc' \in {"enter", "loop", "return"} =>
                                            pc \in {"enter", "loop", "return"})
  BY <1>1 DEF QuestionsGiven
<1>2. ASSUME NEW q \in Queries, DemandProve(q) PROVE QuestionsGiven'
  BY <1>2 DEF DemandProve, QuestionsGiven
<1>3. CASE Conclude
  <2>1. /\ pc = "return" /\ pc' = "idle" /\ goal \in Queries
        /\ answered' = Append(answered, [q |-> goal, l |-> ret])
        /\ answered \in Seq([q : Inequalities, l : L])
        /\ [q |-> goal, l |-> ret] \in [q : Inequalities, l : L]
    BY <1>3 DEF Conclude, QuestionsGiven, TraversalInv, GraphInv, TypeInv, TypeOK
  <2>2. \A n \in DOMAIN answered' :
          \/ n \in DOMAIN answered /\ answered'[n] = answered[n]
          \/ answered'[n] = [q |-> goal, l |-> ret]
    BY <2>1
  <2> QED BY <2>1, <2>2 DEF QuestionsGiven
<1> QED
  BY <1>1, <1>2, <1>3 DEF Next, Prove, Add, Finish, AlreadyProven, NoIncomingEdges,
     ActiveCycle, Return, Visit, Descend, FoldResult, Leave, vars

\* The bound c is within n edges, each of a weight from -w to w, of that of g.
Within(g, w, n, c) == g.c - n * w <= c /\ c <= g.c + n * w

\* Each call is as many edges away from the question as there are calls below.
BoundsNear(w) ==
  /\ \A k \in 1 .. Len(stack) : Within(goal, w, k - 1, stack[k].c)
  /\ pc = "enter" => Within(goal, w, Len(stack), call.c)

CallsNear(w) == QuestionsGiven /\ CallsInv /\ BoundsNear(w)

LEMMA NoEdges == \A w, g \in Int : g - 0 * w <= g /\ g <= g + 0 * w
OBVIOUS

LEMMA FewerEdges == \A w, m, n \in Nat : m <= n => m * w <= n * w
OBVIOUS

LEMMA OneMoreEdge == \A w, n \in Nat : (n + 1) * w = n * w + w /\ n * w \in Nat
OBVIOUS

LEMMA NearAfterEdge ==
  \A g, c, p, w, near, far, reach, s \in Int :
    /\ -w <= p /\ p <= w /\ far = near + w /\ far <= reach
    /\ g - near <= c /\ c <= g + near
    /\ -s <= g - reach /\ g + reach < s
    => /\ g - far <= c - p /\ c - p <= g + far
       /\ -s <= c - p /\ c - p < s
OBVIOUS

LEMMA NoWrap ==
  ASSUME NEW x \in Int, NEW y \in Int, -SignBit <= x - y, x - y < SignBit
  PROVE  Sub(x, y) = x - y
BY SignBitAssumption DEF Sub, WrapAt

\* The subtraction of the edge in hand does not wrap.
LEMMA StepNear ==
  ASSUME IsFiniteSet(Values), NEW w \in Nat, BoundsFit(w), GraphInv, CallsNear(w),
         stack # <<>>, Waiting(Top)
  PROVE  /\ SubGoal(Top).c = Top.c - incomingEdges[Top.b][Top.i].c
         /\ Within(goal, w, Len(stack), SubGoal(Top).c)
<1> DEFINE pred == incomingEdges[Top.b][Top.i]
           N == Cardinality(Values)
           n == Len(stack) - 1
<1>1. /\ TypeOK /\ stack \in Seq(Frames) /\ goal \in Inequalities
      /\ pc \in {"build", "idle", "enter", "loop", "return"}
      /\ pc \notin {"build", "idle"}
  BY DEF GraphInv, TypeInv, TypeOK, Control
<1>2. Top \in Frames /\ Len(stack) \in Nat \ {0} /\ Top = stack[Len(stack)]
  BY <1>1, TopTypes
<1>3. Top.b \in Values /\ Top.c \in APInts /\ Top.i \in Nat \ {0}
  BY <1>2, FrameTypes
<1>4. pred \in InEdges /\ pred.c \in APInts
  BY <1>1, <1>2, SubGoalType DEF Waiting, InEdges
<1>5. -w <= pred.c /\ pred.c <= w
  <2>1. Top.i \in 1 .. Len(incomingEdges[Top.b])
    BY <1>1, <1>3 DEF Waiting, TypeOK
  <2>2. [a |-> pred.a, b |-> Top.b, c |-> pred.c] \in EdgeInputs
    BY <1>3, <2>1 DEF GraphInv, EdgesGiven
  <2> QED BY <2>2 DEF BoundsFit
<1>6. goal \in Queries /\ goal.c \in APInts
  <2>1. goal \in Queries
    BY <1>1 DEF CallsNear, QuestionsGiven
  <2> QED BY <1>1, <2>1, InequalityTypes
<1>7. -SignBit <= goal.c - N * w /\ goal.c + N * w < SignBit
  BY <1>6 DEF BoundsFit
<1>8. N \in Nat /\ Len(stack) <= N
  BY FS_CardinalityType, CallsBounded DEF GraphInv, CallsNear, DepthBound
<1>9. goal.c - n * w <= Top.c /\ Top.c <= goal.c + n * w
  BY <1>2 DEF CallsNear, BoundsNear, Within
<1>10. n \in Nat /\ n + 1 = Len(stack)
  BY <1>2
<1>11. /\ Len(stack) * w = n * w + w /\ n * w \in Nat
       /\ Len(stack) * w \in Nat /\ Len(stack) * w <= N * w /\ N * w \in Nat
  <2> HIDE DEF n, N
  <2>1. (n + 1) * w = n * w + w /\ n * w \in Nat
    BY <1>10, OneMoreEdge
  <2>2. Len(stack) * w \in Nat /\ N * w \in Nat
    BY <1>2, <1>8, OneMoreEdge
  <2>3. Len(stack) * w <= N * w
    BY <1>2, <1>8, FewerEdges
  <2> QED BY <1>10, <2>1, <2>2, <2>3
<1> DEFINE reach == N * w    far == Len(stack) * w    near == n * w
<1>12. /\ far = near + w /\ far <= reach /\ far \in Int /\ near \in Int /\ reach \in Int
       /\ goal.c - near <= Top.c /\ Top.c <= goal.c + near
       /\ -SignBit <= goal.c - reach /\ goal.c + reach < SignBit
       /\ Top.c \in Int /\ pred.c \in Int /\ goal.c \in Int /\ SignBit \in Int
  BY <1>3, <1>4, <1>6, <1>7, <1>9, <1>11, SignBitAssumption DEF APInts
<1>13. SubGoal(Top).c = Sub(Top.c, pred.c)
  BY DEF SubGoal
<1> HIDE DEF reach, far, near, pred, n, N
<1>14. /\ goal.c - far <= Top.c - pred.c /\ Top.c - pred.c <= goal.c + far
       /\ -SignBit <= Top.c - pred.c /\ Top.c - pred.c < SignBit
  <2>1. w \in Int
    OBVIOUS
  <2> QED BY <1>5, <1>12, <2>1, NearAfterEdge
<1>15. Sub(Top.c, pred.c) = Top.c - pred.c
  BY <1>12, <1>14, NoWrap
<1> QED BY <1>13, <1>14, <1>15 DEF Within, far, pred

LEMMA StepBoundsNear ==
  ASSUME IsFiniteSet(Values), NEW w \in Nat, BoundsFit(w), ProofInv, CallsNear(w),
         [Next]_vars
  PROVE  BoundsNear(w)'
<1>0. /\ TypeInv /\ TypeOK /\ Control /\ stack \in Seq(Frames) /\ Len(stack) \in Nat
      /\ goal \in Inequalities /\ call \in Inequalities
  BY DEF ProofInv, GraphInv, TypeInv, TypeOK
<1> USE DEF BoundsNear
<1>1. CASE UNCHANGED <<goal, stack, call>> /\ (pc' = "enter" => pc = "enter")
  BY <1>1 DEF CallsNear
<1>2. CASE \E q \in Queries : DemandProve(q)
  <2>1. stack' = <<>> /\ Len(stack') = 0 /\ call' = goal'
    BY <1>0, <1>2 DEF DemandProve, Control
  <2>2. goal' \in Inequalities
    BY <1>2, InputsAssumption DEF DemandProve, Inequalities
  <2>3. goal'.c \in Int
    BY <2>2, InequalityTypes, SignBitAssumption DEF APInts
  <2> QED BY <2>1, <2>3, NoEdges DEF Within
<1>3. CASE Visit
  <2> DEFINE new == [a |-> call.a, b |-> call.b, c |-> call.c, i |-> 1]
  <2>1. /\ stack' = Append(stack, new) /\ pc' = "loop" /\ pc = "enter" /\ goal' = goal
        /\ new.c = call.c
    BY <1>3 DEF Visit
  <2>2. Within(goal, w, Len(stack), call.c)
    BY <2>1 DEF CallsNear
  <2> HIDE DEF new
  <2>3. /\ Len(stack') - 1 = Len(stack) /\ stack'[Len(stack')] = new
        /\ \A k \in 1 .. Len(stack) : stack'[k] = stack[k]
        /\ \A k \in 1 .. Len(stack') : k \in 1 .. Len(stack) \/ k = Len(stack')
    BY <1>0, <2>1
  <2> QED BY <2>1, <2>2, <2>3 DEF CallsNear
<1>4. CASE Descend
  <2>1. /\ stack # <<>> /\ Waiting(Top) /\ call' = SubGoal(Top)
        /\ UNCHANGED <<goal, stack>>
    BY <1>0, <1>4 DEF Descend, Control, Waiting
  <2>2. Within(goal, w, Len(stack), SubGoal(Top).c)
    BY <2>1, StepNear DEF ProofInv
  <2> QED BY <2>1, <2>2 DEF CallsNear
<1>5. CASE FoldResult
  <2>1. /\ stack' = [stack EXCEPT ![Len(stack)] = Advanced(stack[Len(stack)])]
        /\ pc' = "loop" /\ goal' = goal
    BY <1>5 DEF FoldResult
  <2>2. Len(stack') = Len(stack) /\ \A k \in 1 .. Len(stack) : stack'[k].c = stack[k].c
    BY <1>0, <2>1 DEF Advanced
  <2> QED BY <2>1, <2>2 DEF CallsNear
<1>6. CASE Leave
  <2>1. stack' = Below /\ stack # <<>> /\ pc' = "return" /\ goal' = goal
    BY <1>0, <1>6 DEF Leave, Control
  <2>2. Len(stack') = Len(stack) - 1 /\ \A k \in 1 .. Len(stack) - 1 : stack'[k] = stack[k]
    BY <1>0, <2>1, TopTypes
  <2> QED BY <1>0, <2>1, <2>2 DEF CallsNear
<1> QED
  BY <1>1, <1>2, <1>3, <1>4, <1>5, <1>6
  DEF Next, Prove, Add, Finish, AlreadyProven, NoIncomingEdges, ActiveCycle, Return,
      Conclude, vars

\* On every multigraph whose constants compare exactly and whose weights, be they
\* positive, take no bound out of the width, what the memo of the prototype holds
\* as true follows from the graph, parallel edges and loops included
\* (java/src/abcd/Prover.java:23-51).
THEOREM JavaMemoIsSound ==
  ASSUME ConstantsExact, IsFiniteSet(Values), NEW CONSTANT w \in Nat, BoundsFit(w)
  PROVE  JavaSpec => []MemoSound
<1> DEFINE Inv == ProofInv /\ CallsNear(w)
<1>1. JavaInit => Inv
  <2> SUFFICES ASSUME JavaInit PROVE Inv
    OBVIOUS
  <2>1. Init /\ stack = <<>> /\ pc = "build" /\ answered = <<>> /\ Len(stack) = 0
    BY DEF JavaInit, Init
  <2>2. DOMAIN answered = {}
    BY <2>1
  <2> QED BY <2>1, <2>2, InitProof, InitCalls DEF CallsNear, QuestionsGiven, BoundsNear
<1>2. ASSUME Inv, NEW e \in EdgeInputs, GraphAdd(e) PROVE Inv'
  <2>1. ProofInv'
    BY <1>2, PutKeeps
  <2>2. /\ stack' = <<>> /\ pc' = "build" /\ answered' = <<>>
        /\ UNCHANGED <<stack, active>>
    BY <1>2, PutKeepsCalls DEF ProofInv, TraversalInv, GraphAdd
  <2>3. Len(stack') = 0 /\ DOMAIN answered' = {}
    BY <2>2
  <2>4. CallsInv'
    BY <1>2, <2>2 DEF CallsNear, CallsInv
  <2> QED BY <2>1, <2>2, <2>3, <2>4 DEF CallsNear, QuestionsGiven, BoundsNear
<1>3. ASSUME Inv, [Next]_vars PROVE Inv'
  <2>1. TopFits
    <3> SUFFICES ASSUME stack # <<>>, Waiting(Top) PROVE StepFits(Top)
      BY DEF TopFits
    <3>1. Top \in Frames /\ TypeOK
      BY <1>3, TopTypes DEF ProofInv, GraphInv, TypeInv, TypeOK
    <3>2. Top.c \in Int /\ incomingEdges[Top.b][Top.i].c \in Int
      BY <3>1, FrameTypes, SubGoalType, SignBitAssumption DEF Waiting, InEdges, APInts
    <3>3. SubGoal(Top).c = Top.c - incomingEdges[Top.b][Top.i].c
      BY <1>3, StepNear DEF ProofInv
    <3> QED BY <3>2, <3>3 DEF StepFits
  <2>2. ProofInv'
    BY <1>3, <2>1, StepProof
  <2>3. QuestionsGiven' /\ CallsInv' /\ BoundsNear(w)'
    BY <1>3, StepQuestions, StepCalls, StepBoundsNear
    DEF CallsNear, ProofInv, GraphInv, TraversalInv
  <2> QED BY <2>2, <2>3 DEF CallsNear
<1>4. Inv /\ [JavaNext]_<<vars, told>> => Inv'
  BY <1>2, <1>3, JavaStep
<1>5. Inv => MemoSound
  BY ProofImpliesMemoSound
<1> QED
  BY <1>1, <1>4, <1>5, PTL DEF JavaSpec

(***************************************************************************)
(* What is stated is proved.                                               *)
(***************************************************************************)

\* No question can be answered without the graph, and its target is no merge.
QuestionsOpen == \A q \in Queries : Open(q)

\* Put forgets nothing it was told, whatever edges there were.
ToldIsStated == \A e \in told : e \in Inequalities /\ Stated(e)

JavaInv == TraversalInv /\ StatedInv /\ ToldIsStated /\ QuestionsGiven

LEMMA PutKeepsTold ==
  ASSUME TypeInv, ToldIsStated, NEW e \in EdgeInputs, GraphAdd(e)
  PROVE  ToldIsStated'
<1>1. /\ e \in Inequalities /\ e.b \in Values
      /\ incomingEdges \in [Values -> Seq(InEdges)]
      /\ incomingEdges' = [incomingEdges EXCEPT ![e.b] =
                             Append(incomingEdges[e.b], [a |-> e.a, c |-> e.c])]
  BY PutType, InequalityTypes
<1>2. told' = told \cup {e}
  BY DEF GraphAdd
<1>3. ASSUME NEW q \in told
      PROVE  q \in Inequalities /\ \E i \in Nat : EdgeAt(q, i)'
  <2>1. PICK i \in Nat : q \in Inequalities /\ EdgeAt(q, i)
    BY DEF ToldIsStated, Stated
  <2>2. q.b \in Values /\ i \in 1 .. Len(incomingEdges[q.b])
    BY <2>1, InequalityTypes DEF EdgeAt
  <2>3. /\ i \in 1 .. Len(incomingEdges'[q.b])
        /\ incomingEdges'[q.b][i] = incomingEdges[q.b][i]
    BY <1>1, <2>2
  <2> QED BY <2>1, <2>3 DEF EdgeAt
<1>4. \E i \in Nat : EdgeAt(e, i)'
  <2>1. incomingEdges[e.b] \in Seq(InEdges)
    BY <1>1
  <2> DEFINE n == Len(incomingEdges[e.b]) + 1
  <2>2. /\ n \in Nat /\ n \in 1 .. Len(incomingEdges'[e.b])
        /\ incomingEdges'[e.b][n] = [a |-> e.a, c |-> e.c]
    BY <1>1, <2>1
  <2> HIDE DEF n
  <2> QED BY <2>2 DEF EdgeAt
<1> QED BY <1>1, <1>2, <1>3, <1>4 DEF ToldIsStated, Stated

\* In every multigraph, cyclic ones included, a question that was told to the
\* graph is answered "proven" if it is the first from its value: no call in
\* progress, no other edge and nothing that is remembered on the way talks the
\* loop out of it (Graph.java:12-14, Prover.java:28-51).
THEOREM FirstToldIsProved ==
  ASSUME QuestionsOpen
  PROVE  JavaSpec => []FirstToldProved
<1>1. JavaInit => JavaInv
  <2> SUFFICES ASSUME JavaInit PROVE JavaInv
    OBVIOUS
  <2>1. TraversalInv
    BY InitProof DEF JavaInit, ProofInv, TraversalInv
  <2>2. /\ pc = "build" /\ stack = <<>> /\ answered = <<>> /\ told = {}
        /\ memo = [d \in Diffs |-> Cleared] /\ DOMAIN answered = {}
    BY DEF JavaInit, Init
  <2> QED BY <2>1, <2>2, NothingStated DEF JavaInv, ToldIsStated, QuestionsGiven
<1>2. JavaInv /\ [JavaNext]_<<vars, told>> => JavaInv'
  <2> SUFFICES ASSUME JavaInv, [JavaNext]_<<vars, told>> PROVE JavaInv'
    OBVIOUS
  <2>1. ASSUME NEW e \in EdgeInputs, GraphAdd(e) PROVE JavaInv'
    <3>1. /\ TraversalInv' /\ ToldIsStated'
          /\ pc' = "build" /\ stack' = <<>> /\ answered' = <<>>
          /\ memo' = [d \in Diffs |-> Cleared]
      BY <2>1, PutKeepsCalls, PutKeepsTold DEF JavaInv, TraversalInv, GraphInv
    <3>2. DOMAIN answered' = {}
      BY <3>1
    <3> QED BY <3>1, <3>2, StatedFromNothing DEF JavaInv, QuestionsGiven
  <2>2. CASE [Next]_vars /\ UNCHANGED <<incomingEdges, told>>
    <3>1. ToldIsStated'
      BY <2>2 DEF JavaInv, ToldIsStated, Stated, EdgeAt
    <3> QED BY <2>2, <3>1, StepTraversal, StepStated, StepQuestions DEF JavaInv
  <2>3. (\E e \in EdgeInputs : GraphAdd(e)) \/ UNCHANGED <<incomingEdges, told>>
    BY DEF JavaNext, Prove, Finish, DemandProve, AlreadyProven, NoIncomingEdges,
       ActiveCycle, Return, Visit, Descend, FoldResult, Leave, Conclude, vars, graphVars
  <2> QED BY <2>1, <2>2, <2>3, JavaStep
<1>3. JavaInv => FirstToldProved
  BY DEF JavaInv, StatedInv, VerdictInv, ToldIsStated, QuestionsGiven, QuestionsOpen,
     FirstToldProved, Proved
<1> QED
  BY <1>1, <1>2, <1>3, PTL DEF JavaSpec
=============================================================================
