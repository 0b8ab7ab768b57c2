---------------------------- MODULE ProverSafety ----------------------------
(***************************************************************************)
(* What the prover promises.  Valuations are the integers its values can   *)
(* hold together when the checked instruction runs; a value is a constant  *)
(* in all of them or may differ between them.                              *)
(***************************************************************************)
EXTENDS Prover

CONSTANT Valuations

ASSUME ValuationsAssumption ==
  /\ Valuations \subseteq [Values -> Int]
  /\ \A val \in Valuations : \A k \in Constants : val[k] = ConstVal[k]

Holds(val, q) == val[q.b] - val[q.a] <= q.c

\* The edges into a merge bound it by the largest of its incoming values: one
\* of them holds.  Into any other value all of them hold.
Admits(val, facts) ==
  /\ \A f \in facts : f.b \notin Phis => Holds(val, f)
  /\ \A f \in facts : f.b \in Phis =>
       \E g \in facts : g.b = f.b /\ Holds(val, g)

Entails(facts, q) == \A val \in Valuations : Admits(val, facts) => Holds(val, q)

\* The graph that prove() traverses, as a set of inequalities.
Graph ==
  UNION {{[a |-> incomingEdges[b][i].a, b |-> b, c |-> incomingEdges[b][i].c] :
            i \in DOMAIN incomingEdges[b]} : b \in Values}

\* What the soundness of the prover rests on: differences of constants are
\* compared exactly, and no edge has a positive weight or, in a wider type, no
\* chain of edges takes a bound out of it.
ConstantsExact ==
  \A j, k \in Constants : \A c \in APInts :
    j # k /\ WideSub(ConstVal[k], ConstVal[j]) <= Reread(c) =>
      ConstVal[k] - ConstVal[j] <= c

WeightsNotPositive == \A e \in EdgeInputs : e.c <= 0

\* Edges of weights -w to w, as many as there are values, take no question's
\* bound out of the width.
BoundsFit(w) ==
  LET reach == Cardinality(Values) * w
  IN  /\ \A e \in EdgeInputs : -w <= e.c /\ e.c <= w
      /\ \A q \in Queries : -SignBit <= q.c - reach /\ q.c + reach < SignBit

\* The edges run from lower to higher ranks: there is no cycle.
Ranked(rank) ==
  /\ rank \in [Values -> Nat]
  /\ \A e \in EdgeInputs : rank[e.a] < rank[e.b]

Proved(l) == l \in {"TRUE", "REDUCED"}

\* The activation f has an edge left to follow.
Waiting(f) == f.i <= Len(incomingEdges[f.b])

(***************************************************************************)
(* The control state.                                                      *)
(***************************************************************************)

\* active lists the calls in progress and nothing else, at most one for each
\* value, with the bound each was entered with (Prover.cpp:49-50, 65).
ActiveIsStack ==
  \A v \in Values :
    LET frames == {k \in DOMAIN stack : stack[k].b = v}
    IN  /\ active[v] = {stack[k].c : k \in frames}
        /\ \A j, k \in frames : j = k

\* Every answer reaches the call that asked for it: each activation on the
\* stack waits for the goal of the activation above it, the topmost one for
\* the call in hand, and the lowest one is the goal demandProve was given
\* (Prover.cpp:58-63, 77).
CallsLinked ==
  /\ \A k \in 1 .. Len(stack) - 1 :
       Waiting(stack[k]) /\ InequalityOf(stack[k + 1]) = SubGoal(stack[k])
  /\ stack # <<>> => InequalityOf(stack[1]) = goal
  /\ pc \in {"enter", "return"} =>
       IF stack = <<>> THEN call = goal ELSE Waiting(Top) /\ call = SubGoal(Top)

\* The recursion is never deeper than there are values (Prover.cpp:58-63).
DepthBound == Len(stack) <= Cardinality(Values)

\* The two indexes of the graph agree: each recorded pair is one incoming edge
\* of its target, with the weight recorded for it (Prover.cpp:25-35).
IndexesAgree ==
  \A d \in Diffs :
    LET into == {i \in DOMAIN incomingEdges[d[2]] : incomingEdges[d[2]][i].a = d[1]}
    IN  /\ edges[d] = {incomingEdges[d[2]][i].c : i \in into}
        /\ \A i, j \in into : i = j

(***************************************************************************)
(* What is remembered and answered.                                        *)
(***************************************************************************)

\* Whatever the memo holds as true follows from the graph, also while the
\* calls that will add to it are still in progress, on cyclic graphs too
\* (Prover.cpp:62, Memo.cpp:17-29).
MemoSound ==
  \A d \in Diffs : \A t \in memo[d]["TRUE"] :
    Entails(Graph, [a |-> d[1], b |-> d[2], c |-> t])

\* No answer about a merge is ever remembered: weakening an empty cell leaves
\* it empty, so the first answer has nothing to weaken (LBound.cpp:74-79).
MergesUnproven == \A d \in Diffs : d[2] \in Phis => memo[d] = Cleared

\* demandProve says "proven" only of what follows from the graph, whether the
\* answer is true or reduced, fresh or remembered (Prover.cpp:75-81).
AnswersSound ==
  \A n \in DOMAIN answered :
    Proved(answered[n].l) => Entails(Graph, answered[n].q)

\* A bound known to be true stays known, however the later answers for the
\* same pair fold into its cell (LBound.cpp:67-97).
TrueIsKept ==
  [][\A d \in Diffs : \A c \in APInts :
       BoundGet(memo[d], c) = "TRUE" => BoundGet(memo'[d], c) = "TRUE"]_vars

\* The n-th question is the first from its value: the cells of the memo it
\* reads were empty when it was asked.
FirstFromSource(n) == \A m \in 1 .. n - 1 : answered[m].q.a # answered[n].q.a

\* The same question gets the same verdict twice: nothing the queries between
\* them leave in the memo changes it (Prover.cpp:75-81).
Repeatable ==
  \A m, n \in DOMAIN answered :
    answered[m].q = answered[n].q => Proved(answered[m].l) = Proved(answered[n].l)

\* Every demandProve returns, cyclic graphs included (Prover.cpp:40-73).
Answered == pc = "enter" ~> pc = "idle"

(***************************************************************************)
(* The prover implements InequalityOracle.                                 *)
(***************************************************************************)
Oracle == INSTANCE InequalityOracle WITH
  told     <- Graph,
  asked    <- IF pc \in {"build", "idle"} THEN {} ELSE {goal},
  verdicts <- [n \in DOMAIN answered |->
                 [q |-> answered[n].q, proven |-> Proved(answered[n].l)]]

\* The traversal, its memo and its early returns are one step of the oracle
\* (all of Prover.cpp).
ImplementsOracle == Oracle!Spec
=============================================================================
