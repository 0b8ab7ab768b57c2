----------------------------- MODULE JavaProver -----------------------------
(***************************************************************************)
(* The Java prototype (java/src/abcd): the prover before its translation   *)
(* to C++.  Its prove(), Memo, Diff and LBound are those of Prover and     *)
(* LBound over the 32 bits of an int, for the program's integers as well.  *)
(* Its Graph is not: a multimap that keeps every inequality it is given,   *)
(* several between the same two values and those of a value and itself.    *)
(***************************************************************************)
EXTENDS ProverSafety

ASSUME IntAssumption == SignBit = WideSignBit

VARIABLE told   \* history: the inequalities given to Graph.add

\* The inequalities of the graph, which the bound MaxEdges caps.
Size == Cardinality(UNION {{<<v, i>> : i \in DOMAIN incomingEdges[v]} : v \in Values})

\* Mutant of Put: the graph of the C++ prover, which keeps the first edge only.
PutFirst(e) ==
  IF \E i \in DOMAIN incomingEdges[e.b] : incomingEdges[e.b][i].a = e.a
  THEN incomingEdges
  ELSE [incomingEdges EXCEPT ![e.b] = Append(@, [a |-> e.a, c |-> e.c])]

Put(e) == [incomingEdges EXCEPT ![e.b] = Append(@, [a |-> e.a, c |-> e.c])]

GraphAdd(e) ==
  /\ pc = "build"
  /\ Size < MaxEdges
  /\ incomingEdges' = Put(e)
  /\ told' = told \cup {e}
  /\ UNCHANGED <<edges, memo, active, stack, pc, goal, call, ret, answered>>

JavaInit == Init /\ told = {}

JavaNext ==
  \/ \E e \in EdgeInputs : GraphAdd(e)
  \/ (Finish \/ (\E q \in Queries : DemandProve(q)) \/ Prove) /\ UNCHANGED told

JavaSpec == JavaInit /\ [][JavaNext]_<<vars, told>> /\ WF_vars(Prove)

\* A question that was told to the graph is answered "proven" if it is the
\* first from its value, at whatever weight other edges join the two values and
\* whatever cycles the traversal runs into (Graph.java:12-14, Prover.java:28-51).
FirstToldProved ==
  \A n \in DOMAIN answered :
    FirstFromSource(n) /\ answered[n].q \in told => Proved(answered[n].l)
=============================================================================
