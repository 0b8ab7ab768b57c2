---------------------------- MODULE MCJavaProver ----------------------------
(***************************************************************************)
(* Multigraphs over three values, with parallel edges, loops and cycles.   *)
(***************************************************************************)
EXTENDS JavaProver

CONSTANTS a, x, y

MCConstVal == [k \in Constants |-> 0]

MCValuations == {val \in [Values -> -2 .. 2] : val[a] = 0}

MCEdges ==
  {e \in [a : Values, b : {x, y}, c : {-1, 0, 1}] : e.a = e.b => e.c = 0 /\ e.a = x}

MCQueries == {q \in [a : {a, x}, b : {x, y}, c : {-1, 0}] : q.a # q.b}

\* The hypotheses of the proof that the memo is sound hold of this instance,
\* whose weights may be positive.
ASSUME MCBoundsFit == ConstantsExact /\ ~WeightsNotPositive /\ BoundsFit(1)
=============================================================================
