------------------------------ MODULE MCProver ------------------------------
(***************************************************************************)
(* Small instances of the prover over four values.  Differences are all    *)
(* that matters to it, so a is 0 in every valuation.                       *)
(***************************************************************************)
EXTENDS ProverSafety

CONSTANTS a, x, y, z

MCConstVal == [k \in Constants |-> IF k = a THEN 0 ELSE 1]

MCValuations ==
  {val \in [Values -> -2..2] :
     val[a] = 0 /\ \A k \in Constants : val[k] = MCConstVal[k]}

Between(pairs, weights) ==
  {e \in [a : Values, b : Values, c : weights] : <<e.a, e.b>> \in pairs}

\* Acyclic graphs: every edge goes to a value that is later in a, x, y, z.
DagEdges ==
  Between({<<a, x>>, <<a, y>>, <<x, y>>, <<x, z>>, <<y, z>>}, {-1, 0})
DagQueries == [a : {a}, b : {y, z}, c : {-1, 0}]

\* Cycles through y, through z, and of both.
CyclicEdges ==
  Between(Values \X {x, y, z}, {0}) \cup Between({<<x, y>>}, {-1})

CyclicQueries == [a : {a}, b : {x, y}, c : {-1, 0}]
=============================================================================
