--------------------------- MODULE MCProjectLoops ---------------------------
(***************************************************************************)
(* Modules of one function of up to four blocks, and of two functions of   *)
(* up to three.  The entry of a function has no predecessor.               *)
(***************************************************************************)
EXTENDS ProjectLoops

Terminators(n) == {<< >>} \cup {<<b>> : b \in 2 .. n} \cup ((2 .. n) \X (2 .. n))

FunctionsOf(n, calls) == {[succ |-> s, calls |-> calls] : s \in [1 .. n -> Terminators(n)]}

Declaration == [succ |-> << >>, calls |-> 0]

Small == {Declaration} \cup FunctionsOf(1, 1) \cup FunctionsOf(2, 0)

MCModules ==
  {<<f>> : f \in FunctionsOf(4, 0)}
    \cup {<<f, g>> : f \in FunctionsOf(3, 1), g \in Small}
    \cup {<<f, g>> : f \in Small, g \in FunctionsOf(3, 1)}
=============================================================================
