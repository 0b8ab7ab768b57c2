--------------------------- MODULE MCProjectZero ---------------------------
(***************************************************************************)
(* All functions of four blocks that end in a return, a branch or a        *)
(* conditional branch, alone in their module; and smaller ones in pairs,   *)
(* with a declaration between them, that call each other.                  *)
(***************************************************************************)
EXTENDS ProjectZero

CONSTANTS e, b1, b2, b3

Fn(list, succ, called) ==
  [list  |-> list, succ |-> succ,
   calls |-> [b \in Blocks |-> IF b \in DOMAIN called THEN called[b] ELSE {}]]

Four  == {<< >>, <<b1>>, <<b2>>, <<b3>>, <<b1, b2>>, <<b1, b3>>, <<b2, b3>>}
Three == {<< >>, <<b1>>, <<b2>>, <<b1, b2>>}

\* What the first blocks of a list may end in; the others are not listed.
Succs(listed, terminators) ==
  {s \in [Blocks -> terminators] : \A b \in Blocks \ listed : s[b] = << >>}

Declaration == Fn(<< >>, [b \in Blocks |-> << >>], << >>)

Alone == {<<Fn(<<e, b1, b2, b3>>, s, << >>)>> : s \in Succs(Blocks, Four)}

Together ==
  {<<Fn(<<e, b2, b1>>, s, [b \in {b1, b2} |-> IF b = b1 THEN {1, 3} ELSE {2, 3}]),
     Declaration,
     Fn(<<e, b1>>, t, [b \in {b1} |-> {1}])>> :
     s \in Succs({e, b1, b2}, Three), t \in Succs({e, b1}, {<< >>, <<b1>>})}

MCModules == Alone \cup Together \cup {<<m[3], m[1]>> : m \in Together}
=============================================================================
