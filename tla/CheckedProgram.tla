--------------------------- MODULE CheckedProgram ---------------------------
(***************************************************************************)
(* What the insertion pass promises: the function runs as its source says, *)
(* but stops before the first access outside of a declared array.          *)
(***************************************************************************)
EXTENDS ArrayProgram

VARIABLES
  source,   \* the function: for each block its body and its successors
  at,       \* the block and the place in its body
  val,      \* the values of the variables
  outcome   \* running, returned, or exited

vars == <<source, at, val, outcome>>

Body == source[at[1]].body

Init ==
  /\ at = <<1, 1>>
  /\ val \in [Vars -> Ints]
  /\ outcome = "running"

Running == outcome = "running" /\ at[2] <= Len(Body)

Read ==
  /\ Running
  /\ Body[at[2]].op = "load"
  /\ \E n \in Ints : val' = [val EXCEPT ![Body[at[2]].var] = n]
  /\ at' = <<at[1], at[2] + 1>>
  /\ UNCHANGED <<source, outcome>>

Access ==
  /\ Running
  /\ Body[at[2]].op = "gep"
  /\ InBounds(val, Body[at[2]])
  /\ at' = <<at[1], at[2] + 1>>
  /\ UNCHANGED <<source, val, outcome>>

Stop ==
  /\ Running
  /\ Body[at[2]].op = "gep"
  /\ ~InBounds(val, Body[at[2]])
  /\ outcome' = "exited"
  /\ UNCHANGED <<source, at, val>>

Branch ==
  /\ outcome = "running" /\ at[2] = Len(Body) + 1
  /\ \E b \in source[at[1]].succ : at' = <<b, 1>>
  /\ UNCHANGED <<source, val, outcome>>

Return ==
  /\ outcome = "running" /\ at[2] = Len(Body) + 1
  /\ source[at[1]].succ = {}
  /\ outcome' = "returned"
  /\ UNCHANGED <<source, at, val>>

Next == Read \/ Access \/ Stop \/ Branch \/ Return

Spec == Init /\ [][Next]_vars
=============================================================================
