-------------------------- MODULE InequalityOracle --------------------------
(***************************************************************************)
(* What the bounds check remover needs of a prover, whatever the prover    *)
(* does inside: it is told inequalities, then it is asked one inequality   *)
(* at a time, and it says "proven" only of an inequality that holds in     *)
(* every valuation of the values that satisfies what it was told.  It may  *)
(* always answer that it does not know.                                    *)
(***************************************************************************)
EXTENDS Integers, Sequences

CONSTANTS
  Inequalities,  \* the inequalities that can be told and asked
  Entails(_, _), \* does a set of told facts entail an inequality?
  MaxQueries     \* bound: the inequalities asked

VARIABLES
  told,      \* the facts of the graph
  asked,     \* the inequality being proved, as a set of at most one
  verdicts   \* the inequalities asked, each with the verdict

vars == <<told, asked, verdicts>>

Init ==
  /\ told = {}
  /\ asked = {}
  /\ verdicts = <<>>

\* Facts are told before the first question only.
Tell(fact) ==
  /\ asked = {} /\ verdicts = <<>>
  /\ told' = told \cup {fact}
  /\ UNCHANGED <<asked, verdicts>>

Ask(q) ==
  /\ asked = {}
  /\ Len(verdicts) < MaxQueries
  /\ asked' = {q}
  /\ UNCHANGED <<told, verdicts>>

Reply(proven) ==
  /\ \E q \in asked :
       /\ proven => Entails(told, q)
       /\ verdicts' = Append(verdicts, [q |-> q, proven |-> proven])
  /\ asked' = {}
  /\ UNCHANGED told

Next ==
  \/ \E q \in Inequalities : Tell(q) \/ Ask(q)
  \/ \E proven \in BOOLEAN : Reply(proven)

Spec == Init /\ [][Next]_vars
=============================================================================
