---------------------------- MODULE MCAbcRemover ----------------------------
(***************************************************************************)
(* Small functions for the removal pass: every choice of comparisons on a  *)
(* few control flow graphs of two or three branches.                       *)
(***************************************************************************)
EXTENDS AbcRemover

CONSTANTS b1, b2, b3, x, y, z, k0, k1, k2

MCConstVal == [k \in Constants |-> CASE k = k0 -> 0 [] k = k1 -> 1 [] k = k2 -> 2]

Icmp(pred, l, r) == [pred |-> pred, ops |-> <<l, r>>]

Icmps(preds, operands) == {Icmp(pred, ops[1], ops[2]) : pred \in preds, ops \in operands}

\* A function from its icmps, the successors <<T, F>> of its blocks, and the
\* variables that are defined in b2; each block tests its own icmp.
Fn(tests, succ, inLoop) ==
  [icmps  |-> tests,
   branch |-> [b \in Blocks |-> [cond |-> b, T |-> succ[b][1], F |-> succ[b][2]]],
   defs   |-> [v \in Vars |-> IF v \in inLoop THEN b2 ELSE b1]]

Succ(s1, s2, s3) ==
  [b \in Blocks |-> CASE b = b1 -> s1 [] b = b2 -> s2 [] b = b3 -> s3]

\* One check after the other; a check on each side of a branch and one below
\* the second; two branches that meet again; a loop of two checks.
Chain   == Succ(<<b2, Exit>>, <<b3, Exit>>, <<Join, Exit>>)
Tree    == Succ(<<b2, b3>>, <<Join, Exit>>, <<Join, Exit>>)
Meeting == Succ(<<b2, b3>>, <<b3, Exit>>, <<Join, Exit>>)
Looping == Succ(<<b2, Exit>>, <<b3, Join>>, <<b2, Exit>>)

Tests(s1, s2, s3) ==
  {[b \in Blocks |-> CASE b = b1 -> t1 [] b = b2 -> t2 [] b = b3 -> t3] :
     t1 \in s1, t2 \in s2, t3 \in s3}

XY == {<<x, y>>, <<y, x>>}

\* Over two variables, and three comparisons in a row over three.
VariableFunctions ==
  LET second == Icmps({"SLT", "SLE", "SGT"}, XY) \cup {Icmp("EQ", x, y)}
      third  == Icmps({"SLT", "SGE"}, XY)
      acyclic == {Fn(t, succ, {}) :
                    t \in Tests(Icmps({"SLT", "SLE"}, {<<x, y>>}), second, third),
                    succ \in {Chain, Tree, Meeting}}
      looping == {Fn(t, Looping, {x}) : t \in Tests({Icmp("EQ", y, y)}, second, third)}
      links == Icmps({"SLT", "SLE"}, {<<x, y>>, <<y, z>>})
      linked == {Fn(t, Chain, {}) :
                   t \in Tests(links, links, Icmps({"SLT", "SLE"}, {<<x, z>>}))}
  IN  {p \in acyclic \cup looping \cup linked : WellFormed(p)}

VariablePrograms == VariableFunctions

Idle == Icmp("EQ", y, y)

\* What the insertion pass puts before an access: 0 <= x, then x < y.
InsertedPrograms ==
  {Fn(t, Chain, {}) : t \in Tests({Icmp("SLE", k0, x)}, {Icmp("SLT", x, y)}, {Idle})}

\* An array of length 1 is accessed at index 2: the upper check is 2 < 1.
ConstantPrograms ==
  {Fn(t, Chain, {}) : t \in Tests({Icmp("SLT", k2, k1)}, {Idle}, {Idle})}

\* An unsigned comparison guards the signed one, or the other way round.
MixedPrograms ==
  {Fn(t, Chain, {}) : t \in Tests({Icmp("ULT", x, y), Icmp("SLT", x, y)},
                                  {Icmp("ULT", x, y), Icmp("SLT", x, y)}, {Idle})}

MCEdges   == PassEdges
MCQueries == PassQueries
=============================================================================
