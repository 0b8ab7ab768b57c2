---------------------------- MODULE AbcInserter ----------------------------
(***************************************************************************)
(* AbcInserter.cpp: the pass that puts a bounds check before each array    *)
(* access of one function, and the run of the function it leaves behind.   *)
(*                                                                         *)
(* The pass splits the geps with several indices, collects the geps, and   *)
(* visits them in the order of their pointers.  Each check splits the      *)
(* block of its gep, so the geps still to be visited move to other blocks. *)
(* Blocks are numbered in the order of their creation.                     *)
(***************************************************************************)
EXTENDS ArrayProgram, SequencesExt

CONSTANT Programs

ASSUME ProgramsAssumption == \A p \in Programs : IsFunction(p)

VARIABLES
  source,    \* the function before the pass
  stage,     \* where run() is
  code,      \* its blocks: bodies and terminators
  geps,      \* the geps collected and not yet visited
  modified,  \* what run() returns
  at,        \* the run of the function: block and place in its body
  val, outcome

passVars == <<source, stage, code, geps, modified>>
runVars  == <<at, val, outcome>>
vars     == <<passVars, runVars>>

Goto(home, succ)  == [op |-> "goto", home |-> home, succ |-> succ]
OnCmp(home, T, F) == [op |-> "br", home |-> home, T |-> T, F |-> F]
Unreachable(home) == [op |-> "unreachable", home |-> home]
Block(body, term) == [body |-> body, term |-> term]
Cmp(home, pred, l, r) == [op |-> "icmp", home |-> home, pred |-> pred, ops |-> <<l, r>>]
ExitCall(home)    == [op |-> "exit", home |-> home]

Cmps  == [op : {"icmp"}, home : Nat \X Nat, pred : {"SLT", "SLE"}, ops : Operands \X Operands]
Exits == [op : {"exit"}, home : Nat \X Nat]
Terms == [op : {"goto"}, home : Nat \X Nat, succ : SUBSET Nat]
           \cup [op : {"br"}, home : Nat \X Nat, T : Nat, F : Nat]
           \cup [op : {"unreachable"}, home : Nat \X Nat]

CodeBlocks == [body : Seq(Loads \cup Geps \cup Cmps \cup Exits), term : Terms]

(***************************************************************************)
(* splitGeps: a gep with one index, or with two of which the first is      *)
(* zero, is simple.  Of any other gep each index gets a gep of its own.    *)
(***************************************************************************)
FirstIndexIsZero(g) == g.idx[1] = Const(0)

IsSimple(g) == Len(g.idx) = 1 \/ (Len(g.idx) = 2 /\ FirstIndexIsZero(g))

SplitGep(g) ==
  (IF FirstIndexIsZero(g) THEN << >>
   ELSE <<Gep(g.home, 1, g.base, <<g.idx[1]>>, <<g.types[1]>>)>>)
  \o [j \in 1 .. Len(g.idx) - 1 |->
        Gep(g.home, j + 1, Plain, <<Const(0), g.idx[j + 1]>>,
            <<g.types[j], g.types[j + 1]>>)]

\* A gep that is not simple gives way to the geps for its indices; geps of one
\* block keep their order.
SplitAt(c, b, k) ==
  LET body == c[b].body
  IN  [c EXCEPT ![b].body = SubSeq(body, 1, k - 1) \o SplitGep(body[k])
                              \o SubSeq(body, k + 1, Len(body))]

\* The instructions of a function: blocks and places in their bodies.
Places(c) == UNION {{b} \X DOMAIN c[b].body : b \in DOMAIN c}

ToSplit(c) ==
  {p \in Places(c) : LET i == c[p[1]].body[p[2]] IN i.op = "gep" /\ ~IsSimple(i)}

GepsOf(c) ==
  {i \in UNION {{c[b].body[k] : k \in DOMAIN c[b].body} : b \in DOMAIN c} : i.op = "gep"}

(***************************************************************************)
(* The bound of a gep, as a set of at most one, and its check.             *)
(***************************************************************************)
\* findDynArrayLength: the second factor of the size, if an instruction, which
\* has to be of the type of the index.
FindDynArrayLength(g) ==
  IF g.base.kind # "vla" THEN {}
  ELSE IF IsConst(g.base.ops[2]) \/ ~g.base.same THEN {} ELSE {g.base.ops[2]}

Upper(g) ==
  CASE g.types[1].kind = "array" -> {Const(g.types[1].n)}
    [] g.types[1].kind = "int"   -> FindDynArrayLength(g)
    [] OTHER                     -> {}

\* Mutant of InsertAssertion: the exit and the rest of the block are swapped.
InsertAssertionSwapped(c, b, k, cmp) ==
  LET body == c[b].body
  IN  [c EXCEPT ![b] = Block(Append(SubSeq(body, 1, k - 1), cmp),
                             OnCmp(cmp.home, Len(c) + 1, Len(c) + 2))]
      \o << Block(<<ExitCall(cmp.home)>>, Unreachable(cmp.home)),
            Block(SubSeq(body, k, Len(body)), c[b].term) >>

\* Mutant of InsertAssertion: the block is split behind the instruction.
InsertAssertionBehind(c, b, k, cmp) ==
  LET body == c[b].body
  IN  [c EXCEPT ![b] = Block(Append(SubSeq(body, 1, k), cmp),
                             OnCmp(cmp.home, Len(c) + 2, Len(c) + 1))]
      \o << Block(<<ExitCall(cmp.home)>>, Unreachable(cmp.home)),
            Block(SubSeq(body, k + 1, Len(body)), c[b].term) >>

\* insertAssertion before the instruction at place k of block b: the block ends
\* in a branch on cmp, to an exit or to the rest of it.
InsertAssertion(c, b, k, cmp) ==
  LET body == c[b].body
      exitBlock == Len(c) + 1
      rest      == Len(c) + 2
  IN  [c EXCEPT ![b] = Block(Append(SubSeq(body, 1, k - 1), cmp),
                             OnCmp(cmp.home, rest, exitBlock))]
      \o << Block(<<ExitCall(cmp.home)>>, Unreachable(cmp.home)),
            Block(SubSeq(body, k, Len(body)), c[b].term) >>

\* Mutant of InsertBoundCheck: the last element is out of bounds.
InsertBoundCheckStrict(c, b, k, g, lower, upper) ==
  LET v    == Last(g.idx)
      once == InsertAssertion(c, b, k, Cmp(g.home, "SLT", v, upper))
  IN  InsertAssertion(once, b, k, Cmp(g.home, "SLT", lower, v))

\* The check against the upper bound is put before the gep, then the check
\* against the lower bound before the comparison of the first.
InsertBoundCheck(c, b, k, g, lower, upper) ==
  LET v    == Last(g.idx)
      once == InsertAssertion(c, b, k, Cmp(g.home, "SLT", v, upper))
  IN  InsertAssertion(once, b, k, Cmp(g.home, "SLE", lower, v))

Init ==
  /\ source \in Programs
  /\ stage = "split"
  /\ code = [b \in DOMAIN source |->
               Block(source[b].body, Goto(<<b, Len(source[b].body) + 1>>, source[b].succ))]
  /\ geps = {}
  /\ modified = FALSE
  /\ at = <<1, 1>>
  /\ val \in [Vars -> Ints]
  /\ outcome = "running"

\* The geps are split in the order of the blocks and of their instructions.
Split ==
  /\ stage = "split"
  /\ \E p \in ToSplit(code) :
       /\ \A q \in ToSplit(code) : p[1] < q[1] \/ (p[1] = q[1] /\ p[2] <= q[2])
       /\ code' = SplitAt(code, p[1], p[2])
  /\ modified' = TRUE
  /\ UNCHANGED <<source, stage, geps, runVars>>

\* Mutant of Collect: the geps were collected before they were split.
CollectEarly ==
  /\ stage = "split"
  /\ ToSplit(code) = {}
  /\ geps' = GepsOf(source)
  /\ stage' = "insert"
  /\ UNCHANGED <<source, code, modified, runVars>>

Collect ==
  /\ stage = "split"
  /\ ToSplit(code) = {}
  /\ geps' = GepsOf(code)
  /\ stage' = "insert"
  /\ UNCHANGED <<source, code, modified, runVars>>

\* Mutant of Visit: a check of a variable length array is not reported.
VisitUnreported(g) ==
  /\ stage = "insert"
  /\ geps' = geps \ {g}
  /\ IF Upper(g) = {} THEN UNCHANGED <<code, modified>>
     ELSE /\ \E upper \in Upper(g) : \E b \in DOMAIN code : \E k \in DOMAIN code[b].body :
               /\ code[b].body[k] = g
               /\ code' = InsertBoundCheck(code, b, k, g, Const(0), upper)
          /\ modified' = (modified \/ g.types[1].kind = "array")
  /\ UNCHANGED <<source, stage, runVars>>

Visit(g) ==
  /\ stage = "insert"
  /\ geps' = geps \ {g}
  /\ IF Upper(g) = {} THEN UNCHANGED <<code, modified>>
     ELSE /\ \E upper \in Upper(g) : \E b \in DOMAIN code : \E k \in DOMAIN code[b].body :
               /\ code[b].body[k] = g
               /\ code' = InsertBoundCheck(code, b, k, g, Const(0), upper)
          /\ modified' = TRUE
  /\ UNCHANGED <<source, stage, runVars>>

Inserted ==
  /\ stage = "insert"
  /\ geps = {}
  /\ stage' = "run"
  /\ UNCHANGED <<source, code, geps, modified, runVars>>

(***************************************************************************)
(* The function runs.                                                      *)
(***************************************************************************)
Body == code[at[1]].body
Term == code[at[1]].term

Evaluates(cmp) ==
  LET l == EvalIn(val, cmp.ops[1])    r == EvalIn(val, cmp.ops[2])
  IN  IF cmp.pred = "SLT" THEN l < r ELSE l <= r

Running == stage = "run" /\ outcome = "running"
AtTerm  == Running /\ at[2] = Len(Body) + 1

Execute ==
  /\ Running
  /\ at[2] <= Len(Body)
  /\ LET i == Body[at[2]]
     IN  /\ IF i.op = "load" THEN \E n \in Ints : val' = [val EXCEPT ![i.var] = n]
            ELSE UNCHANGED val
         /\ outcome' = IF i.op = "exit" THEN "exited" ELSE outcome
  /\ at' = <<at[1], at[2] + 1>>
  /\ UNCHANGED passVars

TakeCheck ==
  /\ AtTerm
  /\ Term.op = "br"
  /\ at' = <<IF Evaluates(Last(Body)) THEN Term.T ELSE Term.F, 1>>
  /\ UNCHANGED <<passVars, val, outcome>>

TakeGoto ==
  /\ AtTerm
  /\ Term.op = "goto"
  /\ IF Term.succ = {} THEN outcome' = "returned" /\ UNCHANGED at
     ELSE UNCHANGED outcome /\ \E b \in Term.succ : at' = <<b, 1>>
  /\ UNCHANGED <<passVars, val>>

Next ==
  \/ Split \/ Collect \/ (\E g \in geps : Visit(g)) \/ Inserted
  \/ Execute \/ TakeCheck \/ TakeGoto

Spec == Init /\ [][Next]_vars

InsTypeOK ==
  /\ source \in Programs
  /\ stage \in {"split", "insert", "run"}
  /\ code \in Seq(CodeBlocks)
  /\ geps \subseteq GepsOf(code)
  /\ modified \in BOOLEAN
  /\ at[1] \in DOMAIN code /\ at[2] \in 1 .. Len(Body) + 1
  /\ val \in [Vars -> Ints]
  /\ outcome \in {"running", "returned", "exited"}

(***************************************************************************)
(* Properties.                                                             *)
(***************************************************************************)

\* The place in the source of what the run is at: that of the instruction the
\* checks, the exits and the parts of a split gep are for.
AtSource ==
  IF stage # "run" THEN <<1, 1>>
  ELSE IF at[2] <= Len(Body) THEN Body[at[2]].home ELSE Term.home

\* The function runs as its source says and stops before the first access
\* outside of a declared array, in whatever order the geps were visited
\* (AbcInserter.cpp:14-158).
Checked == INSTANCE CheckedProgram WITH at <- AtSource

\* The accesses whose declared bounds the pass can find: a pointer to an array is
\* not moved, an int has no parts, and a variable length array is one of ints,
\* whose length is a variable and the second factor of its size.
BoundsFound(g) ==
  /\ g.types[1].kind = "array" => FirstIndexIsZero(g) /\ Len(g.idx) > 1
  /\ g.types[1].kind = "int" => Len(g.idx) = 1
  /\ g.base.kind = "vla" /\ g.base.same =>
       /\ g.types[1].kind = "int"
       /\ g.base.length = g.base.ops[2] /\ ~IsConst(g.base.length)

AllBoundsFound ==
  \A p \in Programs : \A b \in DOMAIN p : \A k \in DOMAIN p[b].body :
    p[b].body[k].op = "gep" => BoundsFound(p[b].body[k])

RunsChecked == Checked!Spec

\* What the removal pass relies on to know a bounds check: its false branch
\* leads to a block of its own, without successors (AbcRemover.cpp:206-208).
ChecksRecognised ==
  \A b \in DOMAIN code : code[b].term.op = "br" =>
    LET F == code[b].term.F
    IN  /\ code[F].term.op = "unreachable" /\ Last(code[F].body).op = "exit"
        /\ Last(code[b].body).op = "icmp"
        /\ \A q \in DOMAIN code \ {b} :
             code[q].term.op = "br" => F \notin {code[q].term.T, code[q].term.F}

\* Wherever the function goes, an access is reached only with its index inside
\* of the bound that the pass found for it: nothing that ran since the checks
\* made them stale, and no other way leads past them (AbcInserter.cpp:20-158).
AccessesChecked ==
  Running /\ at[2] <= Len(Body) /\ Body[at[2]].op = "gep" =>
    LET g == Body[at[2]]
        i == EvalIn(val, Last(g.idx))
    IN  \A upper \in Upper(g) : 0 <= i /\ i < EvalIn(val, upper)

\* run() says whether it changed the function (AbcInserter.cpp:16, 34, 42, 49).
ChangeReported ==
  stage = "run" =>
    modified = (code # [b \in DOMAIN source |->
      Block(source[b].body, Goto(<<b, Len(source[b].body) + 1>>, source[b].succ))])

\* The function exits only if an index is outside of the declared bound of its
\* array (assignment.md:9).
ExitsOnlyOutOfBounds ==
  outcome = "exited" =>
    LET home == Body[1].home
    IN  ~InBounds(val, source[home[1]].body[home[2]])
=============================================================================
