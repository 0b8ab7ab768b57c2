# Bounds check insertion and removal, in TLA+

The repository holds two course projects built on LLVM 2.8. Phase 0 counts
blocks, loops and dominators and removes unreachable code. Phase 1 inserts array
bounds checks into C programs and removes the redundant ones with the ABCD
algorithm, which proves inequalities between SSA values on demand. Nothing here
runs concurrently and nothing is stored between runs: what makes this code hard
is recursion over cyclic graphs with a memo that outlives every call, one bit
arithmetic, loops over sets of pointers (whose order is that of the addresses),
and rewriting a function while iterating over it.

Everything else in the repository is LLVM, llvm-gcc and benchmarks as released.
The repository has no unit tests: its scripts compile benchmark programs and
compare outputs and timings.

## Inventory

| Part | State | Operations | Used by | What makes it correct |
|---|---|---|---|---|
| `LBound`, `Integer` (phase 1) | the extreme bound of each kind of answer for one pair | `get`, `modify` (strengthen or weaken) | `Memo` | a known bound is not lost; a cell never claims more than was folded into it |
| `Prover`, `Memo`, `Diff`, `Inequality` (phase 1) | inequality graph (two indexes), memo, active calls, call stack | `add`, `finish`, `demandProve`, `prove` | `AbcRemover` | answers follow from the graph, whatever was asked before; every question returns |
| `AbcRemover`, `Comparison`, `Pi` (phase 1) | comparisons, pi nodes, branches to remove, the function itself | `run()`: find, insert pis, substitute, add inequalities, ask, restore, remove | `AbcRemovalPass`, `createABCDPass` | a removed check cannot fail; the function is otherwise left as it was; a change is reported |
| `AbcInserter` (phase 1) | the function, the geps to visit | `run()`: split geps, check each | `AbcInsertionPass` | the function stops before the first access out of bounds, and only there |
| `ProjectZero` (phase 0) | the functions of the module, maps of `getDom` and `getReach` of the current one, statistics before and after, result | `runOnModule`: over all functions count, then remove, then count again | `opt` | fixpoints are dominators and paths; exactly the unreachable blocks go; a removal is reported; the second statistics are those of what is left |
| `ProjectLoops` (phase 0) | visited set, walk stack, statistics over the functions | `runOnModule`, `findBackEdges` | `opt` | every loop has a counted edge, nothing else is counted |
| Java prototype (phase 1) | multigraph, memo, active calls | `Graph.add`, `demandProve` | `Example` | as `Prover` |
| Pass registration | tables of the pass manager | `INITIALIZE_PASS`, `createABCDPass` | `opt`, `lli --abcd` | removal runs after critical edges are split |
| Naming, printing, scripts, LLVM | - | - | - | not modelled |

The parts interact by calls. The insertion pass leaves branches to blocks that
call `exit(1)`; other LLVM passes (`mem2reg`, `gvn`) may run; the removal pass
recognises the checks by the shape of their false branch, tells the prover what
each comparison implies on either side, and asks it about each check.

## Modules

| Module | Models | State and actions in the code |
|---|---|---|
| `LBound` | `LBound.cpp`, `Integer.cpp`, APInt | operators only: `BoundGet`, `Strengthen`, `Weaken`, wrapping `Sub`, and `Reread`, the comparison of values of two widths |
| `Prover` | `Prover.cpp`, `Memo.cpp`, `Diff.cpp`, `Inequality.cpp` | `prove()` is unfolded: `stack` is the C++ call stack, `pc` is `enter`, `loop` or `return`; each early return is an action (`AlreadyProven`, `NoIncomingEdges`, `ActiveCycle`), as are `Visit`, `Descend`, `FoldResult`, `Leave` |
| `ProverSafety` | - | what the prover promises: entailment over valuations, properties, refinement mapping |
| `InequalityOracle` | - | abstract specification: told facts, asked one question at a time, says "proven" only of what follows |
| `JavaProver` | `java/src/abcd/Graph.java`, `Prover.java` | `Prover` over 32 bits with a multigraph |
| `AbcRemover` | `AbcRemover.cpp`, `Comparison.cpp`, `Pi.cpp` | extends `ProverSafety`: `stage` and `pos` are the place in `run()`; the prover's actions happen in stage `demand`; then `Call` and `Branch` run the function |
| `ArrayProgram` | geps as the insertion pass sees them | operands, geps, what a declared bound is |
| `CheckedProgram` | - | abstract specification: a function that stops before the first access out of bounds |
| `AbcInserter` | `AbcInserter.cpp` | `Split` splits one gep, `Collect` takes the set of geps, `Visit(g)` puts in the check of one, in any order; then `Execute`, `TakeCheck`, `TakeGoto` run the function |
| `ProjectZero` | `ProjectZero.cpp` | `phase` and `cur` are the loops over the functions of the module (`NextFunction`, `NextPhase`); within a function one step for each block of a sweep of `getDom` and `getReach`; `CountFunction` adds it to the statistics; `EraseBlock(b)` in any order, then `EraseDone` |
| `ProjectLoops` | `ProjectLoops.cpp` | `RunOnFunction` for each function of the module, then one step for each successor the walk looks at: `Down`, `Skip`, `Up`; the statistics of functions, calls, blocks and back edges |
| `MC*` | - | instances for TLC |
| `ProverProofs` (with those of `LBound`), `ProverCallProofs`, `JavaProverProofs`, `AbcRemoverProofs`, `AbcRemoverRunProofs`, `AbcInserterProofs`, `ProjectZeroProofs`, `ProjectLoopsProofs` | - | proofs |

`AbcRemover` composes the pass with `Prover` (shared variables; the pass calls
`Add`, `Finish`, `DemandProve` and waits for `Conclude`) and with an execution
of the function. The execution evaluates every comparison of the source, those
whose branch was removed too, so that a removed check that fails is seen to
fail; the function without the checks has the same runs as long as none does. `AbcInserter` composes the pass with an execution of what it
produced; `AtSource` maps it to `CheckedProgram`. Operators named "mutant" are variants of the definition below them with
a plausible bug in it; they are not used by the specifications, and show that a
property notices the bug.

### Abstractions

- An APInt is an integer in `-SignBit .. SignBit - 1`. The removal pass builds
  every bound as `APInt(1, ...)`, so its instances have `SignBit = 1`. The
  program's integers have `WideSignBit`.
- A `set` or `map` of pointers is iterated over in any order.
- In `AbcRemover` a function is its conditional branches and their icmps; other
  instructions only use values, and the pass restores each use it replaces.
  Dominance is stated by its definition (no path avoids the edge), not computed.
- To read an icmp that was erased is undefined; the model stops there, and the
  functions of the runs have an icmp for each branch, as the insertion pass makes
  them. An icmp that has users other than branches, a `zext` for one, is not
  modelled: `removeBranches` (AbcRemover.cpp:240) would erase it under them.
- `removeUnusedBlocks` of `ProjectZero` returns a variable it has not set unless
  it erases a block; `changed` starts with either value.
- The calls of a function in `ProjectZero` are the functions each block calls;
  a call through a pointer or to a declaration is not counted by the code.
- The insertion pass is given the types its geps step through as part of each
  gep. A variable length array is one whose size has two factors, the second of
  which is looked at: the field `same` says whether it is an instruction (an
  argument of the function is not, and gets no check) of the type of the index.
- The phi nodes of the program are variables to `AbcRemover`: no inequality of
  the pass bounds one, so the merge case of `prove()` is exercised by the runs
  of `MCProver` and not by those of `MCAbcRemover`.

## Runs

Passing runs:

| Run | Bounds | Shows |
|---|---|---|
| `prover_dag` | 4 values of which one constant, 3 edges of weights -1, 0, 3 questions, 2 bit bounds | answers sound; questions repeatable; true stays true; refinement of `InequalityOracle` |
| `prover_cyclic` | 4 values of which one merge, 4 edges, 2 questions | active record is the stack, depth bounded, calls linked, memo sound, questions answered |
| `java_parallel` | 3 values, 3 edges of weights -1, 0, 1 with parallel edges and a loop, 2 questions from one value or from two | an inequality told is proved if it is the first question from its value |
| `remover_variables` | 3 branches over 2 or 3 variables: a chain, a tree, a meeting, a loop | removed checks hold in every run; stated ones are removed; substitution and its undoing are right in every order; a change is reported |
| `zero_all` | all 2401 functions of 4 blocks, each alone; 512 modules of a function of 3 blocks and one of 2, that call each other, with or without a declaration between them | fixpoints exact, removal exact and reported, statistics those of what is left, termination |
| `loops_walk` | all 28561 functions of 4 blocks with up to 2 successors each; functions of 3 blocks before and after smaller ones and declarations | loops counted, and only loops; every function walked |
| `inserter_accesses` | 64 pairs of accesses in a row and in a loop, values -1 .. 2 | refinement of `CheckedProgram`; no access is reached but within the bound found for it; checks have the shape the removal pass expects |

Why these bounds are enough to be interesting: two questions are needed to reuse
the memo and a third to see what a second one changed; a cycle needs two values
besides the source, a merge on it a third; four edges make a diamond, the
smallest graph on which two paths reach one memo cell with different bounds.
Three branches are a check, one between, and the check it makes redundant, on
each of the graph shapes in which they can dominate one another, and all orders
of three comparisons and of their pis are taken. Four blocks have every reducible
and irreducible loop of two blocks, nested loops, and unreachable blocks that
branch to each other and to live ones; a pair of functions is enough for one to
lose blocks before or after one that loses none, and for calls that disappear
with the block they are in. Two accesses give geps that are visited
before and after the check of the other has split their block.

Violation runs. Each checks one statement of a document, comment or assertion
of the repository, and TLC finds the code doing otherwise (`findings` in
`PROJECT.json` quotes each):

- `remover_inserted`: the check `0 <= i` justifies itself through its constant.
- `remover_constants`: the one bit -1 compared with a wide constant is +1, so
  the check of an index that is one more than the length is removed.
- `remover_unsigned`: an unsigned comparison justifies a signed one.
- `zero_uses`: blocks are erased while other blocks still branch to them.
- `inserter_rows`: the index of a pointer to arrays is checked against the length
  of one of the arrays.

The runs of `remover_variables` leave constants and unsigned comparisons out
because of these: `RemovedChecksHold` holds exactly on what remains.

Other behaviours of the code, met while modelling, that no run is spent on:

- `LBound::weakerBound` never sets an unset field, so merges are never
  remembered (`MergesUnproven`); a REDUCED from inside a cycle through a merge
  is, and is wrong later. The pass builds no graph with such a cycle.
- A FALSE folded in from one edge hides what another edge states once a question
  from the same value has been asked. Of an entry that tests `x < y`, with
  `x <= y` and `x < y` on the two sides of a branch below it, the second check is
  removed if it is asked about first and kept if it is asked about last: what is removed
  depends on the addresses of the branches. `StatedCheckRemoved` and
  `FirstToldProved` state what is left: the first question from a value (`FirstFromSource`).
- `removeBranches` erases the icmp of a branch at once. Two branches share one
  only if a pass between insertion and removal makes them, as `gvn` in the
  pipeline of `src/p1/gth773s/README.txt:50` can; then the first erasure meets the
  assertion of `Value.cpp:75`, that nothing uses what is deleted.
- `AbcRemover::run()` reports a change if it made pis. That is right for
  comparisons with a variable (`ChangeReported`, proved under that condition);
  the removal of a check of two constants, which makes no pi, is not reported.
- `ProjectZero` counts every block twice (in `getStats`, line 342, and again in `add`)
  and, because `getReach` is reflexive, every block as a loop block;
  `removeUnusedBlocks` returns an uninitialised value when it removes nothing, so
  a module may be reported as modified that is not (never the reverse,
  `RemovalReported`).
- `ProjectLoops` counts loops with several entries, and its minima are always 0.
- A variable length array whose size is `mul i64 %16, 4`, the order of the
  example in `AbcInserter.h`, is not recognised.

Deadlock is not checked: every model ends when its function or pass has.

### Fairness

All of this is sequential code inside one call, so the only assumption is that a
call that has started keeps running: weak fairness of the step of the pass or of
`prove()`. No fairness is assumed of callers (adding edges, asking questions) nor
of the functions being run.

## Proofs

TLAPS checks these for every value of the constants that meets the assumptions
named in the modules, and in the theorem where it has hypotheses of its own.

- `Prover`. `TypeInv` strengthens `TypeOK` with what the control state implies
  (the stack is not empty in `loop`, the place of each activation is in range).
  `CallsLinked` is inductive on top of it. `CallsInv` says that `active` is set
  exactly for the values on the stack, each once; from it `ActiveIsStack`, and,
  by an injection from the stack into `Values`, `DepthBound`.
- `MemoSound` needs more than itself: `ProofInv` adds that a TRUE being returned
  is entailed, and that the goal being folded is the sub-goal of an edge of the
  graph. The proof of a step is that a sub-goal of `c - w` over an edge of weight
  `w` entails the goal, which needs that `c - w` did not wrap the wrong way
  (`TopFits`, which follows from `WeightsNotPositive`) and that differences of constants are read exactly
  (`ConstantsExact`); `OneBitMemoIsSound` shows that the instances of the pass
  with at most one constant satisfy both, and `remover_constants` that two
  constants do not.
- `TrueStaysKept`: a known truth survives every fold. Strengthening never drops
  one; weakening could, and does not because a merge never holds a bound at all
  (`MergesStayUnproven`), so the two are proved together. `IndexesStayAgreed`
  follows the one `add` that writes both indexes.
- `AnswersSound` also needs that REDUCED is never answered. It holds on acyclic
  graphs (`Ranked`): the values on the stack descend in rank, so `ActiveCycle`
  cannot happen and no REDUCED gets into the memo. Cycles with merges do break
  it. `ProverImplementsOracle` maps the traversal to
  one step of the oracle by the same invariant.
- `AnswersRepeat`, for acyclic graphs without merges, as those of the pass: every
  answer given can be had again from the memo (`AnswersStay`). What could undo one
  is a fold into its cell, and `FramesAhead` says that a call for the same two values
  was entered with a larger bound than any answered FALSE, since the memo would
  have answered it otherwise; no two calls in progress share a cell.
- `StatedInv` is about questions that are an edge of the graph, on any graph. A
  question only touches the cells of its own value (`SourceInv`), so the first one
  from a value starts with an empty cell and is not in progress. At its own
  edge the sub-goal is trivial, and once that edge is behind, the cell says TRUE
  whatever the other edges and their cycles fold into it (`GoalInv`).
  `StatedChecksRemoved` carries this into the pass, `FirstToldIsProved` to the
  multigraph, whose `GraphAdd` forgets nothing it was told.
- `JavaMemoIsSound`. Every step of the Java prover but `GraphAdd` is a step of
  `Prover`, so `ProofInv` is kept by them as proved there; that step appends an
  edge that was told, and keeps it too. Its weights may be positive, as those of
  `Example.java` are, so that `c - w` can come out of the bottom of the type and
  return at the top. `BoundsFit(w)` excludes this: the weights are from `-w` to
  `w`, and no bound asked about is closer to either end of the type than as many
  such weights as there are values. It is enough because the recursion is no
  deeper than that (`DepthBound`) and each call is at most one weight away from
  the call below it (`BoundsNear`). With 32 bits and weights
  of -1, 0 and 1 it holds unless there are some 2^31 values or a bound near the
  end of the type; TLC evaluates it for the instance of `java_parallel`.
- `AbcRemover`. `PassTypeCorrect`; every step of the pass is a step of `Prover`
  or a stutter (`PassUsesProver`), so the theorems above hold inside the pass;
  the pis of a comparison rank above their operands and the true side of one
  operand above that of the other, so the graphs of the pass over variables are
  acyclic and `PassAnswersSound` follows. `SubstitutionStaysValid` and
  `PassRestores` rest on `RenamingInv`: the pis still in place are a prefix of
  the list while they are taken out, and each use is its original operand or a
  live pi of it; the step of `Substitute` needs transitivity of dominance,
  which is proved from its definition. `NearestPiChosen` adds that each use,
  the incoming values of pis included, has the nearest of the pis substituted so
  far (`NearestInv`). The edges that dominate a block are linearly ordered
  (`DominanceLinear`), and a pi's own incoming value is the nearest at its place; so
  where the pi dominates a use, it is nearer than what the use has if that is its
  incoming value, and is replaced, and farther otherwise, and is not (`NearestKept`).
- `RemovedChecksAlwaysHold` is the theorem the pass exists for: a removed check
  is true whenever a run of the function gets to it, so the function without it
  has the same runs. It is about functions whose comparisons
  are signed and between variables (no `Constants`; `remover_inserted`,
  `remover_constants` and `remover_unsigned` show why) and about the edges the
  pass makes. The argument has two halves. `Justified`: each branch on the list
  of removals was answered TRUE, so the inequality asked about follows from the
  graph; this carries `AnswersSound` over to the time when the function runs.
  `PathDecided`: if an edge of the function dominates the current block, the run
  took it, and the values of the variables still give its comparison that
  outcome, since the run has not entered a block that defines one of its
  operands again. At any moment of a run there is a valuation (`Snapshot`) that
  gives each pi whose landing block dominates the current block the value of its
  operand and the others values that make their edges true. Every edge of the
  graph holds in it (`EdgesDescribeRuns`, for signed comparisons only: of
  unsigned ones the same edges can be false), so what was proved holds in it,
  and there it is the removed comparison.
  No order of the removals is needed: each check follows from the comparisons that
  dominate it, which are true in the run whether the code still tests them or not.
- `ChangesReported` needs that the comparisons the pass finds have pis, and that
  the list of pis it reads at the end is the one it filled (`ReportInv`).
- `AccessesAreChecked` is the theorem of the insertion pass, for any function and
  any values. `Structured` says what one `insertAssertion` after another
  keeps: a check goes to two blocks that are its own and never to one of the source,
  and the block of its exit has nothing but the call. `Distinct` says that no
  two geps are the same, so the visits come to each once; it survives `Split`
  since the parts of a gep are numbered. `Guarded`: a visited gep is
  the first instruction of a block that only its second comparison leads to, which is
  alone in a block that only its first leads to. A later check cannot come
  between them, because a check is put before a gep not yet visited or before
  the comparison just made for one. The run then knows (`RunInv`) that the
  comparison it came in by was true, and that nothing was read since.
  `ChecksAreRecognised` and `InserterTypes` follow from the same invariant.
- `RunsAreChecked`: the code the pass makes implements `CheckedProgram`. The state
  of the run maps to that of the source by `AtSource`: every instruction and
  terminator, those of checks and exits too, has the place (`home`) of the one
  in the source it is for. A place alone does not say how many of the parts of a
  split gep are behind the run, so the proof labels each place of the code with
  the number of the part it belongs to (`Traced`): the place is what the source
  has there, or a check of that part, or an exit for it (`Stands`), and leads to
  the next part or to the next place (`Following`). Splitting a gep and putting in
  a check each keep such labels (`SplitTraced`, `AssertionTraced`, which
  `CheckTraced` uses twice), so no order of the visits matters. While it runs
  (`TraceInv`), the parts behind were within their bounds, by `AccessesAreChecked`,
  and still are, since only a load changes a value and a load ends the access; a run
  that is in the block of an exit has failed the check of a part (`Knows`). The
  last part of an access is then the step `Access`, the call of `exit` is the
  step `Stop`, and checks and other parts are stutters. The hypothesis
  `AllBoundsFound` says that what the pass checks against is what was declared: a
  pointer to an array is not moved, an int has no parts, and the length of a variable
  length array is a variable and the second factor of its size. TLC checks that
  the functions of `inserter_accesses` meet it (`MCBoundsFound`); those of
  `inserter_rows` do not, and the refinement fails for them.
- `ExitsAreOutOfBounds`, under the same hypothesis: what `inserter_rows` refutes for
  all functions holds for these.
- `ProjectZero`. One inductive invariant bounds the two maps on both
  sides: `reach` stays within the paths and `dom` keeps the dominators
  throughout, and the entries the current sweep has visited without a change are
  closed. When a sweep ends without change the other inclusion follows. Over the
  functions of the module, those the removal has yet to come to have all their
  blocks (`Awaits`) and those it has left only the live ones (`Purged`), which is
  what makes the fixpoints of the second count those of the function as it was
  given. `RemovalIsReported` adds that a function that lost a block has set
  `changed`, and that `modified` keeps it.
- `StatsAreOfTheLiving` is about sums over blocks and over functions. A sum over a
  finite set is `SumFunction`, and what is needed of it (that any
  member can be taken out of it, and that more and larger terms make a larger sum)
  is proved by taking a smallest counterexample among the finite sets. While the second
  statistics are taken they are those of the functions visited so far
  (`CountedOver`), and `getDom` is exact for each when it is counted
  (`DomIsExact`). An `IntStats` starts with the largest int as its minimum, so
  the minimum is right only if no function has more loop edges than that:
  `CountersAssumption`.
- `ProjectLoops`. `WalkInv` is the argument of depth-first search. An edge that
  was looked at and not counted leads to a block the walk has left or is the one it
  is still below (`Open`). The blocks left are closed under edges but for the
  counted ones, so every uncounted edge has a set of blocks around its target that
  no uncounted edge leaves and its source is not in (`Apart`): it is on no cycle
  (`LoopsAreCounted`). An edge that was counted leads to the stack, whose path
  (`StackIsPath`) closes it (`CountedCloseLoops`).

Only model-checked: liveness (`Answered`, `PassFinishes`, `Finishes`, `AllWalked`),
which under fairness is beyond the proof system. Every invariant, action property and
refinement of the passing runs is a theorem. `TraceInv` is not checked by TLC, since it
says that there are labels, which are functions on all numbers; what it implies,
`RunsChecked`, is.

## Not modelled

Names of values and blocks, printing and the messages of the passes; the set of
constants in the prover, which is written and never read; the
registration of the passes; `ValueTable` and `Example` of the Java prototype; the
scripts. Widths in `AbcInserter` are not modelled beyond the test that index and
length have one type: an array length is converted to the type of the index, in
which it would wrap if it did not fit, but the front end widens indexes to the
width of a pointer.

LLVM itself is modelled only where the passes call it or their output runs on
it: the arithmetic and comparison of APInt, dominance, `replaceUsesOfWith`, the
splitting of blocks, branches, calls of `exit`. It, llvm-gcc and the benchmarks
are nearly all of the 638,000 lines of the repository, unchanged copies of
releases that the projects use as tools, and the map covers none of their other
parts: a code generator or a scalar evolution pass is a project of its own, and
no behaviour of the two projects depends on it. The repository's own code is
some 2,000 lines, which the map covers but for the parts named above.

## Plan

Done, in this order: the prover, since everything else trusts its answers; the
removal pass with an execution; the phase 0 passes over whole modules; the
insertion pass; the proofs of their invariants, and of both refinements. What is
left:

1. A module that composes insertion and removal: functions with the checks
   `AbcInserter` makes, given to `AbcRemover`, refining `CheckedProgram`. Of the
   interface between the two, `ChecksRecognised` and `RemovedChecksHold` state
   either side. With the code as it is the refinement fails at the first lower check
   (`remover_inserted`), so the module is of use once constants are given pis.
2. The part of termination that is a safety property: measures that every step of
   the walk of `ProjectLoops`, of the sweeps of `ProjectZero` and of the passes of
   phase 1 makes smaller.
3. Widths in `ArrayProgram`.
