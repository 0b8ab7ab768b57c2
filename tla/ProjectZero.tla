---------------------------- MODULE ProjectZero ----------------------------
(***************************************************************************)
(* ProjectZero.cpp: the module pass that counts the blocks, edges, loops,  *)
(* dominators and calls of each function, removes the blocks the entries   *)
(* do not reach, and counts again.                                         *)
(*                                                                         *)
(* The two analyses of a function, getDom and getReach, sweep over the     *)
(* blocks in the order of the function's list until a sweep changes        *)
(* nothing; the model takes one step for each block of a sweep.  Sets of   *)
(* blocks are iterated over in the order of their pointers, which is       *)
(* visible only in the order of erasure.                                   *)
(***************************************************************************)
EXTENDS Integers, Sequences, FiniteSets, FiniteSetsExt

CONSTANTS Blocks, Entry, Modules

Listed(f) == {f.list[n] : n \in DOMAIN f.list}

Cfg(f, b) == {f.succ[b][i] : i \in DOMAIN f.succ[b]}

\* A module is a sequence of functions: the list of the blocks, empty for a
\* declaration, the successors of their terminators, and the functions they
\* call.  The entry is first and has no predecessor.
IsModule(m) ==
  /\ m \in Seq([list : Seq(Blocks), succ : [Blocks -> Seq(Blocks \ {Entry})],
                calls : [Blocks -> SUBSET Nat]])
  /\ \A n \in DOMAIN m :
       /\ Listed(m[n]) # {} => Entry \in Listed(m[n])
       /\ \A b \in Listed(m[n]) : Cfg(m[n], b) \subseteq Listed(m[n])

ASSUME BlocksAssumption == IsFiniteSet(Blocks) /\ Entry \in Blocks
ASSUME ModulesAssumption == \A m \in Modules : IsModule(m)

VARIABLES
  functions,   \* the module before the pass
  remaining,   \* the blocks of each function that have not been erased
  phase,       \* where runOnModule is: getStats, removeUnusedBlocks, getStats
  cur,         \* the function of the current turn of its loop
  step,        \* where the pass is with this function
  dom, reach,  \* the maps of getDom and getReach
  pos,         \* the place of the current sweep in the list
  notDoneYet,  \* did the current sweep change its map?
  stats,       \* mStatsBefore and mStatsAfter
  changed,     \* the result of removeUnusedBlocks for this function
  modified     \* its result for the module

maps == <<dom, reach>>
vars == <<functions, remaining, phase, cur, step, maps, pos, notDoneYet,
          stats, changed, modified>>

program == functions[cur]
blocks  == remaining[cur]

Preds(b) == {q \in blocks : b \in Cfg(program, q)}

Count(S) == Cardinality(S)

Edges(f, S) == SumFunction([b \in S |-> Len(f.succ[b])])

(***************************************************************************)
(* IntStats and ModuleStats.                                               *)
(***************************************************************************)
MaxInt == 2147483647

\* The ints have room for the edges of a module.
ASSUME CountersAssumption ==
  \A m \in Modules : SumFunction([n \in DOMAIN m |-> Edges(m[n], Listed(m[n]))]) <= MaxInt

NoInts == [min |-> MaxInt, max |-> 0, total |-> 0, size |-> 0]

AddInt(s, a) ==
  [min |-> Min({a, s.min}), max |-> Max({a, s.max}), total |-> s.total + a, size |-> s.size + 1]

NoStats ==
  [ functions |-> 0, functionCalls |-> 0,
    basicBlocks |-> NoInts, cfgEdges |-> NoInts, loopBlocks |-> NoInts,
    singleEntryLoops |-> NoInts, domTreeDescendents |-> 0, domTreeAncestors |-> 0 ]

AddFunction(m, f) ==
  [ functions          |-> m.functions + 1,
    functionCalls      |-> m.functionCalls + f.functionCalls,
    basicBlocks        |-> AddInt(m.basicBlocks, f.basicBlocks),
    cfgEdges           |-> AddInt(m.cfgEdges, f.cfgEdges),
    loopBlocks         |-> AddInt(m.loopBlocks, f.loopBlocks),
    singleEntryLoops   |-> AddInt(m.singleEntryLoops, f.singleEntryLoops),
    domTreeDescendents |-> m.domTreeDescendents + f.domTreeDescendents,
    domTreeAncestors   |-> m.domTreeAncestors + f.domTreeAncestors ]

(***************************************************************************)
(* getDom and getReach: the maps they start from, and what the visit of    *)
(* one block makes of its entry.                                           *)
(***************************************************************************)
FirstDom(n) == [b \in remaining[n] |-> IF b = Entry THEN {b} ELSE remaining[n]]

\* Mutant of FirstReach: a block is not reachable from itself.
FirstReachProper(n) == [b \in remaining[n] |-> Cfg(functions[n], b)]

FirstReach(n) == [b \in remaining[n] |-> Cfg(functions[n], b) \cup {b}]

\* Mutant of NarrowedDom: a block does not dominate itself.
NarrowedDomProper(b) == dom[b] \cap {d \in blocks : \A q \in Preds(b) : d \in dom[q]}

\* Nothing dominates b, but b itself, that fails to dominate a predecessor.
NarrowedDom(b) ==
  IF Preds(b) = {} THEN dom[b]
  ELSE (dom[b] \cap {d \in blocks : \A q \in Preds(b) : d \in dom[q]}) \cup {b}

WidenedReach(b) == reach[b] \cup UNION {reach[j] : j \in reach[b]}

Init ==
  /\ functions \in Modules
  /\ remaining = [n \in DOMAIN functions |-> Listed(functions[n])]
  /\ phase = "before"
  /\ cur = 0
  /\ step = "function"
  /\ dom = << >> /\ reach = << >>
  /\ pos = 1
  /\ notDoneYet = FALSE
  /\ stats = [before |-> NoStats, after |-> NoStats]
  /\ changed = FALSE
  /\ modified = FALSE

(***************************************************************************)
(* The loops over the functions.                                           *)
(***************************************************************************)
\* Declarations are passed over.
NextFunction ==
  /\ step = "function"
  /\ cur < Len(functions)
  /\ cur' = cur + 1
  /\ IF functions[cur + 1].list = << >> THEN UNCHANGED <<step, maps, pos>>
     ELSE /\ IF phase = "remove"
             THEN step' = "reach" /\ reach' = FirstReach(cur + 1) /\ UNCHANGED dom
             ELSE step' = "dom" /\ dom' = FirstDom(cur + 1) /\ UNCHANGED reach
          /\ pos' = 1
  /\ UNCHANGED <<functions, remaining, phase, notDoneYet, stats, changed, modified>>

NextPhase ==
  /\ step = "function"
  /\ cur = Len(functions)
  /\ phase' = CASE phase = "before" -> "remove"
                [] phase = "remove" -> "after"
                [] phase = "after"  -> "done"
  /\ step' = IF phase = "after" THEN "done" ELSE "function"
  /\ cur' = 0
  /\ UNCHANGED <<functions, remaining, maps, pos, notDoneYet, stats, changed, modified>>

(***************************************************************************)
(* The sweeps.                                                             *)
(***************************************************************************)
\* The iteration over the list; an erased block is not on it.
Here == program.list[pos]

Sweeping(s) == step = s /\ pos <= Len(program.list)
SweepEnds(s) == step = s /\ pos = Len(program.list) + 1

\* Mutant of VisitDom: every visit counts as a change.
VisitDomRestless ==
  /\ Sweeping("dom")
  /\ dom' = IF Here \in blocks \ {Entry} THEN [dom EXCEPT ![Here] = NarrowedDom(Here)]
            ELSE dom
  /\ notDoneYet' = TRUE
  /\ pos' = pos + 1
  /\ UNCHANGED <<functions, remaining, phase, cur, step, reach, stats, changed, modified>>

VisitDom ==
  /\ Sweeping("dom")
  /\ IF Here \in blocks \ {Entry}
     THEN /\ dom' = [dom EXCEPT ![Here] = NarrowedDom(Here)]
          /\ notDoneYet' = (notDoneYet \/ NarrowedDom(Here) # dom[Here])
     ELSE UNCHANGED <<dom, notDoneYet>>
  /\ pos' = pos + 1
  /\ UNCHANGED <<functions, remaining, phase, cur, step, reach, stats, changed, modified>>

\* Mutant of VisitReach: the sweep does not notice that it changed the map.
VisitReachUnnoticed ==
  /\ Sweeping("reach")
  /\ reach' = IF Here \in blocks THEN [reach EXCEPT ![Here] = WidenedReach(Here)]
              ELSE reach
  /\ pos' = pos + 1
  /\ UNCHANGED <<functions, remaining, phase, cur, step, dom, notDoneYet,
                 stats, changed, modified>>

VisitReach ==
  /\ Sweeping("reach")
  /\ IF Here \in blocks
     THEN /\ reach' = [reach EXCEPT ![Here] = WidenedReach(Here)]
          /\ notDoneYet' = (notDoneYet \/ WidenedReach(Here) # reach[Here])
     ELSE UNCHANGED <<reach, notDoneYet>>
  /\ pos' = pos + 1
  /\ UNCHANGED <<functions, remaining, phase, cur, step, dom, stats, changed, modified>>

SweepAgain ==
  /\ SweepEnds("dom") \/ SweepEnds("reach")
  /\ notDoneYet
  /\ notDoneYet' = FALSE
  /\ pos' = 1
  /\ UNCHANGED <<functions, remaining, phase, cur, step, maps, stats, changed, modified>>

GetReach ==
  /\ SweepEnds("dom")
  /\ ~notDoneYet
  /\ step' = "reach"
  /\ reach' = FirstReach(cur)
  /\ pos' = 1
  /\ UNCHANGED <<functions, remaining, phase, cur, dom, notDoneYet, stats, changed, modified>>

\* removeUnusedBlocks does not initialise its result for a function.
ReachDone ==
  /\ SweepEnds("reach")
  /\ ~notDoneYet
  /\ step' = IF phase = "remove" THEN "erase" ELSE "count"
  /\ IF phase = "remove" THEN changed' \in BOOLEAN ELSE UNCHANGED changed
  /\ UNCHANGED <<functions, remaining, phase, cur, maps, pos, notDoneYet, stats, modified>>

(***************************************************************************)
(* getStats, once its two analyses are there.                              *)
(***************************************************************************)
\* Mutant of SingleEntryLoops: the ends of the edge are exchanged.
SingleEntryLoopsReversed ==
  SumFunction([b \in blocks |-> Count({i \in DOMAIN program.succ[b] :
                                         b \in dom[program.succ[b][i]]})])

\* The edges of b to blocks that dominate it, over all b.
SingleEntryLoops ==
  SumFunction([b \in blocks |-> Count({i \in DOMAIN program.succ[b] :
                                         program.succ[b][i] \in dom[b]})])

IsLoopBlock(b) == \E b2 \in blocks : b2 \in reach[b] /\ b \in reach[b2]

\* The functions with a body that the blocks of S call.
Callees(f, S) ==
  {n \in DOMAIN functions : functions[n].list # << >> /\ \E b \in S : n \in f.calls[b]}

FunctionStats ==
  [ functionCalls      |-> Count(Callees(program, blocks)),
    basicBlocks        |-> 2 * Count(blocks),  \* counted here and in add
    cfgEdges           |-> Edges(program, blocks),
    loopBlocks         |-> Count({b \in blocks : IsLoopBlock(b)}),
    singleEntryLoops   |-> SingleEntryLoops,
    domTreeAncestors   |->
      SumFunction([b \in blocks |-> Count({b2 \in blocks : b2 \in dom[b]})]),
    domTreeDescendents |->
      SumFunction([b \in blocks |-> Count({b2 \in blocks : b \in dom[b2]})]) ]

CountFunction ==
  /\ step = "count"
  /\ stats' = [stats EXCEPT ![phase] = AddFunction(stats[phase], FunctionStats)]
  /\ step' = "function"
  /\ UNCHANGED <<functions, remaining, phase, cur, maps, pos, notDoneYet, changed, modified>>

(***************************************************************************)
(* removeUnusedBlocks, in the order of the block pointers.                 *)
(***************************************************************************)
\* Mutant of Unused: the transposed map is read the wrong way round.
UnusedTransposed == {b \in blocks : Entry \notin reach[b]} \ {Entry}

Unused == {b \in blocks : b \notin reach[Entry]}

EraseBlock(b) ==
  /\ step = "erase"
  /\ b \in Unused
  /\ remaining' = [remaining EXCEPT ![cur] = blocks \ {b}]
  /\ changed' = TRUE
  /\ UNCHANGED <<functions, phase, cur, step, maps, pos, notDoneYet, stats, modified>>

\* Mutant of EraseDone: the last function decides what is returned.
EraseDoneLast ==
  /\ step = "erase"
  /\ Unused = {}
  /\ modified' = changed
  /\ step' = "function"
  /\ UNCHANGED <<functions, remaining, phase, cur, maps, pos, notDoneYet, stats, changed>>

EraseDone ==
  /\ step = "erase"
  /\ Unused = {}
  /\ modified' = (modified \/ changed)
  /\ step' = "function"
  /\ UNCHANGED <<functions, remaining, phase, cur, maps, pos, notDoneYet, stats, changed>>

Next ==
  \/ NextFunction \/ NextPhase
  \/ VisitDom \/ VisitReach \/ SweepAgain \/ GetReach \/ ReachDone
  \/ CountFunction \/ (\E b \in Blocks : EraseBlock(b)) \/ EraseDone

Spec == Init /\ [][Next]_vars

\* runOnModule is one call, which keeps running.
FairSpec == Spec /\ WF_vars(Next)

TypeOK ==
  /\ IsModule(functions)
  /\ DOMAIN remaining = DOMAIN functions
  /\ \A n \in DOMAIN functions :
       /\ remaining[n] \subseteq Listed(functions[n])
       /\ functions[n].list # << >> => Entry \in remaining[n]
  /\ phase \in {"before", "remove", "after", "done"}
  /\ cur \in 0 .. Len(functions)
  /\ step \in {"function", "dom", "reach", "count", "erase", "done"}
  /\ step \in {"dom", "reach", "count", "erase"} =>
       cur # 0 /\ program.list # << >> /\ pos \in 1 .. Len(program.list) + 1
  /\ step = "dom" \/ (step \in {"reach", "count"} /\ phase # "remove") =>
       dom \in [blocks -> SUBSET blocks]
  /\ step \in {"reach", "count"} => reach \in [blocks -> SUBSET blocks]
  /\ {notDoneYet, changed, modified} \subseteq BOOLEAN

(***************************************************************************)
(* Properties.  A set of blocks that the edges do not leave has everything *)
(* that can be reached from its members.                                   *)
(***************************************************************************)
Closed(f, S) == \A b \in S : Cfg(f, b) \subseteq S

Reaches(f, a, b) == \A S \in SUBSET Blocks : a \in S /\ Closed(f, S) => b \in S

Alive(f) == {b \in Listed(f) : Reaches(f, Entry, b)}

\* d dominates b if what the entry reaches without d does not have b.
Dominates(f, d, b) ==
  \/ d = b
  \/ \E S \in SUBSET (Blocks \ {d, b}) :
       (Entry # d => Entry \in S) /\ \A s \in S : Cfg(f, s) \subseteq S \cup {d}

\* When a sweep has changed nothing, reach[a] has the blocks there is a path to
\* from a, and no others (ProjectZero.cpp:187-217).
ReachExact ==
  step \in {"count", "erase"} =>
    \A a, b \in blocks : b \in reach[a] <=> Reaches(program, a, b)

\* When a sweep has changed nothing, dom[b] has the blocks that dominate b, and
\* no others (ProjectZero.cpp:219-260).
DomExact ==
  step = "count" =>
    \A d, b \in blocks : d \in dom[b] <=> Dominates(program, d, b)

\* Every block its function's entry does not reach is removed and no other is,
\* whatever the order of erasure (ProjectZero.cpp:280-311).
RemovedExactly ==
  \A n \in DOMAIN functions :
    /\ Alive(functions[n]) \subseteq remaining[n]
    /\ phase \in {"after", "done"} => remaining[n] = Alive(functions[n])

\* A module that has lost a block is reported as modified, whatever the functions
\* that lose none make of their uninitialised result (ProjectZero.cpp:288-311).
RemovalReported ==
  /\ phase \in {"after", "done"}
  /\ \E n \in DOMAIN functions : remaining[n] # Listed(functions[n])
  => modified

Defined == {n \in DOMAIN functions : functions[n].list # << >>}

LoopsOf(f) ==
  SumFunction([b \in Alive(f) |-> Count({i \in DOMAIN f.succ[b] : Dominates(f, f.succ[b][i], b)})])

CallsOf(f) == Count(Callees(f, Alive(f)))

\* The second statistics are those of the functions of D.
CountedOver(D) ==
  LET loops == stats["after"].singleEntryLoops
  IN  /\ stats["after"].functions = Count(D)
      /\ stats["after"].functionCalls = SumFunction([n \in D |-> CallsOf(functions[n])])
      /\ loops.total = SumFunction([n \in D |-> LoopsOf(functions[n])])
      /\ D # {} => /\ loops.min = Min({LoopsOf(functions[n]) : n \in D})
                   /\ loops.max = Max({LoopsOf(functions[n]) : n \in D})

\* The statistics after the removal are those of what the entries reach of the
\* functions that have a body: their edges to dominators, in all, at least and at
\* most, and the functions they call, each once (ProjectZero.cpp:313-389).
StatsOfTheLiving == phase = "done" => CountedOver(Defined)

\* The sweeps come to an end, for each function (ProjectZero.cpp:195-215, 235-258).
Finishes == <>(phase = "done")

\* A block is erased when no instruction refers to it any more (the assertion
\* of llvm/lib/VMCore/Value.cpp:75).
ErasedUnused ==
  [][\A n \in DOMAIN functions : \A b \in remaining[n] \ remaining'[n] :
       \A q \in remaining[n] \ {b} : b \notin Cfg(functions[n], q)]_vars
=============================================================================
