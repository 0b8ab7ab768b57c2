---------------------------- MODULE ProjectLoops ----------------------------
(***************************************************************************)
(* ProjectLoops.cpp: the module pass that counts the back edges of each    *)
(* function in a depth-first walk with a stack of its own.                 *)
(*                                                                         *)
(* A function is the sequence of its blocks, each the sequence of its      *)
(* successors, and the number of its call instructions; block 1 is the     *)
(* entry and a declaration has no block.  The model takes one step for     *)
(* each successor the walk looks at.                                       *)
(***************************************************************************)
EXTENDS Integers, Sequences, FiniteSets

CONSTANT Modules

\* The successors of the blocks of a function are blocks of it.
IsModule(m) ==
  /\ m \in Seq([succ : Seq(Seq(Nat)), calls : Nat])
  /\ \A n \in DOMAIN m : \A b \in DOMAIN m[n].succ :
       \A i \in DOMAIN m[n].succ[b] : m[n].succ[b][i] \in DOMAIN m[n].succ

ASSUME ModulesAssumption == \A m \in Modules : IsModule(m)

VARIABLES
  module,      \* the functions
  cur,         \* the function of the current turn of runOnModule
  visited,     \* Visited
  visitStack,  \* VisitStack: blocks, with the place of the next successor
  inStack,     \* InStack
  back,        \* the edges that were counted
  BackEdgesInThisFunction,
  NumberOfFunctions, NumberOfFunctionCalls,
  NumberOfBasicBlocks, NumberOfBackEdges   \* statistics over the functions

walk   == <<visited, visitStack, inStack, back, BackEdgesInThisFunction>>
totals == <<NumberOfFunctions, NumberOfFunctionCalls, NumberOfBasicBlocks>>
vars   == <<module, cur, walk, totals, NumberOfBackEdges>>

(***************************************************************************)
(* MinMaxTotal.                                                            *)
(***************************************************************************)
NoStats == [min |-> 0, max |-> 0, total |-> 0]

Lesser(a, b)  == IF a < b THEN a ELSE b
Greater(a, b) == IF a > b THEN a ELSE b

Add(s, n) == [min |-> Lesser(n, s.min), max |-> Greater(n, s.max), total |-> s.total + n]

(***************************************************************************)
(* The walk.  An edge is a block and the place of one of its successors.   *)
(***************************************************************************)
F == module[cur].succ

Target(e) == F[e[1]][e[2]]

Top  == visitStack[Len(visitStack)]
Rest == SubSeq(visitStack, 1, Len(visitStack) - 1)

Walking == visitStack # << >>

Init ==
  /\ module \in Modules
  /\ cur = 0
  /\ visited = {} /\ visitStack = << >> /\ inStack = {}
  /\ back = {} /\ BackEdgesInThisFunction = 0
  /\ NumberOfFunctions = 0 /\ NumberOfFunctionCalls = 0
  /\ NumberOfBasicBlocks = NoStats
  /\ NumberOfBackEdges = NoStats

\* The next function; one without blocks or whose entry has no successor has no
\* walk.
RunOnFunction ==
  /\ ~Walking
  /\ cur < Len(module)
  /\ cur' = cur + 1
  /\ NumberOfFunctions' = NumberOfFunctions + 1
  /\ NumberOfFunctionCalls' = NumberOfFunctionCalls + module[cur + 1].calls
  /\ LET succ == module[cur + 1].succ
         walked == IF succ = << >> THEN FALSE ELSE succ[1] # << >>
     IN  /\ NumberOfBasicBlocks' = Add(NumberOfBasicBlocks, Len(succ))
         /\ visited' = IF walked THEN {1} ELSE {}
         /\ visitStack' = IF walked THEN <<<<1, 1>>>> ELSE << >>
         /\ inStack' = IF walked THEN {1} ELSE {}
  /\ back' = {} /\ BackEdgesInThisFunction' = 0
  /\ UNCHANGED <<module, NumberOfBackEdges>>

HasNext == Top[2] <= Len(F[Top[1]])

\* Mutants of Moved: the iterator moves over two successors, or not at all.
MovedTwice == Append(Rest, <<Top[1], Top[2] + 2>>)
MovedNot   == visitStack

Moved == Append(Rest, <<Top[1], Top[2] + 1>>)

Down ==
  /\ Walking /\ HasNext
  /\ Target(Top) \notin visited
  /\ visited' = visited \cup {Target(Top)}
  /\ visitStack' = Append(Moved, <<Target(Top), 1>>)
  /\ inStack' = inStack \cup {Target(Top)}
  /\ UNCHANGED <<module, cur, back, BackEdgesInThisFunction, totals, NumberOfBackEdges>>

CountBack(counted) ==
  /\ back' = IF counted THEN back \cup {Top} ELSE back
  /\ BackEdgesInThisFunction' =
       IF counted THEN BackEdgesInThisFunction + 1 ELSE BackEdgesInThisFunction

\* Mutant of Skip: every edge to a visited block is a back edge.
SkipVisited ==
  /\ Walking /\ HasNext
  /\ Target(Top) \in visited
  /\ visitStack' = Moved
  /\ CountBack(TRUE)
  /\ UNCHANGED <<module, cur, visited, inStack, totals, NumberOfBackEdges>>

\* Mutant of Skip: an edge from a block to itself is no back edge.
SkipSelf ==
  /\ Walking /\ HasNext
  /\ Target(Top) \in visited
  /\ visitStack' = Moved
  /\ CountBack(Target(Top) \in inStack \ {Top[1]})
  /\ UNCHANGED <<module, cur, visited, inStack, totals, NumberOfBackEdges>>

Skip ==
  /\ Walking /\ HasNext
  /\ Target(Top) \in visited
  /\ visitStack' = Moved
  /\ CountBack(Target(Top) \in inStack)
  /\ UNCHANGED <<module, cur, visited, inStack, totals, NumberOfBackEdges>>

EndOfWalk ==
  NumberOfBackEdges' =
    IF Rest = << >> THEN Add(NumberOfBackEdges, BackEdgesInThisFunction)
    ELSE NumberOfBackEdges

\* Mutant of Up: the block stays in InStack.
UpKept ==
  /\ Walking /\ ~HasNext
  /\ visitStack' = Rest
  /\ EndOfWalk
  /\ UNCHANGED <<module, cur, visited, inStack, back, BackEdgesInThisFunction, totals>>

Up ==
  /\ Walking /\ ~HasNext
  /\ visitStack' = Rest
  /\ inStack' = inStack \ {Top[1]}
  /\ EndOfWalk
  /\ UNCHANGED <<module, cur, visited, back, BackEdgesInThisFunction, totals>>

Next == RunOnFunction \/ Down \/ Skip \/ Up

\* runOnModule is one call, which keeps running.
Spec == Init /\ [][Next]_vars /\ WF_vars(Next)

Stats == [min : Int, max : Int, total : Int]

LoopsTypeOK ==
  /\ IsModule(module)
  /\ cur \in 0 .. Len(module)
  /\ Walking => cur # 0
  /\ cur # 0 =>
       /\ visited \subseteq DOMAIN F /\ inStack \subseteq visited
       /\ visitStack \in Seq(visited \X Nat)
       /\ \A k \in DOMAIN visitStack :
            visitStack[k][2] \in 1 .. Len(F[visitStack[k][1]]) + 1
       /\ \A e \in back : e[1] \in visited /\ e[2] \in DOMAIN F[e[1]]
  /\ BackEdgesInThisFunction \in Nat
  /\ NumberOfFunctions = cur /\ NumberOfFunctionCalls \in Nat
  /\ NumberOfBasicBlocks \in Stats /\ NumberOfBackEdges \in Stats

(***************************************************************************)
(* Properties.  A set of blocks that the edges of es do not leave has      *)
(* everything that a path over them leads to from its members.             *)
(***************************************************************************)
Edges == UNION {{b} \X DOMAIN F[b] : b \in DOMAIN F}

Closed(es, S) == \A e \in es : e[1] \in S => Target(e) \in S

Reaches(es, a, b) == \A S \in SUBSET DOMAIN F : a \in S /\ Closed(es, S) => b \in S

Live == {e \in Edges : Reaches(Edges, 1, e[1])}

\* d dominates b: without the edges out of d the entry does not reach b.
Dominates(d, b) == d = b \/ ~Reaches({e \in Edges : e[1] # d}, 1, b)

Walked == cur # 0 /\ ~Walking /\ visited # {}

\* InStack has the blocks of VisitStack, each once, and the stack is a path: the
\* edge each block went down over leads to the next (ProjectLoops.cpp:124-154).
StackIsPath ==
  /\ inStack = {visitStack[k][1] : k \in DOMAIN visitStack}
  /\ \A j, k \in DOMAIN visitStack : visitStack[j][1] = visitStack[k][1] => j = k
  /\ \A k \in 1 .. Len(visitStack) - 1 :
       visitStack[k][2] > 1 /\
       Target(<<visitStack[k][1], visitStack[k][2] - 1>>) = visitStack[k + 1][1]

\* Each loop is counted: without the counted edges the function has no cycle,
\* and an edge to a dominator is a counted one (ProjectLoops.cpp:139-140).
LoopsCounted ==
  Walked =>
    /\ \A e \in Live \ back : ~Reaches(Live \ back, Target(e), e[1])
    /\ \A e \in Live : Dominates(Target(e), e[1]) => e \in back

\* Nothing else is counted: each counted edge is counted once and closes a cycle
\* the entry reaches.
CountedAreLoops ==
  Walked =>
    /\ BackEdgesInThisFunction = Cardinality(back)
    /\ \A e \in back : e \in Live /\ Reaches(Edges, Target(e), e[1])

\* The walk of each function comes to an end (ProjectLoops.cpp:124-154).
AllWalked == <>(cur = Len(module) /\ ~Walking)
=============================================================================
