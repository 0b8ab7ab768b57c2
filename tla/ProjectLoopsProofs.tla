------------------------- MODULE ProjectLoopsProofs -------------------------
(***************************************************************************)
(* Why the walk of ProjectLoops counts the loops: proofs that its stack is *)
(* a path, that each edge it counts closes a loop, and that the edges it   *)
(* does not count close none.                                              *)
(***************************************************************************)
EXTENDS ProjectLoops, SequenceTheorems, FiniteSetTheorems, TLAPS

(***************************************************************************)
(* The function and its edges.                                             *)
(***************************************************************************)
LEMMA FunctionType ==
  ASSUME IsModule(module), cur \in 1 .. Len(module)
  PROVE  /\ F \in Seq(Seq(Nat)) /\ module[cur].calls \in Nat
         /\ \A b \in DOMAIN F : F[b] \in Seq(Nat)
         /\ \A b \in DOMAIN F : DOMAIN F[b] = 1 .. Len(F[b]) /\ Len(F[b]) \in Nat
         /\ \A b \in DOMAIN F : \A i \in DOMAIN F[b] : F[b][i] \in DOMAIN F
<1>1. cur \in DOMAIN module /\ module[cur] \in [succ : Seq(Seq(Nat)), calls : Nat]
  <2>1. module \in Seq([succ : Seq(Seq(Nat)), calls : Nat])
    BY DEF IsModule
  <2> QED BY <2>1, ElementOfSeq, LenProperties
<1>2. F \in Seq(Seq(Nat)) /\ module[cur].calls \in Nat
  BY <1>1 DEF F
<1>3. \A b \in DOMAIN F : F[b] \in Seq(Nat)
  BY <1>2
<1>4. \A b \in DOMAIN F : DOMAIN F[b] = 1 .. Len(F[b]) /\ Len(F[b]) \in Nat
  BY <1>3, LenProperties
<1>5. \A b \in DOMAIN F : \A i \in DOMAIN F[b] : F[b][i] \in DOMAIN F
  BY <1>1 DEF IsModule, F
<1> QED BY <1>2, <1>3, <1>4, <1>5

LEMMA EdgeParts ==
  /\ \A e \in Edges : e = <<e[1], e[2]>> /\ e[1] \in DOMAIN F /\ e[2] \in DOMAIN F[e[1]]
  /\ \A b \in DOMAIN F : \A i \in DOMAIN F[b] : <<b, i>> \in Edges
BY DEF Edges

LEMMA StatsAfterAdd ==
  ASSUME NEW s \in Stats, NEW n \in Int
  PROVE  Add(s, n) \in Stats
BY DEF Stats, Add, Lesser, Greater

(***************************************************************************)
(* The type invariant.                                                     *)
(***************************************************************************)

\* What the stack is after the iterator of its top has moved, and without it.
LEMMA StackParts ==
  ASSUME NEW S, visitStack \in Seq(S \X Nat), Walking
  PROVE  /\ Len(visitStack) \in Nat \ {0} /\ DOMAIN visitStack = 1 .. Len(visitStack)
         /\ Top \in S \X Nat /\ Top[1] \in S /\ Top[2] \in Nat
         /\ Rest \in Seq(S \X Nat) /\ Len(Rest) = Len(visitStack) - 1
         /\ DOMAIN Rest = 1 .. Len(visitStack) - 1
         /\ \A k \in 1 .. Len(visitStack) - 1 : Rest[k] = visitStack[k]
         /\ Moved \in Seq(S \X Nat) /\ Len(Moved) = Len(visitStack)
         /\ DOMAIN Moved = 1 .. Len(visitStack)
         /\ \A k \in 1 .. Len(visitStack) - 1 : Moved[k] = visitStack[k]
         /\ Moved[Len(visitStack)] = <<Top[1], Top[2] + 1>>
<1>1. Len(visitStack) \in Nat \ {0} /\ DOMAIN visitStack = 1 .. Len(visitStack)
  BY LenProperties, EmptySeq DEF Walking
<1>2. Top \in S \X Nat /\ Top[1] \in S /\ Top[2] \in Nat
  <2>1. visitStack[Len(visitStack)] \in S \X Nat
    BY <1>1, ElementOfSeq
  <2> QED BY <2>1 DEF Top
<1>3. /\ Rest \in Seq(S \X Nat) /\ Len(Rest) = Len(visitStack) - 1
      /\ \A k \in 1 .. Len(visitStack) - 1 : Rest[k] = visitStack[k]
  BY <1>1 DEF Rest
<1> HIDE DEF Top, Rest
<1>4. <<Top[1], Top[2] + 1>> \in S \X Nat
  BY <1>2
<1>5. /\ Moved \in Seq(S \X Nat) /\ Len(Moved) = Len(visitStack)
      /\ \A k \in 1 .. Len(visitStack) - 1 : Moved[k] = visitStack[k]
      /\ Moved[Len(visitStack)] = <<Top[1], Top[2] + 1>>
  <2> DEFINE next == <<Top[1], Top[2] + 1>>
  <2>1. Moved = Append(Rest, next)
    BY DEF Moved
  <2>2. /\ Append(Rest, next) \in Seq(S \X Nat)
        /\ Len(Append(Rest, next)) = Len(Rest) + 1
        /\ \A k \in 1 .. Len(Rest) : Append(Rest, next)[k] = Rest[k]
        /\ Append(Rest, next)[Len(Rest) + 1] = next
    <3> HIDE DEF next
    <3>1. next \in S \X Nat
      BY <1>4 DEF next
    <3> QED BY <1>3, <3>1, AppendProperties
  <2> HIDE DEF next
  <2>3. Len(Rest) + 1 = Len(visitStack)
    BY <1>1, <1>3
  <2>4. \A k \in 1 .. Len(visitStack) - 1 : Moved[k] = visitStack[k]
    BY <1>3, <2>1, <2>2
  <2> QED BY <2>1, <2>2, <2>3, <2>4 DEF next
<1>6. DOMAIN Rest = 1 .. Len(visitStack) - 1 /\ DOMAIN Moved = 1 .. Len(visitStack)
  BY <1>3, <1>5, LenProperties
<1> QED BY <1>1, <1>2, <1>3, <1>5, <1>6

LEMMA StepLoopsType == LoopsTypeOK /\ [Next]_vars => LoopsTypeOK'
<1> SUFFICES ASSUME LoopsTypeOK, [Next]_vars PROVE LoopsTypeOK'
  OBVIOUS
<1>0. IsModule(module) /\ Len(module) \in Nat /\ cur \in 0 .. Len(module)
  BY LenProperties DEF LoopsTypeOK, IsModule
<1>1. CASE UNCHANGED vars
  BY <1>1 DEF LoopsTypeOK, vars, walk, totals, Walking, F
<1>2. CASE RunOnFunction
  <2> DEFINE succ == module[cur + 1].succ
  <2>1. cur' \in 1 .. Len(module) /\ IsModule(module)'
    BY <1>0, <1>2 DEF RunOnFunction
  <2>2. F' = succ /\ module[cur + 1].calls \in Nat /\ succ \in Seq(Seq(Nat))
    <3>1. cur + 1 \in 1 .. Len(module)
      BY <1>0, <1>2 DEF RunOnFunction
    <3>2. module[cur + 1] \in [succ : Seq(Seq(Nat)), calls : Nat]
      BY <1>0, <3>1, ElementOfSeq DEF IsModule
    <3> QED BY <1>2, <3>2 DEF RunOnFunction, F
  <2> HIDE DEF succ
  <2>3. Len(succ) \in Nat /\ (succ # << >> => 1 \in DOMAIN succ /\ Len(succ[1]) \in Nat)
    BY <2>2, LenProperties
  <2>4. \/ visited' = {} /\ visitStack' = << >> /\ inStack' = {}
        \/ /\ succ # << >>
           /\ visited' = {1} /\ visitStack' = <<<<1, 1>>>> /\ inStack' = {1}
    BY <1>2 DEF RunOnFunction, succ
  <2>5. /\ visited' \subseteq DOMAIN F' /\ inStack' \subseteq visited'
        /\ visitStack' \in Seq(visited' \X Nat)
        /\ \A k \in DOMAIN visitStack' :
             visitStack'[k][2] \in 1 .. Len(F'[visitStack'[k][1]]) + 1
    <3>1. CASE visited' = {} /\ visitStack' = << >> /\ inStack' = {}
      BY <3>1
    <3>2. CASE /\ succ # << >>
               /\ visited' = {1} /\ visitStack' = <<<<1, 1>>>> /\ inStack' = {1}
      <4>1. <<1, 1>> \in visited' \X Nat
        BY <3>2
      <4>2. visitStack' \in Seq(visited' \X Nat) /\ DOMAIN visitStack' = {1}
        BY <3>2, <4>1
      <4> QED BY <2>2, <2>3, <3>2, <4>2
    <3> QED BY <2>4, <3>1, <3>2
  <2>6. NumberOfBasicBlocks' \in Stats
    BY <1>2, <2>3, StatsAfterAdd DEF RunOnFunction, LoopsTypeOK, succ
  <2>7. /\ back' = {} /\ BackEdgesInThisFunction' = 0
        /\ NumberOfBackEdges' = NumberOfBackEdges
        /\ NumberOfFunctions' = NumberOfFunctions + 1 /\ cur' = cur + 1 /\ module' = module
        /\ NumberOfFunctionCalls' = NumberOfFunctionCalls + module[cur + 1].calls
    BY <1>2 DEF RunOnFunction
  <2>8. NumberOfFunctions' = cur' /\ NumberOfFunctionCalls' \in Nat
    BY <2>2, <2>7 DEF LoopsTypeOK
  <2> QED BY <2>1, <2>5, <2>6, <2>7, <2>8 DEF LoopsTypeOK
<1>3. CASE Walking /\ (Down \/ Skip \/ Up)
  <2>1. cur \in 1 .. Len(module) /\ cur' = cur /\ module' = module /\ F' = F
    BY <1>0, <1>3 DEF Down, Skip, Up, LoopsTypeOK, F
  <2>2. /\ visited \subseteq DOMAIN F /\ inStack \subseteq visited
        /\ visitStack \in Seq(visited \X Nat)
        /\ \A k \in DOMAIN visitStack :
             visitStack[k][2] \in 1 .. Len(F[visitStack[k][1]]) + 1
        /\ \A e \in back : e[1] \in visited /\ e[2] \in DOMAIN F[e[1]]
        /\ BackEdgesInThisFunction \in Nat
        /\ NumberOfFunctions = cur /\ NumberOfFunctionCalls \in Nat
        /\ NumberOfBasicBlocks \in Stats /\ NumberOfBackEdges \in Stats
    BY <2>1 DEF LoopsTypeOK
  <2>3. /\ Len(visitStack) \in Nat \ {0} /\ DOMAIN visitStack = 1 .. Len(visitStack)
        /\ Top[1] \in visited /\ Top[2] \in Nat
        /\ Rest \in Seq(visited \X Nat) /\ Len(Rest) = Len(visitStack) - 1
        /\ DOMAIN Rest = 1 .. Len(visitStack) - 1
        /\ \A k \in 1 .. Len(visitStack) - 1 : Rest[k] = visitStack[k]
        /\ Moved \in Seq(visited \X Nat) /\ Len(Moved) = Len(visitStack)
        /\ DOMAIN Moved = 1 .. Len(visitStack)
        /\ \A k \in 1 .. Len(visitStack) - 1 : Moved[k] = visitStack[k]
        /\ Moved[Len(visitStack)] = <<Top[1], Top[2] + 1>>
    BY <1>3, <2>2, StackParts
  <2>4. /\ \A b \in DOMAIN F : DOMAIN F[b] = 1 .. Len(F[b]) /\ Len(F[b]) \in Nat
        /\ \A b \in DOMAIN F : \A i \in DOMAIN F[b] : F[b][i] \in DOMAIN F
    BY <1>0, <2>1, FunctionType
  <2>5. Top[2] \in 1 .. Len(F[Top[1]]) + 1
    <3>1. Len(visitStack) \in DOMAIN visitStack
      BY <2>3
    <3> QED BY <2>2, <3>1 DEF Top
  <2>6. HasNext => /\ Top[2] \in DOMAIN F[Top[1]]
                   /\ Top[2] + 1 \in 1 .. Len(F[Top[1]]) + 1
                   /\ Target(Top) \in DOMAIN F
    <3>1. /\ Top[1] \in DOMAIN F
          /\ DOMAIN F[Top[1]] = 1 .. Len(F[Top[1]]) /\ Len(F[Top[1]]) \in Nat
          /\ \A i \in DOMAIN F[Top[1]] : F[Top[1]][i] \in DOMAIN F
      BY <2>2, <2>3, <2>4
    <3>2. HasNext => Top[2] \in 1 .. Len(F[Top[1]])
      BY <2>5, <3>1 DEF HasNext
    <3> QED BY <3>1, <3>2 DEF Target
  <2>7. HasNext => \A k \in DOMAIN Moved : Moved[k][2] \in 1 .. Len(F[Moved[k][1]]) + 1
    <3> SUFFICES ASSUME HasNext, NEW k \in DOMAIN Moved
                 PROVE  Moved[k][2] \in 1 .. Len(F[Moved[k][1]]) + 1
      OBVIOUS
    <3>1. CASE k = Len(visitStack)
      BY <2>3, <2>6, <3>1, SMTT(30)
    <3>2. CASE k \in 1 .. Len(visitStack) - 1
      <4>1. k \in DOMAIN visitStack /\ Moved[k] = visitStack[k]
        BY <2>3, <3>2
      <4> QED BY <2>2, <4>1
    <3> QED BY <2>3, <3>1, <3>2
  <2>8. UNCHANGED <<NumberOfFunctions, NumberOfFunctionCalls, NumberOfBasicBlocks>>
    BY <1>3 DEF Down, Skip, Up, totals
  <2>9. CASE Down
    <3> DEFINE n == Target(Top)
    <3>1. /\ HasNext /\ visited' = visited \cup {n} /\ inStack' = inStack \cup {n}
          /\ visitStack' = Append(Moved, <<n, 1>>)
          /\ UNCHANGED <<back, BackEdgesInThisFunction, NumberOfBackEdges>>
      BY <2>9 DEF Down
    <3> HIDE DEF n
    <3>2. n \in DOMAIN F
      BY <2>6, <3>1 DEF n
    <3>3. Moved \in Seq(visited' \X Nat) /\ <<n, 1>> \in visited' \X Nat
      BY <2>3, <3>1
    <3>4. /\ visitStack' \in Seq(visited' \X Nat)
          /\ DOMAIN visitStack' = 1 .. Len(Moved) + 1
          /\ \A k \in 1 .. Len(Moved) : visitStack'[k] = Moved[k]
          /\ visitStack'[Len(Moved) + 1] = <<n, 1>>
      BY <3>1, <3>3
    <3>5. \A k \in DOMAIN visitStack' : visitStack'[k][2] \in 1 .. Len(F[visitStack'[k][1]]) + 1
      <4> SUFFICES ASSUME NEW k \in DOMAIN visitStack'
                   PROVE  visitStack'[k][2] \in 1 .. Len(F[visitStack'[k][1]]) + 1
        OBVIOUS
      <4>1. CASE k = Len(Moved) + 1
        BY <2>4, <3>2, <3>4, <4>1
      <4>2. CASE k \in 1 .. Len(Moved)
        <5>1. k \in DOMAIN Moved
          BY <2>3, <4>2
        <5> QED BY <2>7, <3>1, <3>4, <4>2, <5>1
      <4> QED BY <2>3, <3>4, <4>1, <4>2, SMTT(30)
    <3> QED BY <1>0, <2>1, <2>2, <2>8, <3>1, <3>2, <3>4, <3>5, SMTT(30) DEF LoopsTypeOK
  <2>10. CASE Skip
    <3>1. /\ HasNext /\ visitStack' = Moved
          /\ UNCHANGED <<visited, inStack, NumberOfBackEdges>>
          /\ back' \in {back, back \cup {Top}}
          /\ BackEdgesInThisFunction' \in Nat
      BY <2>2, <2>10 DEF Skip, CountBack
    <3>2. \A e \in back' : e[1] \in visited /\ e[2] \in DOMAIN F[e[1]]
      BY <2>2, <2>3, <2>6, <3>1
    <3>3. /\ visitStack' \in Seq(visited \X Nat)
          /\ \A k \in DOMAIN visitStack' :
               visitStack'[k][2] \in 1 .. Len(F[visitStack'[k][1]]) + 1
      BY <2>3, <2>7, <3>1
    <3> QED BY <1>0, <2>1, <2>2, <2>8, <3>1, <3>2, <3>3 DEF LoopsTypeOK
  <2>11. CASE Up
    <3>1. /\ visitStack' = Rest /\ inStack' = inStack \ {Top[1]}
          /\ UNCHANGED <<visited, back, BackEdgesInThisFunction>>
      BY <2>11 DEF Up
    <3>2. NumberOfBackEdges' \in Stats
      BY <2>2, <2>11, StatsAfterAdd DEF Up, EndOfWalk
    <3>3. \A k \in DOMAIN Rest : Rest[k][2] \in 1 .. Len(F[Rest[k][1]]) + 1
      <4> SUFFICES ASSUME NEW k \in DOMAIN Rest
                   PROVE  Rest[k][2] \in 1 .. Len(F[Rest[k][1]]) + 1
        OBVIOUS
      <4>1. k \in 1 .. Len(visitStack) - 1 /\ Len(visitStack) \in Nat
        BY <2>3
      <4>2. k \in 1 .. Len(visitStack)
        BY <4>1
      <4>3. k \in DOMAIN visitStack
        BY <2>3, <4>2
      <4>4. Rest[k] = visitStack[k]
        BY <2>3, <4>1
      <4> QED BY <2>2, <4>3, <4>4
    <3> QED BY <1>0, <2>1, <2>2, <2>3, <2>8, <3>1, <3>2, <3>3, SMTT(30) DEF LoopsTypeOK
  <2> QED BY <1>3, <2>9, <2>10, <2>11
<1>4. Down \/ Skip \/ Up => Walking
  BY DEF Down, Skip, Up
<1> QED BY <1>1, <1>2, <1>3, <1>4 DEF Next

LEMMA InitLoopsType == Init => LoopsTypeOK
BY ModulesAssumption DEF Init, LoopsTypeOK, Walking, NoStats, Stats, IsModule

\* The types of the walk: every place on the stack is the place of an edge of its
\* block, or the end of the block's successors (ProjectLoops.cpp:109-158).
THEOREM LoopsTypeCorrect == Spec => []LoopsTypeOK
BY InitLoopsType, StepLoopsType, PTL DEF Spec

(***************************************************************************)
(* The stack.                                                              *)
(***************************************************************************)

\* The edges the walk has looked at, those of them that it went down over or
\* that led to a block it had left, and the blocks it has left.
ScannedBy(blocks, stack) ==
  {e \in Edges : /\ e[1] \in blocks
                 /\ \A k \in DOMAIN stack : stack[k][1] = e[1] => e[2] < stack[k][2]}

Scanned == ScannedBy(visited, visitStack)

Forward == Scanned \ back

Left == visited \ inStack

\* The walk stays in its function while it is not over.
LEMMA SameFunction ==
  ASSUME LoopsTypeOK, Down \/ Skip \/ Up
  PROVE  /\ F' = F /\ Edges' = Edges /\ cur' = cur /\ cur # 0
         /\ \A e : Target(e)' = Target(e)
<1>1. cur' = cur /\ module' = module /\ Walking
  BY DEF Down, Skip, Up
<1>2. F' = F
  BY <1>1 DEF F
<1> QED BY <1>1, <1>2 DEF Edges, Target, LoopsTypeOK

\* What the type invariant says of a walk that has a stack.
LEMMA WalkParts ==
  ASSUME LoopsTypeOK, Walking
  PROVE  /\ visited \subseteq DOMAIN F /\ inStack \subseteq visited
         /\ visitStack \in Seq(visited \X Nat)
         /\ Len(visitStack) \in Nat /\ Len(visitStack) > 0
         /\ DOMAIN visitStack = 1 .. Len(visitStack)
         /\ \A k \in 1 .. Len(visitStack) :
              visitStack[k] = <<visitStack[k][1], visitStack[k][2]>> /\
              visitStack[k][1] \in visited /\ visitStack[k][2] \in Nat
         /\ Top = visitStack[Len(visitStack)] /\ Top[2] > 0
         /\ HasNext => Top \in Edges /\ Target(Top) \in DOMAIN F
         /\ ~HasNext => \A i \in DOMAIN F[Top[1]] : i < Top[2]
<1>1. cur # 0 /\ IsModule(module) /\ cur \in 1 .. Len(module)
  <2>1. Len(module) \in Nat
    BY LenProperties DEF LoopsTypeOK, IsModule
  <2> QED BY <2>1 DEF LoopsTypeOK
<1>2. /\ visited \subseteq DOMAIN F /\ inStack \subseteq visited
      /\ visitStack \in Seq(visited \X Nat)
      /\ \A k \in DOMAIN visitStack :
           visitStack[k][2] \in 1 .. Len(F[visitStack[k][1]]) + 1
  BY <1>1 DEF LoopsTypeOK
<1>3. /\ Len(visitStack) \in Nat /\ Len(visitStack) > 0
      /\ DOMAIN visitStack = 1 .. Len(visitStack)
  <2>1. Len(visitStack) \in Nat \ {0} /\ DOMAIN visitStack = 1 .. Len(visitStack)
    BY <1>2, StackParts
  <2> QED BY <2>1
<1>4. \A k \in 1 .. Len(visitStack) : visitStack[k] \in visited \X Nat
  BY <1>2, ElementOfSeq
<1>5. \A k \in 1 .. Len(visitStack) :
        visitStack[k] = <<visitStack[k][1], visitStack[k][2]>> /\
        visitStack[k][1] \in visited /\ visitStack[k][2] \in Nat
  BY <1>4
<1>6. Top = visitStack[Len(visitStack)]
  BY DEF Top
<1>7. /\ Top[1] \in DOMAIN F /\ Top[2] \in 1 .. Len(F[Top[1]]) + 1
      /\ Top = <<Top[1], Top[2]>>
  <2>1. Len(visitStack) \in DOMAIN visitStack
    BY <1>3
  <2> QED BY <1>2, <1>3, <1>5, <1>6, <2>1
<1>8. /\ DOMAIN F[Top[1]] = 1 .. Len(F[Top[1]]) /\ Len(F[Top[1]]) \in Nat
      /\ \A i \in DOMAIN F[Top[1]] : F[Top[1]][i] \in DOMAIN F
  BY <1>1, <1>7, FunctionType
<1>9. HasNext => Top[2] \in DOMAIN F[Top[1]]
  BY <1>7, <1>8 DEF HasNext
<1>10. HasNext => Top \in Edges /\ Target(Top) \in DOMAIN F
  BY <1>7, <1>8, <1>9, EdgeParts DEF Target
<1>11. ~HasNext => \A i \in DOMAIN F[Top[1]] : i < Top[2]
  BY <1>7, <1>8 DEF HasNext
<1> QED BY <1>2, <1>3, <1>5, <1>6, <1>7, <1>10, <1>11

\* An edge starts counting at one.
LEMMA EdgePlaces ==
  ASSUME LoopsTypeOK, cur # 0, NEW e \in Edges
  PROVE  e[2] \in Nat /\ e[2] >= 1
<1>1. IsModule(module) /\ cur \in 1 .. Len(module)
  <2>1. Len(module) \in Nat
    BY LenProperties DEF LoopsTypeOK, IsModule
  <2> QED BY <2>1 DEF LoopsTypeOK
<1> QED BY <1>1, EdgeParts, FunctionType, SMTT(30)

LEMMA EdgePlacesAfter ==
  (LoopsTypeOK /\ cur # 0 => \A e \in Edges : e[2] \in Nat /\ e[2] >= 1)'
<1>1. LoopsTypeOK /\ cur # 0 => \A e \in Edges : e[2] \in Nat /\ e[2] >= 1
  BY EdgePlaces
<1> QED BY <1>1, PTL

\* When the iterator of the top has moved over an edge, and a new block may have
\* been pushed, that edge is the only one that has been looked at besides.
LEMMA ScannedAfterMove ==
  ASSUME LoopsTypeOK, StackIsPath, Walking, HasNext, NEW stack, NEW new,
         new \cap visited = {},
         \A k \in 1 .. Len(visitStack) - 1 : k \in DOMAIN stack /\ stack[k] = visitStack[k],
         Len(visitStack) \in DOMAIN stack,
         stack[Len(visitStack)] = <<Top[1], Top[2] + 1>>,
         \A k \in DOMAIN stack \ (1 .. Len(visitStack)) : stack[k][1] \in new,
         \A n \in new : \E k \in DOMAIN stack : stack[k] = <<n, 1>>
  PROVE  ScannedBy(visited \cup new, stack) = Scanned \cup {Top} /\ Top \notin Scanned
<1> DEFINE len == Len(visitStack)
<1>1. /\ len \in Nat /\ len > 0 /\ DOMAIN visitStack = 1 .. len
      /\ \A k \in 1 .. len : visitStack[k] = <<visitStack[k][1], visitStack[k][2]>> /\
                              visitStack[k][1] \in visited /\ visitStack[k][2] \in Nat
      /\ Top = visitStack[len] /\ Top \in Edges
  BY WalkParts
<1>2. \A j, k \in 1 .. len : visitStack[j][1] = visitStack[k][1] => j = k
  BY <1>1 DEF StackIsPath
<1>3. \A e \in Edges : e[2] \in Nat /\ e[2] >= 1 /\ e = <<e[1], e[2]>>
  BY EdgePlaces, EdgeParts DEF LoopsTypeOK
<1> HIDE DEF len
<1>4. len \in 1 .. len /\ \A k \in 1 .. len : k = len \/ k \in 1 .. len - 1
  BY <1>1
<1>5. Top \notin Scanned
  BY <1>1, <1>3, <1>4 DEF Scanned, ScannedBy
<1>6. ASSUME NEW e \in ScannedBy(visited \cup new, stack) PROVE e \in Scanned \cup {Top}
  <2>1. e \in Edges /\ e[2] \in Nat /\ e[2] >= 1 /\ e = <<e[1], e[2]>>
    BY <1>3 DEF ScannedBy
  <2>2. \A k \in DOMAIN stack : stack[k][1] = e[1] => e[2] < stack[k][2]
    BY DEF ScannedBy
  <2>3. e[1] \notin new
    BY <2>1, <2>2
  <2>4. e[1] \in visited
    BY <2>3 DEF ScannedBy
  <2>5. ASSUME e # Top, NEW k \in 1 .. len, visitStack[k][1] = e[1]
        PROVE  e[2] < visitStack[k][2]
    <3>1. CASE k = len
      <4>1. e[2] < Top[2] + 1 /\ e[2] # Top[2] /\ Top[2] \in Nat
        BY <1>1, <2>1, <2>2, <2>5, <3>1 DEF len
      <4> QED BY <1>1, <2>1, <3>1, <4>1
    <3>2. CASE k \in 1 .. len - 1
      BY <2>2, <2>5, <3>2 DEF len
    <3> QED BY <1>4, <3>1, <3>2
  <2> QED BY <1>1, <2>1, <2>4, <2>5 DEF Scanned, ScannedBy
<1>7. ASSUME NEW e \in Scanned \cup {Top} PROVE e \in ScannedBy(visited \cup new, stack)
  <2>1. e \in Edges /\ e[1] \in visited /\ e[2] \in Nat
    BY <1>1, <1>3, <1>4 DEF Scanned, ScannedBy
  <2>2. ASSUME NEW k \in DOMAIN stack, stack[k][1] = e[1] PROVE e[2] < stack[k][2]
    <3>1. k \in 1 .. len
      BY <2>1, <2>2 DEF len
    <3>2. CASE k = len
      <4>1. stack[k] = <<Top[1], Top[2] + 1>>
        BY <3>2 DEF len
      <4>2. Top[1] = e[1] /\ stack[k][2] = Top[2] + 1 /\ Top[2] \in Nat
        BY <1>1, <1>4, <2>2, <4>1
      <4>3. e \in Scanned => e[2] < Top[2]
        BY <1>1, <1>4, <4>2 DEF Scanned, ScannedBy
      <4>4. e = Top \/ e \in Scanned
        OBVIOUS
      <4> QED BY <2>1, <4>2, <4>3, <4>4
    <3>3. CASE k \in 1 .. len - 1
      <4>1. stack[k] = visitStack[k] /\ k # len
        BY <1>1, <3>3 DEF len
      <4>2. e # Top
        BY <1>1, <1>2, <1>4, <2>2, <3>1, <4>1
      <4> QED BY <1>1, <2>2, <3>1, <4>1, <4>2 DEF Scanned, ScannedBy
    <3> QED BY <1>4, <3>1, <3>2, <3>3
  <2> QED BY <2>1, <2>2 DEF ScannedBy
<1> QED BY <1>5, <1>6, <1>7

LEMMA StackAfterDown ==
  ASSUME LoopsTypeOK, StackIsPath, Down
  PROVE  /\ StackIsPath'
         /\ Scanned' = Scanned \cup {Top} /\ Top \in Edges \ Scanned
         /\ Left' = Left /\ back' = back
         /\ visited' = visited \cup {Target(Top)} /\ Target(Top) \in DOMAIN F \ visited
         /\ Len(visitStack') = Len(visitStack) + 1
         /\ DOMAIN visitStack' = 1 .. Len(visitStack) + 1
         /\ \A k \in 1 .. Len(visitStack) : visitStack'[k][1] = visitStack[k][1]
         /\ \A k \in 1 .. Len(visitStack) - 1 : visitStack'[k][2] = visitStack[k][2]
         /\ visitStack'[Len(visitStack)][2] = Top[2] + 1
         /\ visitStack'[Len(visitStack) + 1][1] = Target(Top)
<1> DEFINE n == Target(Top)    len == Len(visitStack)
<1>1. /\ visited \subseteq DOMAIN F /\ inStack \subseteq visited
      /\ visitStack \in Seq(visited \X Nat)
      /\ len \in Nat /\ len > 0 /\ DOMAIN visitStack = 1 .. len
      /\ \A k \in 1 .. len : visitStack[k] = <<visitStack[k][1], visitStack[k][2]>> /\
                              visitStack[k][1] \in visited /\ visitStack[k][2] \in Nat
      /\ Top = visitStack[len] /\ Top[2] > 0 /\ Top \in Edges /\ n \in DOMAIN F
  BY WalkParts DEF Down
<1>2. /\ n \notin visited /\ visited' = visited \cup {n} /\ inStack' = inStack \cup {n}
      /\ visitStack' = Append(Moved, <<n, 1>>) /\ back' = back
  BY DEF Down
<1>3. /\ Moved \in Seq(visited \X Nat) /\ Len(Moved) = len
      /\ \A k \in 1 .. len - 1 : Moved[k] = visitStack[k]
      /\ Moved[len] = <<Top[1], Top[2] + 1>>
  BY <1>1, StackParts DEF Down
<1> HIDE DEF n, len
<1>4. /\ DOMAIN visitStack' = 1 .. len + 1 /\ Len(visitStack') = len + 1
      /\ \A k \in 1 .. len : visitStack'[k] = Moved[k]
      /\ visitStack'[len + 1] = <<n, 1>>
  <2>1. Moved \in Seq((visited \cup {n}) \X Nat) /\ <<n, 1>> \in (visited \cup {n}) \X Nat
    BY <1>3
  <2> HIDE DEF Moved
  <2>2. /\ Append(Moved, <<n, 1>>) \in Seq((visited \cup {n}) \X Nat)
        /\ Len(Append(Moved, <<n, 1>>)) = len + 1
        /\ \A k \in 1 .. len : Append(Moved, <<n, 1>>)[k] = Moved[k]
        /\ Append(Moved, <<n, 1>>)[len + 1] = <<n, 1>>
    BY <1>3, <2>1, AppendProperties
  <2>3. DOMAIN Append(Moved, <<n, 1>>) = 1 .. len + 1
    BY <2>2, LenProperties
  <2> QED BY <1>2, <2>2, <2>3
<1>5. /\ \A k \in 1 .. len : visitStack'[k][1] = visitStack[k][1]
      /\ \A k \in 1 .. len - 1 : visitStack'[k] = visitStack[k]
      /\ visitStack'[len] = <<Top[1], Top[2] + 1>>
  <2>1. \A k \in 1 .. len - 1 : k \in 1 .. len /\ visitStack'[k] = visitStack[k]
    BY <1>1, <1>3, <1>4
  <2>2. len \in 1 .. len
    BY <1>1
  <2>3. visitStack'[len] = <<Top[1], Top[2] + 1>>
    BY <1>3, <1>4, <2>2
  <2>4. ASSUME NEW k \in 1 .. len PROVE visitStack'[k][1] = visitStack[k][1]
    <3>1. CASE k = len
      BY <1>1, <2>3, <3>1
    <3>2. CASE k \in 1 .. len - 1
      BY <2>1, <3>2
    <3> QED BY <1>1, <3>1, <3>2
  <2> QED BY <2>1, <2>3, <2>4
<1> HIDE DEF Moved
<1>6. Left' = Left
  BY <1>1, <1>2 DEF Left
<1>7. F' = F /\ Edges' = Edges /\ \A e : Target(e)' = Target(e)
  BY SameFunction
<1>8. /\ inStack = {visitStack[k][1] : k \in 1 .. len}
      /\ \A j, k \in 1 .. len : visitStack[j][1] = visitStack[k][1] => j = k
      /\ \A k \in 1 .. len - 1 :
           visitStack[k][2] > 1 /\
           Target(<<visitStack[k][1], visitStack[k][2] - 1>>) = visitStack[k + 1][1]
  BY <1>1 DEF StackIsPath, len
<1>9. StackIsPath'
  <2>1. inStack' = {visitStack'[k][1] : k \in 1 .. len + 1}
    <3>1. \A k \in 1 .. len + 1 : k \in 1 .. len \/ k = len + 1
      BY <1>1
    <3>2. \A k \in 1 .. len : k \in 1 .. len + 1
      BY <1>1
    <3>3. len + 1 \in 1 .. len + 1
      BY <1>1
    <3> QED BY <1>2, <1>4, <1>5, <1>8, <3>1, <3>2, <3>3, SMTT(30)
  <2>2. ASSUME NEW j \in 1 .. len + 1, NEW k \in 1 .. len + 1,
               visitStack'[j][1] = visitStack'[k][1]
        PROVE  j = k
    <3>1. \A i \in 1 .. len : visitStack'[i][1] # n
      BY <1>1, <1>2, <1>5, SMTT(30)
    <3>2. visitStack'[len + 1][1] = n
      BY <1>4
    <3>3. (j \in 1 .. len \/ j = len + 1) /\ (k \in 1 .. len \/ k = len + 1)
      BY <1>1
    <3> QED BY <1>5, <1>8, <2>2, <3>1, <3>2, <3>3
  <2>3. ASSUME NEW k \in 1 .. len
        PROVE  visitStack'[k][2] > 1 /\
               Target(<<visitStack'[k][1], visitStack'[k][2] - 1>>) = visitStack'[k + 1][1]
    <3>1. CASE k = len
      <4>1. visitStack'[k] = <<Top[1], Top[2] + 1>> /\ Top[2] \in Nat
        BY <1>1, <1>5, <3>1
      <4>2. Top[2] > 0
        BY <1>1
      <4>3. <<visitStack'[k][1], visitStack'[k][2] - 1>> = Top
        <5>1. Top = <<Top[1], Top[2]>>
          BY <1>1, <3>1
        <5>2. visitStack'[k][1] = Top[1] /\ visitStack'[k][2] - 1 = Top[2]
          BY <4>1
        <5> QED BY <5>1, <5>2
      <4> QED BY <1>4, <3>1, <4>1, <4>2, <4>3 DEF n
    <3>2. CASE k \in 1 .. len - 1
      <4>1. visitStack'[k] = visitStack[k] /\ k + 1 \in 1 .. len
        BY <1>1, <1>5, <3>2, SMTT(30)
      <4> QED BY <1>5, <1>8, <3>2, <4>1
    <3> QED BY <1>1, <3>1, <3>2
  <2>4. (len + 1) - 1 = len
    BY <1>1
  <2> QED BY <1>4, <1>7, <2>1, <2>2, <2>3, <2>4 DEF StackIsPath
<1>10. Scanned' = Scanned \cup {Top} /\ Top \notin Scanned
  <2>1. \A k \in 1 .. len - 1 : k \in DOMAIN visitStack' /\ visitStack'[k] = visitStack[k]
    BY <1>1, <1>4, <1>5
  <2>2. len \in DOMAIN visitStack' /\ {n} \cap visited = {}
    BY <1>1, <1>2, <1>4
  <2>3. \A k \in DOMAIN visitStack' \ (1 .. len) : visitStack'[k][1] \in {n}
    BY <1>1, <1>4
  <2>4. \A x \in {n} : \E k \in DOMAIN visitStack' : visitStack'[k] = <<x, 1>>
    <3>1. len + 1 \in DOMAIN visitStack'
      BY <1>1, <1>4
    <3> QED BY <1>4, <3>1
  <2>5. ScannedBy(visited \cup {n}, visitStack') = Scanned \cup {Top} /\ Top \notin Scanned
    <3>1. Walking /\ HasNext
      BY DEF Down
    <3>2. \A k \in DOMAIN visitStack' \ (1 .. Len(visitStack)) : visitStack'[k][1] \in {n}
      BY <2>3 DEF len
    <3>3. /\ \A k \in 1 .. Len(visitStack) - 1 :
               k \in DOMAIN visitStack' /\ visitStack'[k] = visitStack[k]
          /\ Len(visitStack) \in DOMAIN visitStack'
          /\ visitStack'[Len(visitStack)] = <<Top[1], Top[2] + 1>>
      BY <1>5, <2>1, <2>2 DEF len
    <3> QED BY <2>2, <2>4, <3>1, <3>2, <3>3, ScannedAfterMove
  <2> QED BY <1>2, <1>7, <2>5 DEF Scanned, ScannedBy
<1>11. visitStack'[len][2] = Top[2] + 1 /\ visitStack'[len + 1][1] = n
  BY <1>4, <1>5
<1>12. \A k \in 1 .. len - 1 : visitStack'[k][2] = visitStack[k][2]
  BY <1>5
<1> QED
  BY <1>1, <1>2, <1>4, <1>5, <1>6, <1>9, <1>10, <1>11, <1>12 DEF len, n

LEMMA StackAfterSkip ==
  ASSUME LoopsTypeOK, StackIsPath, Skip
  PROVE  /\ StackIsPath'
         /\ Scanned' = Scanned \cup {Top} /\ Top \in Edges \ Scanned
         /\ Left' = Left /\ visited' = visited
         /\ DOMAIN visitStack' = 1 .. Len(visitStack) /\ Len(visitStack') = Len(visitStack)
         /\ \A k \in 1 .. Len(visitStack) : visitStack'[k][1] = visitStack[k][1]
         /\ \A k \in 1 .. Len(visitStack) - 1 : visitStack'[k][2] = visitStack[k][2]
<1> DEFINE len == Len(visitStack)
<1>1. /\ visitStack \in Seq(visited \X Nat)
      /\ len \in Nat /\ len > 0 /\ DOMAIN visitStack = 1 .. len
      /\ \A k \in 1 .. len : visitStack[k] = <<visitStack[k][1], visitStack[k][2]>>
      /\ Top = visitStack[len] /\ Top \in Edges
  BY WalkParts DEF Skip
<1>2. visited' = visited /\ inStack' = inStack /\ visitStack' = Moved
  BY DEF Skip
<1>3. /\ DOMAIN Moved = 1 .. len /\ Len(Moved) = len
      /\ \A k \in 1 .. len - 1 : Moved[k] = visitStack[k]
      /\ Moved[len] = <<Top[1], Top[2] + 1>>
  BY <1>1, StackParts DEF Skip
<1> HIDE DEF len, Moved
<1>4. len \in 1 .. len /\ \A k \in 1 .. len : k = len \/ k \in 1 .. len - 1
  BY <1>1
<1>5. \A k \in 1 .. len : Moved[k][1] = visitStack[k][1]
  BY <1>1, <1>3, <1>4
<1>6. \A k \in 1 .. len - 1 : Moved[k][2] = visitStack[k][2]
  BY <1>3
<1>7. F' = F /\ Edges' = Edges /\ \A e : Target(e)' = Target(e)
  BY SameFunction
<1>8. StackIsPath'
  <2>1. /\ inStack = {visitStack[k][1] : k \in 1 .. len}
        /\ \A j, k \in 1 .. len : visitStack[j][1] = visitStack[k][1] => j = k
        /\ \A k \in 1 .. len - 1 :
             visitStack[k][2] > 1 /\
             Target(<<visitStack[k][1], visitStack[k][2] - 1>>) = visitStack[k + 1][1]
    BY <1>1 DEF StackIsPath, len
  <2>2. inStack = {Moved[k][1] : k \in 1 .. len}
    BY <1>5, <2>1
  <2>3. \A j, k \in 1 .. len : Moved[j][1] = Moved[k][1] => j = k
    BY <1>5, <2>1
  <2>4. \A k \in 1 .. len - 1 : k \in 1 .. len /\ k + 1 \in 1 .. len
    BY <1>1
  <2>5. \A k \in 1 .. len - 1 :
          Moved[k][2] > 1 /\ Target(<<Moved[k][1], Moved[k][2] - 1>>) = Moved[k + 1][1]
    BY <1>5, <1>6, <2>1, <2>4
  <2>6. /\ DOMAIN visitStack' = 1 .. len /\ Len(visitStack') = len
        /\ inStack' = {visitStack'[k][1] : k \in 1 .. len}
    BY <1>2, <1>3, <2>2
  <2>7. \A j, k \in 1 .. len : visitStack'[j][1] = visitStack'[k][1] => j = k
    BY <1>2, <2>3
  <2>8. \A k \in 1 .. len - 1 :
          visitStack'[k][2] > 1 /\
          Target(<<visitStack'[k][1], visitStack'[k][2] - 1>>) = visitStack'[k + 1][1]
    BY <1>2, <2>5
  <2> QED BY <1>7, <2>6, <2>7, <2>8 DEF StackIsPath
<1>9. Scanned' = Scanned \cup {Top} /\ Top \notin Scanned
  <2>1. Walking /\ HasNext
    BY DEF Skip
  <2>2. \A k \in DOMAIN Moved \ (1 .. Len(visitStack)) : Moved[k][1] \in {}
    BY <1>3 DEF len
  <2>3. /\ \A k \in 1 .. Len(visitStack) - 1 : k \in DOMAIN Moved /\ Moved[k] = visitStack[k]
        /\ Len(visitStack) \in DOMAIN Moved
        /\ Moved[Len(visitStack)] = <<Top[1], Top[2] + 1>>
    <3>1. \A k \in 1 .. len - 1 : k \in 1 .. len
      BY <1>1
    <3>2. \A k \in 1 .. len - 1 : k \in DOMAIN Moved /\ Moved[k] = visitStack[k]
      BY <1>3, <3>1
    <3> QED BY <1>3, <1>4, <3>2 DEF len
  <2>4. \A n \in {} : \E k \in DOMAIN Moved : Moved[k] = <<n, 1>>
    OBVIOUS
  <2>5. {} \cap visited = {} /\ visited \cup {} = visited
    OBVIOUS
  <2>6. ScannedBy(visited, Moved) = Scanned \cup {Top} /\ Top \notin Scanned
    BY <2>1, <2>2, <2>3, <2>4, <2>5, ScannedAfterMove
  <2> QED BY <1>2, <1>7, <2>6 DEF Scanned, ScannedBy
<1> QED BY <1>1, <1>2, <1>3, <1>5, <1>6, <1>8, <1>9 DEF len, Left

LEMMA StackAfterUp ==
  ASSUME LoopsTypeOK, StackIsPath, Up
  PROVE  /\ StackIsPath'
         /\ Scanned' = Scanned
         /\ Left' = Left \cup {Top[1]} /\ Top[1] \in inStack
         /\ visited' = visited /\ back' = back
         /\ BackEdgesInThisFunction' = BackEdgesInThisFunction
         /\ DOMAIN visitStack' = 1 .. Len(visitStack) - 1
         /\ Len(visitStack') = Len(visitStack) - 1
         /\ \A k \in 1 .. Len(visitStack) - 1 : visitStack'[k] = visitStack[k]
<1> DEFINE len == Len(visitStack)
<1>1. /\ visitStack \in Seq(visited \X Nat) /\ inStack \subseteq visited
      /\ len \in Nat /\ len > 0 /\ DOMAIN visitStack = 1 .. len
      /\ \A k \in 1 .. len : visitStack[k] = <<visitStack[k][1], visitStack[k][2]>>
      /\ Top = visitStack[len]
      /\ \A i \in DOMAIN F[Top[1]] : i < Top[2]
  BY WalkParts DEF Up
<1>2. /\ visited' = visited /\ inStack' = inStack \ {Top[1]} /\ visitStack' = Rest
      /\ back' = back /\ BackEdgesInThisFunction' = BackEdgesInThisFunction
  BY DEF Up
<1>3. /\ DOMAIN Rest = 1 .. len - 1 /\ Len(Rest) = len - 1
      /\ \A k \in 1 .. len - 1 : Rest[k] = visitStack[k]
  BY <1>1, StackParts DEF Up
<1> HIDE DEF len, Rest
<1>4. len \in 1 .. len /\ \A k \in 1 .. len : k = len \/ k \in 1 .. len - 1
  BY <1>1
<1>5. \A k \in 1 .. len - 1 : k \in 1 .. len /\ k # len
  BY <1>1
<1>6. F' = F /\ Edges' = Edges /\ \A e : Target(e)' = Target(e)
  BY SameFunction
<1>7. /\ inStack = {visitStack[k][1] : k \in 1 .. len}
      /\ \A j, k \in 1 .. len : visitStack[j][1] = visitStack[k][1] => j = k
      /\ \A k \in 1 .. len - 1 :
           visitStack[k][2] > 1 /\
           Target(<<visitStack[k][1], visitStack[k][2] - 1>>) = visitStack[k + 1][1]
  BY <1>1 DEF StackIsPath, len
<1>8. StackIsPath'
  <2>1. inStack \ {Top[1]} = {Rest[k][1] : k \in 1 .. len - 1}
    BY <1>1, <1>3, <1>4, <1>5, <1>7
  <2>2. \A j, k \in 1 .. len - 1 : Rest[j][1] = Rest[k][1] => j = k
    BY <1>3, <1>5, <1>7
  <2>3. \A k \in 1 .. (len - 1) - 1 : k \in 1 .. len - 1 /\ k + 1 \in 1 .. len - 1
    BY <1>1
  <2>4. \A k \in 1 .. (len - 1) - 1 :
          Rest[k][2] > 1 /\ Target(<<Rest[k][1], Rest[k][2] - 1>>) = Rest[k + 1][1]
    BY <1>3, <1>7, <2>3
  <2>5. /\ DOMAIN visitStack' = 1 .. len - 1 /\ Len(visitStack') = len - 1
        /\ inStack' = {visitStack'[k][1] : k \in 1 .. len - 1}
    BY <1>2, <1>3, <2>1
  <2>6. \A j, k \in 1 .. len - 1 : visitStack'[j][1] = visitStack'[k][1] => j = k
    BY <1>2, <2>2
  <2>7. \A k \in 1 .. (len - 1) - 1 :
          visitStack'[k][2] > 1 /\
          Target(<<visitStack'[k][1], visitStack'[k][2] - 1>>) = visitStack'[k + 1][1]
    BY <1>2, <2>4
  <2> QED BY <1>6, <2>5, <2>6, <2>7 DEF StackIsPath
<1>9. Scanned' = Scanned
  <2>1. ASSUME NEW e \in Edges
        PROVE  (\A k \in 1 .. len - 1 : Rest[k][1] = e[1] => e[2] < Rest[k][2])
                 <=> (\A k \in 1 .. len : visitStack[k][1] = e[1] => e[2] < visitStack[k][2])
    <3>1. visitStack[len][1] = e[1] => e[2] < visitStack[len][2]
      BY <1>1, EdgeParts
    <3> QED BY <1>3, <1>4, <1>5, <3>1
  <2> QED BY <1>1, <1>2, <1>3, <1>6, <2>1 DEF Scanned, ScannedBy
<1>10. Top[1] \in inStack
  BY <1>1, <1>4, <1>7
<1> QED BY <1>1, <1>2, <1>3, <1>8, <1>9, <1>10 DEF len, Left

(***************************************************************************)
(* The invariant of the walk.  Forward has no cycle, which is kept as: each *)
(* edge of it has a closed set its target is in and its block is not.      *)
(***************************************************************************)
Apart(es, e) ==
  \E S \in SUBSET DOMAIN F : Closed(es, S) /\ Target(e) \in S /\ e[1] \notin S

\* The walk went down over e and is still below it.
Open(e) == \E k \in 1 .. Len(visitStack) - 1 : e = <<visitStack[k][1], visitStack[k][2] - 1>>

Counted ==
  /\ back \subseteq Scanned
  /\ IsFiniteSet(back) /\ BackEdgesInThisFunction = Cardinality(back)
  /\ \A e \in back : Reaches(Edges, Target(e), e[1])

Reached ==
  /\ visited # {} => 1 \in visited
  /\ \A e \in Scanned : Target(e) \in visited
  /\ \A v \in visited : Reaches(Forward, 1, v)
  /\ \A j, k \in 1 .. Len(visitStack) :
       j <= k => Reaches(Edges, visitStack[j][1], visitStack[k][1])

Ordered ==
  /\ \A e \in Forward : Target(e) \in Left \/ Open(e)
  /\ \A e \in Forward : Apart(Forward, e)

WalkInv == cur # 0 => Counted /\ Reached /\ Ordered

\* More edges reach more.
LEMMA ReachesMore ==
  ASSUME NEW es, NEW more, es \subseteq more, NEW a, NEW b, Reaches(es, a, b)
  PROVE  Reaches(more, a, b)
BY DEF Reaches, Closed

LEMMA ReachesSelf == \A es, a : Reaches(es, a, a)
BY DEF Reaches

LEMMA ReachesOver ==
  ASSUME NEW es, NEW a, NEW e \in es, Reaches(es, a, e[1])
  PROVE  Reaches(es, a, Target(e))
BY DEF Reaches, Closed

\* An edge into a closed set from outside it closes no cycle.
LEMMA StaysApart ==
  ASSUME NEW N, NEW d, NEW D \in SUBSET DOMAIN F,
         Closed(N, D), Target(d) \in D, d[1] \notin D,
         \A e \in N : Apart(N, e)
  PROVE  \A e \in N \cup {d} : Apart(N \cup {d}, e)
<1>1. Apart(N \cup {d}, d)
  BY DEF Apart, Closed
<1>2. ASSUME NEW e \in N PROVE Apart(N \cup {d}, e)
  <2>1. PICK S \in SUBSET DOMAIN F : Closed(N, S) /\ Target(e) \in S /\ e[1] \notin S
    BY DEF Apart
  <2>2. CASE d[1] \notin S
    BY <2>1, <2>2 DEF Apart, Closed
  <2>3. CASE e[1] \in D
    <3>1. /\ S \cap D \in SUBSET DOMAIN F /\ Closed(N \cup {d}, S \cap D)
          /\ Target(e) \in S \cap D /\ e[1] \notin S \cap D
      BY <2>1, <2>3 DEF Closed
    <3> QED BY <3>1 DEF Apart
  <2>4. CASE e[1] \notin D
    <3>1. /\ S \cup D \in SUBSET DOMAIN F /\ Closed(N \cup {d}, S \cup D)
          /\ Target(e) \in S \cup D /\ e[1] \notin S \cup D
      BY <2>1, <2>4 DEF Closed
    <3> QED BY <3>1 DEF Apart
  <2> QED BY <2>2, <2>3, <2>4
<1> QED BY <1>1, <1>2

\* The blocks the walk has left are closed under the edges it did not count.
LEMMA LeftClosed ==
  ASSUME LoopsTypeOK, StackIsPath, Ordered, cur # 0
  PROVE  Closed(Forward, Left) /\ Left \in SUBSET DOMAIN F
<1>1. ASSUME NEW e \in Forward, e[1] \in Left PROVE Target(e) \in Left
  <2>1. ASSUME Open(e) PROVE FALSE
    <3>1. PICK k \in 1 .. Len(visitStack) - 1 :
            e = <<visitStack[k][1], visitStack[k][2] - 1>>
      BY <2>1 DEF Open
    <3>2. e[1] = visitStack[k][1]
      BY <3>1
    <3>3. k \in DOMAIN visitStack
      <4>1. Len(visitStack) \in Nat /\ DOMAIN visitStack = 1 .. Len(visitStack)
        BY LenProperties DEF LoopsTypeOK
      <4> QED BY <3>1, <4>1
    <3> QED BY <1>1, <3>2, <3>3 DEF Left, StackIsPath
  <2> QED BY <1>1, <2>1 DEF Ordered
<1> QED BY <1>1 DEF Closed, Left, LoopsTypeOK

\* What closed sets show stays, within a function.
LEMMA SameReach ==
  ASSUME LoopsTypeOK, Down \/ Skip \/ Up
  PROVE  /\ \A es, a, b : Reaches(es, a, b)' <=> Reaches(es, a, b)
         /\ \A es, e : Apart(es, e)' <=> Apart(es, e)
<1>1. F' = F /\ \A e : Target(e)' = Target(e)
  BY SameFunction
<1>2. \A es, S : Closed(es, S)' <=> Closed(es, S)
  BY <1>1 DEF Closed
<1> QED BY <1>1, <1>2 DEF Reaches, Apart

LEMMA DownKeeps ==
  ASSUME LoopsTypeOK, StackIsPath, WalkInv, Down
  PROVE  WalkInv'
<1> DEFINE n == Target(Top)    len == Len(visitStack)
<1>1. /\ Scanned' = Scanned \cup {Top} /\ Top \in Edges \ Scanned
      /\ Left' = Left /\ back' = back
      /\ visited' = visited \cup {n} /\ n \in DOMAIN F \ visited
      /\ Len(visitStack') = len + 1
      /\ DOMAIN visitStack' = 1 .. len + 1
      /\ \A k \in 1 .. len : visitStack'[k][1] = visitStack[k][1]
      /\ \A k \in 1 .. len - 1 : visitStack'[k][2] = visitStack[k][2]
      /\ visitStack'[len][2] = Top[2] + 1
      /\ visitStack'[len + 1][1] = n
  BY StackAfterDown
<1>2. Counted /\ Reached /\ Ordered /\ cur # 0
  BY SameFunction DEF WalkInv
<1>3. /\ F' = F /\ Edges' = Edges /\ cur' = cur
      /\ \A e : Target(e)' = Target(e)
      /\ \A es, a, b : Reaches(es, a, b)' <=> Reaches(es, a, b)
      /\ \A es, e : Apart(es, e)' <=> Apart(es, e)
  BY SameFunction, SameReach
<1>4. /\ len \in Nat /\ len > 0 /\ Top = visitStack[len] /\ Top[1] \in visited
      /\ Top = <<Top[1], Top[2]>> /\ Top[2] \in Nat
      /\ visited \subseteq DOMAIN F /\ n \notin visited
  <2>1. Walking
    BY DEF Down
  <2>2. len \in 1 .. len
    BY <2>1, WalkParts
  <2> QED BY <1>1, <2>1, <2>2, WalkParts
<1> HIDE DEF n, len
<1>5. back \subseteq Scanned /\ Forward' = Forward \cup {Top}
  BY <1>1, <1>2 DEF Counted, Forward
<1>6. Counted'
  <2>1. BackEdgesInThisFunction' = BackEdgesInThisFunction
    BY DEF Down
  <2> QED BY <1>1, <1>2, <1>3, <2>1 DEF Counted
<1>7. Reached'
  <2>1. 1 \in visited'
    BY <1>1, <1>2, <1>4 DEF Reached
  <2>2. \A e \in Scanned' : Target(e) \in visited'
    BY <1>1, <1>2 DEF Reached, n
  <2>3. \A v \in visited' : Reaches(Forward', 1, v)
    <3>1. \A v \in visited : Reaches(Forward', 1, v)
      BY <1>2, <1>5, ReachesMore DEF Reached
    <3>2. Reaches(Forward', 1, n)
      BY <1>4, <1>5, <3>1, ReachesOver DEF n
    <3> QED BY <1>1, <3>1, <3>2
  <2>4. ASSUME NEW j \in 1 .. len + 1, NEW k \in 1 .. len + 1, j <= k
        PROVE  Reaches(Edges, visitStack'[j][1], visitStack'[k][1])
    <3>1. /\ len \in 1 .. len
          /\ \/ k \in 1 .. len
             \/ k = len + 1 /\ j \in 1 .. len
             \/ k = len + 1 /\ j = len + 1
      BY <1>4, <2>4
    <3>2. CASE k \in 1 .. len
      <4>1. j \in 1 .. len
        BY <1>4, <2>4, <3>2
      <4> QED BY <1>1, <1>2, <2>4, <3>2, <4>1 DEF Reached, len
    <3>3. CASE k = len + 1 /\ j \in 1 .. len
      <4>1. Reaches(Edges, visitStack[j][1], Top[1])
        <5>1. j <= len
          BY <1>4, <3>3
        <5> QED BY <1>2, <1>4, <3>1, <3>3, <5>1 DEF Reached, len
      <4>2. Reaches(Edges, visitStack[j][1], n)
        BY <1>1, <4>1, ReachesOver DEF n
      <4> QED BY <1>1, <3>3, <4>2
    <3>4. CASE k = len + 1 /\ j = len + 1
      BY <3>4, ReachesSelf
    <3> QED BY <3>1, <3>2, <3>3, <3>4
  <2> QED BY <1>1, <1>3, <2>1, <2>2, <2>3, <2>4 DEF Reached
<1>8. Ordered'
  <2>1. ASSUME NEW e \in Forward' PROVE Target(e) \in Left' \/ Open(e)'
    <3>1. CASE e = Top
      <4>1. visitStack'[len][1] = Top[1] /\ visitStack'[len][2] - 1 = Top[2]
        <5>1. len \in 1 .. len
          BY <1>4
        <5> QED BY <1>1, <1>4, <5>1
      <4>2. len \in 1 .. (len + 1) - 1
        BY <1>4
      <4>3. e = <<visitStack'[len][1], visitStack'[len][2] - 1>>
        BY <1>4, <3>1, <4>1
      <4> QED BY <1>1, <4>2, <4>3 DEF Open
    <3>2. CASE e \in Forward
      <4>1. CASE Open(e)
        <5>1. PICK k \in 1 .. len - 1 : e = <<visitStack[k][1], visitStack[k][2] - 1>>
          BY <4>1 DEF Open, len
        <5>2. k \in 1 .. len /\ k \in 1 .. (len + 1) - 1
          BY <1>4, <5>1
        <5>3. e = <<visitStack'[k][1], visitStack'[k][2] - 1>>
          BY <1>1, <5>1, <5>2
        <5> QED BY <1>1, <5>2, <5>3 DEF Open
      <4> QED BY <1>1, <1>2, <3>2, <4>1 DEF Ordered
    <3> QED BY <1>5, <3>1, <3>2
  <2>2. \A e \in Forward' : Apart(Forward', e)
    <3>1. Closed(Forward, {n})
      BY <1>1 DEF Closed, Forward, Scanned, ScannedBy
    <3>2. {n} \in SUBSET DOMAIN F /\ Target(Top) \in {n} /\ Top[1] \notin {n}
      BY <1>1, <1>4 DEF n
    <3>3. \A e \in Forward : Apart(Forward, e)
      BY <1>2 DEF Ordered
    <3>4. \A e \in Forward \cup {Top} : Apart(Forward \cup {Top}, e)
      BY <3>1, <3>2, <3>3, StaysApart
    <3> QED BY <1>5, <3>4
  <2> QED BY <1>3, <2>1, <2>2 DEF Ordered
<1> QED BY <1>6, <1>7, <1>8 DEF WalkInv

LEMMA SkipKeeps ==
  ASSUME LoopsTypeOK, StackIsPath, WalkInv, Skip
  PROVE  WalkInv'
<1> DEFINE len == Len(visitStack)
<1>1. /\ Scanned' = Scanned \cup {Top} /\ Top \in Edges \ Scanned
      /\ Left' = Left /\ visited' = visited
      /\ DOMAIN visitStack' = 1 .. len /\ Len(visitStack') = len
      /\ \A k \in 1 .. len : visitStack'[k][1] = visitStack[k][1]
      /\ \A k \in 1 .. len - 1 : visitStack'[k][2] = visitStack[k][2]
  BY StackAfterSkip
<1>2. Counted /\ Reached /\ Ordered /\ cur # 0
  BY SameFunction DEF WalkInv
<1>3. /\ F' = F /\ Edges' = Edges /\ cur' = cur
      /\ \A e : Target(e)' = Target(e)
      /\ \A es, a, b : Reaches(es, a, b)' <=> Reaches(es, a, b)
      /\ \A es, e : Apart(es, e)' <=> Apart(es, e)
  BY SameFunction, SameReach
<1>4. /\ len \in Nat /\ len > 0 /\ Top = visitStack[len] /\ len \in DOMAIN visitStack
      /\ DOMAIN visitStack = 1 .. len
      /\ visited \subseteq DOMAIN F
  BY WalkParts DEF Skip
<1>5. Target(Top) \in visited /\ Top[1] \in inStack
  BY <1>4 DEF Skip, StackIsPath
<1>6. /\ Target(Top) \in inStack =>
           /\ back' = back \cup {Top}
           /\ BackEdgesInThisFunction' = BackEdgesInThisFunction + 1
      /\ Target(Top) \notin inStack =>
           back' = back /\ BackEdgesInThisFunction' = BackEdgesInThisFunction
  BY DEF Skip, CountBack
<1> HIDE DEF len
<1>7. /\ Target(Top) \in inStack => Forward' = Forward
      /\ Target(Top) \notin inStack => Forward' = Forward \cup {Top}
  BY <1>1, <1>2, <1>6 DEF Counted, Forward
<1>8. Counted'
  <2>1. CASE Target(Top) \in inStack
    <3>1. back' = back \cup {Top} /\ Top \notin back /\ IsFiniteSet(back)
      BY <1>1, <1>2, <1>6, <2>1 DEF Counted
    <3>2. IsFiniteSet(back') /\ Cardinality(back') = Cardinality(back) + 1
      BY <3>1, FS_AddElement
    <3>3. Reaches(Edges, Target(Top), Top[1])
      <4>1. PICK j \in DOMAIN visitStack : visitStack[j][1] = Target(Top)
        BY <2>1 DEF StackIsPath
      <4>2. j \in 1 .. len /\ j <= len /\ len \in 1 .. len
        BY <1>4, <4>1
      <4> QED BY <1>2, <1>4, <4>1, <4>2 DEF Reached, len
    <3> QED BY <1>1, <1>2, <1>3, <1>6, <2>1, <3>1, <3>2, <3>3 DEF Counted
  <2>2. CASE Target(Top) \notin inStack
    BY <1>1, <1>2, <1>3, <1>6, <2>2 DEF Counted
  <2> QED BY <2>1, <2>2
<1>9. Reached'
  <2>1. \A v \in visited : Reaches(Forward', 1, v)
    BY <1>2, <1>7, ReachesMore DEF Reached
  <2>2. \A e \in Scanned' : Target(e) \in visited
    BY <1>1, <1>2, <1>5 DEF Reached
  <2>3. \A j, k \in 1 .. len :
          j <= k => Reaches(Edges, visitStack'[j][1], visitStack'[k][1])
    BY <1>1, <1>2 DEF Reached, len
  <2> QED BY <1>1, <1>2, <1>3, <2>1, <2>2, <2>3 DEF Reached
<1>10. Ordered'
  <2>1. \A e : Open(e)' <=> Open(e)
    <3>1. \A k \in 1 .. len - 1 : k \in 1 .. len
      BY <1>4
    <3>2. \A k \in 1 .. len - 1 : <<visitStack'[k][1], visitStack'[k][2] - 1>>
                                    = <<visitStack[k][1], visitStack[k][2] - 1>>
      BY <1>1, <3>1
    <3> QED BY <1>1, <3>2 DEF Open, len
  <2>2. CASE Target(Top) \in inStack
    <3>1. Forward' = Forward
      BY <1>7, <2>2
    <3> QED BY <1>1, <1>2, <1>3, <2>1, <3>1 DEF Ordered
  <2>3. CASE Target(Top) \notin inStack
    <3>1. Target(Top) \in Left /\ Top[1] \notin Left
      BY <1>5, <2>3 DEF Left
    <3>2. Closed(Forward, Left) /\ Left \in SUBSET DOMAIN F
      BY <1>2, LeftClosed
    <3>3. \A e \in Forward : Apart(Forward, e)
      BY <1>2 DEF Ordered
    <3>4. \A e \in Forward \cup {Top} : Apart(Forward \cup {Top}, e)
      BY <3>1, <3>2, <3>3, StaysApart
    <3>5. Forward' = Forward \cup {Top}
      BY <1>7, <2>3
    <3>6. \A e \in Forward \cup {Top} : Target(e) \in Left \/ Open(e)
      BY <1>2, <3>1 DEF Ordered
    <3> QED BY <1>1, <1>3, <2>1, <3>4, <3>5, <3>6 DEF Ordered
  <2> QED BY <2>2, <2>3
<1> QED BY <1>8, <1>9, <1>10 DEF WalkInv

LEMMA UpKeeps ==
  ASSUME LoopsTypeOK, StackIsPath, WalkInv, Up
  PROVE  WalkInv'
<1> DEFINE len == Len(visitStack)
<1>1. /\ Scanned' = Scanned
      /\ Left' = Left \cup {Top[1]} /\ Top[1] \in inStack
      /\ visited' = visited /\ back' = back
      /\ BackEdgesInThisFunction' = BackEdgesInThisFunction
      /\ DOMAIN visitStack' = 1 .. len - 1
      /\ Len(visitStack') = len - 1
      /\ \A k \in 1 .. len - 1 : visitStack'[k] = visitStack[k]
  BY StackAfterUp
<1>2. Counted /\ Reached /\ Ordered /\ cur # 0
  BY SameFunction DEF WalkInv
<1>3. /\ F' = F /\ Edges' = Edges /\ cur' = cur
      /\ \A e : Target(e)' = Target(e)
      /\ \A es, a, b : Reaches(es, a, b)' <=> Reaches(es, a, b)
      /\ \A es, e : Apart(es, e)' <=> Apart(es, e)
  BY SameFunction, SameReach
<1>4. len \in Nat /\ len > 0 /\ Top = visitStack[len]
  BY WalkParts DEF Up
<1>5. \A k \in 1 .. len - 1 : Target(<<visitStack[k][1], visitStack[k][2] - 1>>) = visitStack[k + 1][1]
  BY DEF StackIsPath, len
<1> HIDE DEF len
<1>6. Forward' = Forward
  BY <1>1 DEF Forward
<1>7. Counted'
  BY <1>1, <1>2, <1>3 DEF Counted
<1>8. Reached'
  <2>1. \A k \in 1 .. len - 1 : k \in 1 .. len
    BY <1>4
  <2>2. \A j, k \in 1 .. len - 1 :
          j <= k => Reaches(Edges, visitStack'[j][1], visitStack'[k][1])
    BY <1>1, <1>2, <2>1 DEF Reached, len
  <2> QED BY <1>1, <1>2, <1>3, <1>6, <2>2 DEF Reached
<1>9. Ordered'
  <2>1. ASSUME NEW e \in Forward PROVE Target(e) \in Left' \/ Open(e)'
    <3>1. CASE Open(e)
      <4>1. PICK k \in 1 .. len - 1 : e = <<visitStack[k][1], visitStack[k][2] - 1>>
        BY <3>1 DEF Open, len
      <4>2. CASE k = len - 1
        <5>1. Target(e) = visitStack[k + 1][1] /\ k + 1 = len
          BY <1>4, <1>5, <4>1, <4>2
        <5> QED BY <1>1, <1>4, <5>1
      <4>3. CASE k \in 1 .. (len - 1) - 1
        <5>1. e = <<visitStack'[k][1], visitStack'[k][2] - 1>>
          BY <1>1, <4>1
        <5> QED BY <1>1, <4>3, <5>1 DEF Open
      <4>4. k = len - 1 \/ k \in 1 .. (len - 1) - 1
        BY <1>4, <4>1
      <4> QED BY <4>2, <4>3, <4>4
    <3> QED BY <1>1, <1>2, <3>1 DEF Ordered
  <2> QED BY <1>2, <1>3, <1>6, <2>1 DEF Ordered
<1> QED BY <1>7, <1>8, <1>9 DEF WalkInv

LEMMA NextFunctionStarts ==
  ASSUME LoopsTypeOK, StackIsPath, WalkInv, RunOnFunction
  PROVE  StackIsPath' /\ WalkInv'
<1>1. /\ back' = {} /\ BackEdgesInThisFunction' = 0
      /\ \/ visited' = {} /\ visitStack' = << >> /\ inStack' = {}
         \/ visited' = {1} /\ visitStack' = <<<<1, 1>>>> /\ inStack' = {1}
  BY DEF RunOnFunction
<1>2. cur' # 0 /\ LoopsTypeOK'
  <2>1. LoopsTypeOK' /\ cur' = cur + 1 /\ Len(module) \in Nat
    BY StepLoopsType, LenProperties DEF Next, RunOnFunction, LoopsTypeOK, IsModule
  <2> QED BY <2>1 DEF LoopsTypeOK
<1>3. /\ Len(visitStack') \in {0, 1} /\ DOMAIN visitStack' = 1 .. Len(visitStack')
      /\ Len(visitStack') = 0 => visited' = {} /\ inStack' = {}
      /\ Len(visitStack') = 1 => visited' = {1} /\ inStack' = {1} /\ visitStack'[1] = <<1, 1>>
  BY <1>1
<1>4. StackIsPath'
  <2>1. \/ DOMAIN visitStack' = {} /\ inStack' = {}
        \/ DOMAIN visitStack' = {1} /\ inStack' = {visitStack'[1][1]}
    BY <1>3
  <2>2. 1 .. Len(visitStack') - 1 = {}
    BY <1>3
  <2> QED BY <2>1, <2>2 DEF StackIsPath
<1>5. Scanned' = {} /\ Forward' = {}
  <2>1. ASSUME NEW e \in Edges', e[1] \in visited',
               \A k \in DOMAIN visitStack' : visitStack'[k][1] = e[1] => e[2] < visitStack'[k][2]
        PROVE  FALSE
    <3>1. e[2] \in Nat /\ e[2] >= 1
      BY <1>2, <2>1, EdgePlacesAfter
    <3>2. e[1] = 1 /\ 1 \in DOMAIN visitStack' /\ visitStack'[1] = <<1, 1>>
      BY <1>3, <2>1
    <3> QED BY <2>1, <3>1, <3>2
  <2> QED BY <1>1, <2>1 DEF Scanned, ScannedBy, Forward
<1>6. Counted'
  <2>1. IsFiniteSet({}) /\ Cardinality({}) = 0
    BY FS_EmptySet
  <2> QED BY <1>1, <1>5, <2>1 DEF Counted
<1>7. Reached'
  <2>1. \A v \in visited' : v = 1
    BY <1>1
  <2>2. \A j, k \in 1 .. Len(visitStack') : j = k
    BY <1>3
  <2>3. Reaches(Forward, 1, 1)' /\ \A a : Reaches(Edges, a, a)'
    BY DEF Reaches
  <2> QED BY <1>1, <1>5, <2>1, <2>2, <2>3 DEF Reached
<1>8. Ordered'
  BY <1>5 DEF Ordered
<1> QED BY <1>4, <1>6, <1>7, <1>8 DEF WalkInv

LEMMA InitWalk == Init => StackIsPath /\ WalkInv
<1> SUFFICES ASSUME Init PROVE StackIsPath
  BY DEF Init, WalkInv
<1>1. visitStack = << >> /\ inStack = {} /\ DOMAIN << >> = {} /\ 1 .. Len(<< >>) - 1 = {}
  BY DEF Init
<1> QED BY <1>1 DEF StackIsPath

LEMMA StepWalk ==
  LoopsTypeOK /\ StackIsPath /\ WalkInv /\ [Next]_vars => StackIsPath' /\ WalkInv'
<1> SUFFICES ASSUME LoopsTypeOK, StackIsPath, WalkInv, [Next]_vars
             PROVE  StackIsPath' /\ WalkInv'
  OBVIOUS
<1>1. CASE RunOnFunction
  BY <1>1, NextFunctionStarts
<1>2. CASE Down
  BY <1>2, StackAfterDown, DownKeeps
<1>3. CASE Skip
  BY <1>3, StackAfterSkip, SkipKeeps
<1>4. CASE Up
  BY <1>4, StackAfterUp, UpKeeps
<1>5. CASE UNCHANGED vars
  <2>1. /\ module' = module /\ cur' = cur /\ visited' = visited /\ visitStack' = visitStack
        /\ inStack' = inStack /\ back' = back
        /\ BackEdgesInThisFunction' = BackEdgesInThisFunction
    BY <1>5 DEF vars, walk
  <2>2. StackIsPath'
    BY <2>1 DEF StackIsPath, Edges, Target, F
  <2>3. Edges' = Edges /\ Scanned' = Scanned /\ Forward' = Forward /\ Left' = Left /\ F' = F
    BY <2>1 DEF Edges, Scanned, ScannedBy, Forward, Left, F
  <2>4. /\ \A e : Target(e)' = Target(e)
        /\ \A es, a, b : Reaches(es, a, b)' <=> Reaches(es, a, b)
        /\ \A es, e : Apart(es, e)' <=> Apart(es, e)
        /\ \A e : Open(e)' <=> Open(e)
    <3>1. \A e : Target(e)' = Target(e)
      BY <2>3 DEF Target
    <3>2. \A es, S : Closed(es, S)' <=> Closed(es, S)
      BY <3>1 DEF Closed
    <3> QED BY <2>1, <2>3, <3>1, <3>2 DEF Reaches, Apart, Open
  <2>5. ASSUME cur # 0 PROVE (Counted /\ Reached /\ Ordered)'
    <3>1. Counted /\ Reached /\ Ordered
      BY <2>5 DEF WalkInv
    <3> QED BY <2>1, <2>3, <2>4, <3>1 DEF Counted, Reached, Ordered
  <2> QED BY <2>1, <2>2, <2>5 DEF WalkInv
<1> QED BY <1>1, <1>2, <1>3, <1>4, <1>5 DEF Next

LEMMA WalkInvariant == Spec => [](LoopsTypeOK /\ StackIsPath /\ WalkInv)
<1>1. Init => LoopsTypeOK /\ StackIsPath /\ WalkInv
  BY InitLoopsType, InitWalk
<1>2. LoopsTypeOK /\ StackIsPath /\ WalkInv /\ [Next]_vars
        => (LoopsTypeOK /\ StackIsPath /\ WalkInv)'
  BY StepLoopsType, StepWalk
<1> QED BY <1>1, <1>2, PTL DEF Spec

\* InStack has the blocks of VisitStack and nothing else, each is there once, and
\* the edges the walk went down over lead from one to the next: an edge to a block
\* of InStack closes a cycle (ProjectLoops.cpp:124-154).
THEOREM StackStaysPath == Spec => []StackIsPath
BY WalkInvariant, PTL

(***************************************************************************)
(* The end of a walk.                                                      *)
(***************************************************************************)
LEMMA EndOfWalkParts ==
  ASSUME LoopsTypeOK, StackIsPath, WalkInv, Walked
  PROVE  /\ Counted /\ Reached /\ Ordered /\ visited \subseteq DOMAIN F
         /\ Live = Scanned /\ \A e \in Live : e[1] \in visited
<1>1. /\ Counted /\ Reached /\ Ordered /\ visited \subseteq DOMAIN F /\ visited # {}
      /\ visitStack = << >>
  BY DEF Walked, WalkInv, LoopsTypeOK, Walking
<1>2. DOMAIN visitStack = {}
  BY <1>1
<1>3. Scanned = {e \in Edges : e[1] \in visited}
  BY <1>2 DEF Scanned, ScannedBy
<1>4. ASSUME NEW e \in Live PROVE e[1] \in visited
  <2>1. 1 \in visited /\ Closed(Edges, visited)
    BY <1>1, <1>3 DEF Reached, Closed
  <2>2. Reaches(Edges, 1, e[1])
    BY DEF Live
  <2> QED BY <1>1, <2>1, <2>2 DEF Reaches
<1>5. ASSUME NEW e \in Scanned PROVE e \in Live
  <2>1. Reaches(Forward, 1, e[1])
    BY <1>1, <1>3 DEF Reached
  <2>2. Forward \subseteq Edges
    BY <1>3 DEF Forward
  <2>3. Reaches(Edges, 1, e[1])
    BY <2>1, <2>2, ReachesMore
  <2> QED BY <1>3, <2>3 DEF Live
<1> QED BY <1>1, <1>3, <1>4, <1>5 DEF Live

LEMMA LoopsCountedAtEnd ==
  ASSUME LoopsTypeOK, StackIsPath, WalkInv
  PROVE  LoopsCounted
<1> SUFFICES ASSUME Walked
             PROVE  /\ \A e \in Live \ back : ~Reaches(Live \ back, Target(e), e[1])
                    /\ \A e \in Live : Dominates(Target(e), e[1]) => e \in back
  BY DEF LoopsCounted
<1>1. /\ Reached /\ Ordered /\ visited \subseteq DOMAIN F
      /\ Live \ back = Forward /\ \A e \in Live : e[1] \in visited
  BY EndOfWalkParts DEF Forward
<1>2. ASSUME NEW e \in Forward PROVE ~Reaches(Forward, Target(e), e[1])
  BY <1>1 DEF Ordered, Apart, Reaches
<1>3. ASSUME NEW e \in Live, e \notin back, Dominates(Target(e), e[1]) PROVE FALSE
  <2>1. PICK S \in SUBSET DOMAIN F : Closed(Forward, S) /\ Target(e) \in S /\ e[1] \notin S
    BY <1>1, <1>3 DEF Ordered, Apart
  <2>2. ~Reaches({x \in Edges : x[1] # Target(e)}, 1, e[1])
    BY <1>3, <2>1 DEF Dominates
  <2>3. PICK T \in SUBSET DOMAIN F :
          1 \in T /\ Closed({x \in Edges : x[1] # Target(e)}, T) /\ e[1] \notin T
    BY <2>2 DEF Reaches
  <2>4. Forward \subseteq Edges
    BY DEF Forward, Scanned, ScannedBy
  <2>5. Closed(Forward, S \cup T)
    BY <2>1, <2>3, <2>4 DEF Closed
  <2>6. Reaches(Forward, 1, e[1])
    BY <1>1 DEF Reached
  <2> QED BY <2>1, <2>3, <2>5, <2>6 DEF Reaches
<1> QED BY <1>1, <1>2, <1>3

\* The edges a walk does not count close no cycle that the entry reaches, and
\* every edge to a dominator, the back edges the pass is after, is counted
\* (ProjectLoops.cpp:139-140).
THEOREM LoopsAreCounted == Spec => []LoopsCounted
<1>1. LoopsTypeOK /\ StackIsPath /\ WalkInv => LoopsCounted
  BY LoopsCountedAtEnd
<1> QED BY <1>1, WalkInvariant, PTL

LEMMA CountedAtEnd ==
  ASSUME LoopsTypeOK, StackIsPath, WalkInv
  PROVE  CountedAreLoops
BY EndOfWalkParts DEF CountedAreLoops, Counted

\* The number that goes into the statistics is the number of different edges that
\* were counted, and each of them closes a cycle the entry reaches
\* (ProjectLoops.cpp:139-158).
THEOREM CountedCloseLoops == Spec => []CountedAreLoops
<1>1. LoopsTypeOK /\ StackIsPath /\ WalkInv => CountedAreLoops
  BY CountedAtEnd
<1> QED BY <1>1, WalkInvariant, PTL
=============================================================================
