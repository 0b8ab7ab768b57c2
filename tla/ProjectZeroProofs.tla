------------------------- MODULE ProjectZeroProofs -------------------------
(***************************************************************************)
(* getReach computes reachability, getDom computes dominance, and the      *)
(* pass removes the unreachable blocks and no others, and counts what is   *)
(* left, for every function of any size.                                   *)
(*                                                                         *)
(* Neither proof speaks of paths.  A set of blocks that the edges do not   *)
(* leave stands for what can be reached: reach never leaves such a set,    *)
(* and when it has settled it is one.  In the same way the blocks that d   *)
(* is not recorded to dominate are, when dom has settled, what is reached  *)
(* without d.                                                              *)
(*                                                                         *)
(* The statistics are sums over sets, which a recursive function computes: *)
(* that it exists, and that any element can be taken out of a sum, follows *)
(* from a smallest subset for which it would not be so.                    *)
(***************************************************************************)
EXTENDS ProjectZero, FiniteSetTheorems, SequenceTheorems, TLAPS

InFunction == step \in {"dom", "reach", "count", "erase"}

\* The blocks the maps of getReach are about.
Mapped == IF phase = "after" THEN blocks ELSE Listed(program)

Stages ==
  /\ phase \in {"before", "after"} => step \in {"function", "dom", "reach", "count"}
  /\ phase = "remove" => step \in {"function", "reach", "erase"}
  /\ phase = "done" => step = "done"

\* Has function n had its turn in removeUnusedBlocks, or not had it yet?
Awaits(n) ==
  \/ phase = "before"
  \/ phase = "remove" /\ (n > cur \/ (n = cur /\ step = "reach"))

Purged(n) ==
  \/ phase \in {"after", "done"}
  \/ phase = "remove" /\ (n < cur \/ (n = cur /\ step = "function"))

BlocksInv ==
  \A n \in DOMAIN functions :
    /\ Alive(functions[n]) \subseteq remaining[n]
    /\ Awaits(n) => remaining[n] = Listed(functions[n])
    /\ Purged(n) => remaining[n] = Alive(functions[n])

\* The result of the function that is being purged is not in that of the module.
ReportInv ==
  \A n \in DOMAIN functions :
    remaining[n] # Listed(functions[n]) =>
      IF phase = "remove" /\ step = "erase" /\ n = cur THEN changed ELSE modified

\* The visit of b would change nothing.
DomSettled(b) ==
  b \in blocks \ {Entry} =>
    \A q \in Preds(b) : \A d \in dom[b] : d = b \/ d \in dom[q]

ReachSettled(b) == b \in Mapped => \A j \in reach[b] : reach[j] \subseteq reach[b]

DomInv ==
  step = "dom" \/ (step \in {"reach", "count"} /\ phase # "remove") =>
    /\ dom \in [blocks -> SUBSET blocks]
    /\ dom[Entry] = {Entry}
    /\ \A b \in blocks : b \in dom[b]
    /\ \A d, b \in blocks : Dominates(program, d, b) => d \in dom[b]
    /\ step = "dom" /\ ~notDoneYet => \A n \in 1 .. pos - 1 : DomSettled(program.list[n])
    /\ step # "dom" => \A b \in blocks : DomSettled(b)

ReachInv ==
  step \in {"reach", "count", "erase"} =>
    /\ reach \in [Mapped -> SUBSET Mapped]
    /\ \A b \in Mapped : Cfg(program, b) \cup {b} \subseteq reach[b]
    /\ \A a \in Mapped : \A b \in reach[a] : Reaches(program, a, b)
    /\ step = "reach" /\ ~notDoneYet => \A n \in 1 .. pos - 1 : ReachSettled(program.list[n])
    /\ step # "reach" => \A b \in Mapped : ReachSettled(b)

PassInv == TypeOK /\ Stages /\ BlocksInv /\ DomInv /\ ReachInv

(***************************************************************************)
(* Sums over finite sets.  Chosen is the order MapThenFoldSet adds in.     *)
(***************************************************************************)
Chosen(s) == CHOOSE x \in s : TRUE

\* g gives the sums of the subsets of S, in the order MapThenFoldSet adds in.
Sums(f, S, g) ==
  g = [s \in SUBSET S |-> IF s = {} THEN 0 ELSE f[Chosen(s)] + g[s \ {Chosen(s)}]]

\* A set of subsets of a finite set has a smallest member: the induction that the
\* proofs below rest on.
LEMMA SmallestSubset ==
  ASSUME NEW S, IsFiniteSet(S), NEW Q, Q \subseteq SUBSET S, Q # {}
  PROVE  \E q \in Q : \A r \in Q : ~(r \subseteq q /\ r # q)
<1>1. FiniteSubsetsOf(S) = SUBSET S
  BY FS_FiniteSubsetsOfFinite
<1>2. IsWellFoundedOn(StrictSubsetOrdering(S), SUBSET S)
  BY <1>1, FS_StrictSubsetOrderingWellFounded
<1>3. PICK q \in Q : \A r \in Q : ~(<<r, q>> \in StrictSubsetOrdering(S))
  BY <1>2, WFMin
<1> QED BY <1>3 DEF StrictSubsetOrdering

LEMMA ChosenFacts ==
  ASSUME NEW s, s # {}
  PROVE  Chosen(s) \in s
BY DEF Chosen

LEMMA SumsAt ==
  ASSUME NEW f, NEW S, NEW g, Sums(f, S, g), NEW s, s \subseteq S
  PROVE  /\ s = {} => g[s] = 0
         /\ s # {} => g[s] = f[Chosen(s)] + g[s \ {Chosen(s)}]
BY DEF Sums

\* The sum of T is the same for the subsets of T and for those of a larger set.
LEMMA SumsAgree ==
  ASSUME NEW f, NEW S, NEW T, IsFiniteSet(S), T \subseteq S, NEW g, NEW h, Sums(f, S, g), Sums(f, T, h)
  PROVE  g[T] = h[T]
<1> DEFINE Q == {s \in SUBSET T : g[s] # h[s]}
<1>1. SUFFICES ASSUME Q # {} PROVE FALSE
  BY <1>1
<1>2. IsFiniteSet(T)
  BY FS_Subset
<1>3. PICK q \in Q : \A r \in Q : ~(r \subseteq q /\ r # q)
  <2>1. Q \subseteq SUBSET T
    OBVIOUS
  <2> HIDE DEF Q
  <2> QED BY <1>1, <1>2, <2>1, SmallestSubset
<1>4. q # {}
  BY <1>3, SumsAt
<1>5. LET r == q \ {Chosen(q)} IN g[r] = h[r]
  BY <1>3, <1>4, ChosenFacts
<1> QED BY <1>3, <1>4, <1>5, SumsAt

\* The recursive function that MapThenFoldSet chooses exists.
LEMMA SumsExist ==
  ASSUME NEW f, NEW S, IsFiniteSet(S)
  PROVE  \E g : Sums(f, S, g)
<1> DEFINE Q == {s \in SUBSET S : ~ \E g : Sums(f, s, g)}
<1>1. SUFFICES ASSUME Q # {} PROVE FALSE
  OBVIOUS
<1>2. PICK t \in Q : \A r \in Q : ~(r \subseteq t /\ r # t)
  <2>1. Q \subseteq SUBSET S
    OBVIOUS
  <2> HIDE DEF Q
  <2> QED BY <1>1, <2>1, SmallestSubset
<1> DEFINE G(u) == CHOOSE g : Sums(f, u, g)
           h == [u \in SUBSET t |-> IF u = {} THEN 0
                   ELSE f[Chosen(u)] + G(u \ {Chosen(u)})[u \ {Chosen(u)}]]
<1>3. ASSUME NEW w, w \subseteq t, w # t PROVE Sums(f, w, G(w))
  <2>1. w \in SUBSET S /\ w \notin Q
    BY <1>2, <1>3
  <2> QED BY <2>1
<1>4. ASSUME NEW u \in SUBSET t, u # {} PROVE h[u \ {Chosen(u)}] = G(u \ {Chosen(u)})[u \ {Chosen(u)}]
  <2> DEFINE w == u \ {Chosen(u)}
             v == w \ {Chosen(w)}
  <2>1. w \subseteq t /\ w # t /\ v \subseteq w
    BY <1>4, ChosenFacts
  <2>2. Sums(f, w, G(w)) /\ Sums(f, v, G(v)) /\ IsFiniteSet(w)
    <3>1. w \in SUBSET S
      BY <1>2, <2>1
    <3> QED BY <1>3, <2>1, <3>1, FS_Subset
  <2>3. w # {} => G(w)[w] = f[Chosen(w)] + G(w)[v]
    <3> DEFINE k == G(w)
    <3>1. Sums(f, w, k)
      BY <2>2
    <3> HIDE DEF k
    <3>2. w # {} => k[w] = f[Chosen(w)] + k[w \ {Chosen(w)}]
      <4> HIDE DEF w
      <4> QED BY <3>1, SumsAt
    <3> QED BY <3>2 DEF k
  <2>4. w = {} => G(w)[w] = 0
    <3> HIDE DEF G
    <3> QED BY <2>2, SumsAt
  <2>5. G(w)[v] = G(v)[v]
    <3> HIDE DEF G, w, v
    <3> QED BY <2>1, <2>2, SumsAgree
  <2>6. h[w] = IF w = {} THEN 0 ELSE f[Chosen(w)] + G(v)[v]
    <3> HIDE DEF G
    <3> QED BY <2>1
  <2> HIDE DEF G, w, v, h
  <2>7. h[w] = G(w)[w]
    BY <2>3, <2>4, <2>5, <2>6
  <2> QED BY <2>7 DEF w
<1>5. h = [s \in SUBSET t |-> IF s = {} THEN 0 ELSE f[Chosen(s)] + h[s \ {Chosen(s)}]]
  <2>1. \A u \in SUBSET t : h[u] = IF u = {} THEN 0 ELSE f[Chosen(u)] + h[u \ {Chosen(u)}]
    <3> SUFFICES ASSUME NEW u \in SUBSET t PROVE h[u] = IF u = {} THEN 0 ELSE f[Chosen(u)] + h[u \ {Chosen(u)}]
      OBVIOUS
    <3>1. h[u] = IF u = {} THEN 0 ELSE f[Chosen(u)] + G(u \ {Chosen(u)})[u \ {Chosen(u)}]
      <4> HIDE DEF G
      <4> QED OBVIOUS
    <3> HIDE DEF h, G
    <3> QED BY <3>1, <1>4
  <2>2. h = [u \in SUBSET t |-> h[u]]
    <3> HIDE DEF G
    <3> QED OBVIOUS
  <2> HIDE DEF h
  <2> QED BY <2>1, <2>2
<1>6. Sums(f, t, h)
  <2> HIDE DEF h
  <2> QED BY <1>5 DEF Sums
<1> HIDE DEF h, G
<1> QED BY <1>2, <1>6

LEMMA SumIsSums ==
  ASSUME NEW f, NEW S, IsFiniteSet(S)
  PROVE  \E g : Sums(f, S, g) /\ SumFunctionOnSet(f, S) = g[S]
<1>1. PICK g : g = [s \in SUBSET S |-> IF s = {} THEN 0 ELSE f[Chosen(s)] + g[s \ {Chosen(s)}]]
  <2>1. PICK g : Sums(f, S, g)
    BY SumsExist
  <2> QED BY <2>1, Zenon DEF Sums
<1>2. \E h : h = [s \in SUBSET S |-> IF s = {} THEN 0 ELSE f[Chosen(s)] + h[s \ {Chosen(s)}]] /\ SumFunctionOnSet(f, S) = h[S]
  BY <1>1 DEF SumFunctionOnSet, FoldFunctionOnSet, MapThenFoldSet, Chosen
<1> QED BY <1>2 DEF Sums

\* What MapThenFoldSet computes.
LEMMA SumStep ==
  ASSUME NEW f, NEW S, IsFiniteSet(S)
  PROVE  /\ S = {} => SumFunctionOnSet(f, S) = 0
         /\ S # {} => SumFunctionOnSet(f, S) = f[Chosen(S)] + SumFunctionOnSet(f, S \ {Chosen(S)})
<1>1. PICK g : Sums(f, S, g) /\ SumFunctionOnSet(f, S) = g[S]
  BY SumIsSums
<1> DEFINE w == S \ {Chosen(S)}
<1>2. IsFiniteSet(w)
  BY FS_RemoveElement
<1>3. PICK h : Sums(f, w, h) /\ SumFunctionOnSet(f, w) = h[w]
  BY <1>2, SumIsSums
<1>4. g[w] = h[w]
  <2>1. w \subseteq S
    OBVIOUS
  <2> HIDE DEF w
  <2> QED BY <1>1, <1>3, <2>1, SumsAgree
<1> QED BY <1>1, <1>3, <1>4, SumsAt

\* Any element can be taken out of a sum, not only the one that comes first.
LEMMA SumRemove ==
  ASSUME NEW f, NEW S, IsFiniteSet(S), \A s \in S : f[s] \in Nat
  PROVE  /\ SumFunctionOnSet(f, S) \in Nat
         /\ \A x \in S : SumFunctionOnSet(f, S) = f[x] + SumFunctionOnSet(f, S \ {x})
<1> DEFINE Right(s) ==
             /\ SumFunctionOnSet(f, s) \in Nat
             /\ \A x \in s : SumFunctionOnSet(f, s) = f[x] + SumFunctionOnSet(f, s \ {x})
           Q == {s \in SUBSET S : ~Right(s)}
<1>1. SUFFICES ASSUME Q # {} PROVE FALSE
  OBVIOUS
<1>2. PICK q \in Q : \A r \in Q : ~(r \subseteq q /\ r # q)
  <2>1. Q \subseteq SUBSET S
    OBVIOUS
  <2> HIDE DEF Q
  <2> QED BY <1>1, <2>1, SmallestSubset
<1>3. IsFiniteSet(q) /\ q \subseteq S
  BY <1>2, FS_Subset
<1>4. ASSUME NEW r, r \subseteq q, r # q PROVE Right(r) /\ IsFiniteSet(r)
  BY <1>2, <1>3, <1>4, FS_Subset
<1>5. q # {}
  <2>1. q = {} => SumFunctionOnSet(f, q) = 0
    BY <1>3, SumStep
  <2>2. q = {} => Right(q)
    BY <2>1
  <2> HIDE DEF Right
  <2> QED BY <1>2, <2>2
<1> DEFINE c == Chosen(q)
           total == SumFunctionOnSet(f, q)
<1>6. c \in q /\ total = f[c] + SumFunctionOnSet(f, q \ {c}) /\ f[c] \in Nat
  BY <1>3, <1>5, SumStep, ChosenFacts
<1>7. SumFunctionOnSet(f, q \ {c}) \in Nat
  <2>1. q \ {c} \subseteq q /\ q \ {c} # q
    BY <1>6
  <2> QED BY <1>4, <2>1
<1>8. ASSUME NEW x \in q, x # c PROVE total = f[x] + SumFunctionOnSet(f, q \ {x})
  <2> DEFINE d == q \ {c}
             y == q \ {x}
             z == (q \ {c}) \ {x}
  <2>1. /\ d \subseteq q /\ d # q /\ y \subseteq q /\ y # q /\ z \subseteq q /\ z # q
        /\ x \in d /\ c \in y /\ y \ {c} = z
    BY <1>6, <1>8
  <2>2. SumFunctionOnSet(f, d) = f[x] + SumFunctionOnSet(f, z)
    BY <1>4, <2>1
  <2>3. SumFunctionOnSet(f, y) = f[c] + SumFunctionOnSet(f, z)
    <3>1. Right(y)
      BY <1>4, <2>1
    <3> HIDE DEF y, z
    <3> QED BY <2>1, <3>1
  <2>4. SumFunctionOnSet(f, z) \in Nat /\ f[x] \in Nat
    BY <1>3, <1>4, <2>1
  <2> HIDE DEF d, y, z, c, total
  <2>5. total = f[c] + SumFunctionOnSet(f, d)
    BY <1>6 DEF d
  <2>6. total = f[x] + SumFunctionOnSet(f, y)
    BY <1>6, <2>2, <2>3, <2>4, <2>5
  <2> QED BY <2>6 DEF y
<1>9. Right(q)
  <2>1. SumFunctionOnSet(f, q) \in Nat
    <3> HIDE DEF c, Q
    <3> QED BY <1>6, <1>7
  <2>2. \A x \in q : SumFunctionOnSet(f, q) = f[x] + SumFunctionOnSet(f, q \ {x})
    <3> SUFFICES ASSUME NEW x \in q
                 PROVE  SumFunctionOnSet(f, q) = f[x] + SumFunctionOnSet(f, q \ {x})
      OBVIOUS
    <3>1. CASE x = c
      BY <1>6, <3>1
    <3> HIDE DEF c
    <3> QED BY <1>8, <3>1
  <2> QED BY <2>1, <2>2
<1> QED BY <1>2, <1>9

\* More and larger summands make a larger sum.
LEMMA SumLe ==
  ASSUME NEW f, NEW g, NEW S, NEW T, IsFiniteSet(T), S \subseteq T,
         \A s \in S : f[s] \in Nat /\ f[s] <= g[s],
         \A t \in T : g[t] \in Nat
  PROVE  SumFunctionOnSet(f, S) <= SumFunctionOnSet(g, T)
<1> DEFINE Q == {t \in SUBSET T : ~(SumFunctionOnSet(f, S \cap t) <= SumFunctionOnSet(g, t))}
<1>1. SUFFICES ASSUME Q # {} PROVE FALSE
  <2>1. S \cap T = S /\ T \notin Q
    BY <1>1
  <2> QED BY <2>1
<1>2. PICK q \in Q : \A r \in Q : ~(r \subseteq q /\ r # q)
  <2>1. Q \subseteq SUBSET T
    OBVIOUS
  <2> HIDE DEF Q
  <2> QED BY <1>1, <2>1, SmallestSubset
<1>3. IsFiniteSet(q) /\ IsFiniteSet(S \cap q) /\ q \subseteq T
  BY <1>2, FS_Subset
<1>4. CASE q = {}
  <2>1. S \cap q = {} /\ IsFiniteSet({})
    BY <1>4, FS_EmptySet
  <2>2. \A k : SumFunctionOnSet(k, {}) = 0
    BY <2>1, SumStep
  <2> QED BY <1>2, <1>4, <2>1, <2>2
<1>5. ASSUME NEW x \in q PROVE FALSE
  <2> DEFINE r == q \ {x}
             a == S \cap q
             b == S \cap r
  <2>1. r \subseteq q /\ r # q /\ r \in SUBSET T
    BY <1>3, <1>5
  <2>2. SumFunctionOnSet(f, b) <= SumFunctionOnSet(g, r)
    BY <1>2, <2>1
  <2>3. SumFunctionOnSet(g, q) = g[x] + SumFunctionOnSet(g, r) /\ g[x] \in Nat
    BY <1>3, <1>5, SumRemove
  <2>4. IsFiniteSet(a) /\ IsFiniteSet(r) /\ IsFiniteSet(b)
    BY <1>3, <2>1, FS_Subset
  <2>5. \A s \in a : f[s] \in Nat
    OBVIOUS
  <2>6. SumFunctionOnSet(g, r) \in Nat
    BY <1>3, <2>1, <2>4, SumRemove
  <2>7. SumFunctionOnSet(f, b) \in Nat
    <3>1. \A s \in b : f[s] \in Nat
      OBVIOUS
    <3> HIDE DEF b
    <3> QED BY <2>4, <3>1, SumRemove
  <2>8. SumFunctionOnSet(f, a) <= SumFunctionOnSet(g, q)
    <3>1. CASE x \in S
      <4>1. x \in a /\ b = a \ {x} /\ f[x] \in Nat /\ f[x] <= g[x]
        BY <1>5, <3>1
      <4>2. SumFunctionOnSet(f, a) = f[x] + SumFunctionOnSet(f, a \ {x})
        <5> HIDE DEF a
        <5> QED BY <2>4, <2>5, <4>1, SumRemove
      <4> HIDE DEF a, b, r
      <4> QED BY <2>2, <2>3, <2>6, <2>7, <4>1, <4>2
    <3>2. CASE x \notin S
      <4>1. b = a
        BY <3>2
      <4> HIDE DEF a, b, r
      <4> QED BY <2>2, <2>3, <2>6, <2>7, <4>1
    <3> QED BY <3>1, <3>2
  <2> QED BY <1>2, <2>8
<1> QED BY <1>4, <1>5

LEMMA SumSame ==
  ASSUME NEW f, NEW g, NEW S, IsFiniteSet(S),
         \A s \in S : f[s] \in Nat /\ f[s] = g[s]
  PROVE  SumFunctionOnSet(f, S) = SumFunctionOnSet(g, S)
<1>1. /\ \A s \in S : f[s] \in Nat /\ f[s] <= g[s]
      /\ \A s \in S : g[s] \in Nat /\ g[s] <= f[s]
  OBVIOUS
<1>2. SumFunctionOnSet(f, S) <= SumFunctionOnSet(g, S)
  BY <1>1, SumLe
<1>3. SumFunctionOnSet(g, S) <= SumFunctionOnSet(f, S)
  BY <1>1, SumLe
<1>4. SumFunctionOnSet(f, S) \in Nat /\ SumFunctionOnSet(g, S) \in Nat
  BY <1>1, SumRemove
<1> QED BY <1>2, <1>3, <1>4

(***************************************************************************)
(* The function and its graph.                                             *)
(***************************************************************************)

IsFunction(f) ==
  /\ f.list \in Seq(Blocks) /\ f.succ \in [Blocks -> Seq(Blocks \ {Entry})]
  /\ Listed(f) # {} => Entry \in Listed(f)
  /\ \A b \in Listed(f) : Cfg(f, b) \subseteq Listed(f)

LEMMA ModuleParts ==
  ASSUME NEW m, IsModule(m)
  PROVE  /\ Len(m) \in Nat /\ DOMAIN m = 1 .. Len(m)
         /\ \A n \in DOMAIN m : IsFunction(m[n])
<1> DEFINE R == [list : Seq(Blocks), succ : [Blocks -> Seq(Blocks \ {Entry})],
                 calls : [Blocks -> SUBSET Nat]]
<1>1. m \in Seq(R)
  BY DEF IsModule
<1>2. \A r \in R : r.list \in Seq(Blocks) /\ r.succ \in [Blocks -> Seq(Blocks \ {Entry})]
  OBVIOUS
<1> HIDE DEF R
<1>3. Len(m) \in Nat /\ DOMAIN m = 1 .. Len(m)
  BY <1>1, LenProperties
<1>4. \A n \in DOMAIN m : m[n] \in R
  BY <1>1, <1>3, ElementOfSeq
<1> QED BY <1>2, <1>3, <1>4 DEF IsFunction, IsModule

LEMMA FunctionOfModule ==
  ASSUME IsModule(functions)
  PROVE  /\ Len(functions) \in Nat /\ DOMAIN functions = 1 .. Len(functions)
         /\ \A n \in DOMAIN functions : IsFunction(functions[n])
BY ModuleParts

LEMMA ListCovers ==
  ASSUME NEW p, IsFunction(p)
  PROVE  /\ Len(p.list) \in Nat
         /\ DOMAIN p.list = 1 .. Len(p.list)
         /\ \A n \in 1 .. Len(p.list) : p.list[n] \in Listed(p)
         /\ \A b \in Listed(p) : \E n \in 1 .. Len(p.list) : p.list[n] = b
         /\ Listed(p) \subseteq Blocks
<1>1. p.list \in Seq(Blocks)
  BY DEF IsFunction
<1>2. Len(p.list) \in Nat /\ DOMAIN p.list = 1 .. Len(p.list)
  BY <1>1, LenProperties
<1>3. \A n \in 1 .. Len(p.list) : p.list[n] \in Blocks
  BY <1>1, <1>2, ElementOfSeq
<1> QED BY <1>2, <1>3 DEF Listed

\* What the type invariant says of the function the pass is in.
LEMMA FunctionParts ==
  ASSUME TypeOK, InFunction
  PROVE  /\ cur \in DOMAIN functions /\ IsFunction(program)
         /\ blocks \subseteq Listed(program) /\ Entry \in blocks
         /\ Listed(program) \subseteq Blocks /\ Entry \in Listed(program)
         /\ Len(program.list) \in Nat /\ pos \in 1 .. Len(program.list) + 1
<1>1. cur # 0 /\ program.list # << >> /\ pos \in 1 .. Len(program.list) + 1
  BY DEF TypeOK, InFunction
<1>2. cur \in DOMAIN functions /\ IsFunction(functions[cur])
  BY <1>1, FunctionOfModule DEF TypeOK
<1>3. remaining[cur] \subseteq Listed(functions[cur]) /\ Entry \in remaining[cur]
  BY <1>1, <1>2 DEF TypeOK, program
<1> QED BY <1>1, <1>2, <1>3, ListCovers DEF program, blocks

LEMMA FunctionStays ==
  ASSUME UNCHANGED <<functions, remaining, cur>>
  PROVE  program' = program /\ blocks' = blocks
BY DEF program, blocks

LEMMA CfgType ==
  ASSUME NEW p, IsFunction(p), NEW b \in Listed(p)
  PROVE  Cfg(p, b) \subseteq Listed(p) \ {Entry}
<1>1. b \in Blocks
  BY ListCovers
<1>2. p.succ[b] \in Seq(Blocks \ {Entry})
  BY <1>1 DEF IsFunction
<1>3. \A i \in DOMAIN p.succ[b] : p.succ[b][i] \in Blocks \ {Entry}
  BY <1>2, LenProperties, ElementOfSeq
<1>4. Entry \notin Cfg(p, b)
  BY <1>3 DEF Cfg
<1> QED BY <1>4 DEF IsFunction

LEMMA AliveIsClosed ==
  ASSUME NEW p, IsFunction(p)
  PROVE  /\ Alive(p) \subseteq Listed(p)
         /\ Entry \in Listed(p) => Entry \in Alive(p)
         /\ \A b \in Alive(p) : Cfg(p, b) \subseteq Alive(p)
<1>1. Entry \in Listed(p) => Entry \in Alive(p)
  BY DEF Alive, Reaches
<1>2. ASSUME NEW b \in Alive(p), NEW s \in Cfg(p, b) PROVE s \in Alive(p)
  <2>1. s \in Listed(p)
    BY <1>2, CfgType DEF Alive
  <2>2. Reaches(p, Entry, s)
    BY <1>2 DEF Alive, Reaches, Closed
  <2> QED BY <2>1, <2>2 DEF Alive
<1> QED BY <1>1, <1>2 DEF Alive

LEMMA ReachesSelfAndOn ==
  ASSUME NEW p, NEW a \in Blocks, NEW j, NEW b
  PROVE  /\ Reaches(p, a, a)
         /\ \A s \in Cfg(p, a) : Reaches(p, a, s)
         /\ Reaches(p, a, j) /\ Reaches(p, j, b) => Reaches(p, a, b)
BY DEF Reaches, Closed

\* Nothing but itself dominates the entry; what dominates a block dominates
\* each of its predecessors, unless it is the block.
LEMMA DominatesFacts ==
  ASSUME NEW p, NEW d \in Blocks, NEW b \in Blocks
  PROVE  /\ Dominates(p, d, d)
         /\ Dominates(p, d, Entry) => d = Entry
         /\ Dominates(p, d, b) /\ d # b =>
              \A q \in Blocks : b \in Cfg(p, q) => Dominates(p, d, q)
<1>1. Dominates(p, d, Entry) => d = Entry
  BY DEF Dominates
<1>2. ASSUME Dominates(p, d, b), d # b, NEW q \in Blocks, b \in Cfg(p, q), q # d
      PROVE  Dominates(p, d, q)
  <2>1. PICK S \in SUBSET (Blocks \ {d, b}) :
          (Entry # d => Entry \in S) /\ \A s \in S : Cfg(p, s) \subseteq S \cup {d}
    BY <1>2 DEF Dominates
  <2>2. q \notin S
    BY <1>2, <2>1
  <2>3. S \in SUBSET (Blocks \ {d, q})
    BY <2>1, <2>2
  <2> QED BY <2>1, <2>3 DEF Dominates
<1> QED BY <1>1, <1>2 DEF Dominates

(***************************************************************************)
(* The invariant.                                                          *)
(***************************************************************************)
LEMMA FirstDomInv ==
  ASSUME NEW p, NEW left, left \subseteq Blocks, Entry \in left, NEW first,
         first = [b \in left |-> IF b = Entry THEN {b} ELSE left]
  PROVE  /\ first \in [left -> SUBSET left]
         /\ first[Entry] = {Entry}
         /\ \A b \in left : b \in first[b]
         /\ \A d, b \in left : Dominates(p, d, b) => d \in first[b]
BY DominatesFacts

LEMMA FirstReachInv ==
  ASSUME NEW p, IsFunction(p), NEW D, D = Listed(p) \/ D = Alive(p)
  PROVE  /\ [b \in D |-> Cfg(p, b) \cup {b}] \in [D -> SUBSET D]
         /\ \A a \in D : \A b \in Cfg(p, a) \cup {a} : Reaches(p, a, b)
<1>1. D \subseteq Listed(p) /\ D \subseteq Blocks
  BY ListCovers DEF Alive
<1>2. \A b \in D : Cfg(p, b) \subseteq D
  BY <1>1, CfgType, AliveIsClosed
<1> QED BY <1>1, <1>2, ReachesSelfAndOn

LEMMA InitPassInv == Init => PassInv /\ ReportInv
<1> SUFFICES ASSUME Init PROVE PassInv /\ ReportInv
  OBVIOUS
<1>1. /\ IsModule(functions) /\ remaining = [n \in DOMAIN functions |-> Listed(functions[n])]
      /\ phase = "before" /\ step = "function" /\ cur = 0
      /\ notDoneYet = FALSE /\ changed = FALSE /\ modified = FALSE
  BY ModulesAssumption DEF Init
<1>2. Len(functions) \in Nat /\ \A n \in DOMAIN functions : IsFunction(functions[n])
  BY <1>1, FunctionOfModule
<1>3. ASSUME NEW n \in DOMAIN functions, functions[n].list # << >>
      PROVE  Entry \in Listed(functions[n])
  <2>1. Len(functions[n].list) # 0 /\ Len(functions[n].list) \in Nat
    BY <1>2, <1>3, EmptySeq, LenProperties DEF IsFunction
  <2>2. functions[n].list[1] \in Listed(functions[n])
    BY <1>2, <2>1, ListCovers
  <2> QED BY <1>2, <2>2 DEF IsFunction
<1>4. TypeOK
  <2>1. /\ DOMAIN remaining = DOMAIN functions
        /\ \A n \in DOMAIN functions : remaining[n] = Listed(functions[n])
    BY <1>1
  <2>2. cur \in 0 .. Len(functions) /\ {notDoneYet, changed, modified} \subseteq BOOLEAN
    <3>1. 0 \in 0 .. Len(functions)
      BY <1>2
    <3>2. notDoneYet \in BOOLEAN /\ changed \in BOOLEAN /\ modified \in BOOLEAN
      BY <1>1
    <3> QED BY <1>1, <3>1, <3>2
  <2> QED BY <1>1, <1>3, <2>1, <2>2 DEF TypeOK
<1>5. Stages /\ BlocksInv /\ ReportInv /\ DomInv /\ ReachInv
  BY <1>1 DEF Stages, BlocksInv, ReportInv, Awaits, Purged, Alive, DomInv, ReachInv
<1> QED BY <1>4, <1>5 DEF PassInv

\* What a step within the turn of a function leaves alone.
LEMMA SameTurn ==
  ASSUME PassInv, InFunction, UNCHANGED <<functions, remaining, phase, cur>>
  PROVE  /\ program' = program /\ blocks' = blocks /\ Mapped' = Mapped
         /\ \A b : Preds(b)' = Preds(b)
         /\ UNCHANGED step => Stages' /\ BlocksInv'
<1>1. program' = program /\ blocks' = blocks
  BY FunctionStays
<1>2. Mapped' = Mapped /\ \A b : Preds(b)' = Preds(b)
  BY <1>1 DEF Mapped, Preds
<1>3. UNCHANGED step => Stages' /\ BlocksInv'
  BY DEF PassInv, Stages, BlocksInv, Awaits, Purged
<1> QED BY <1>1, <1>2, <1>3

\* The blocks the maps are about, where they are swept.
LEMMA MappedIsBlocks ==
  ASSUME PassInv, step \in {"dom", "reach", "count"}
  PROVE  Mapped = blocks /\ (blocks = Listed(program) \/ blocks = Alive(program))
<1>1. cur \in DOMAIN functions
  BY FunctionParts DEF PassInv, InFunction
<1>2. Awaits(cur) => blocks = Listed(program)
  BY <1>1 DEF PassInv, BlocksInv, blocks, program
<1>3. Purged(cur) => blocks = Alive(program)
  BY <1>1 DEF PassInv, BlocksInv, blocks, program
<1>4. CASE phase = "before"
  BY <1>2, <1>4 DEF Mapped, Awaits
<1>5. CASE phase = "remove"
  <2>1. step = "reach"
    BY <1>5 DEF PassInv, Stages
  <2> QED BY <1>2, <1>5, <2>1 DEF Mapped, Awaits
<1>6. CASE phase = "after"
  BY <1>3, <1>6 DEF Mapped, Purged
<1> QED BY <1>4, <1>5, <1>6 DEF PassInv, TypeOK, Stages

LEMMA TypeStays ==
  ASSUME TypeOK, InFunction, UNCHANGED <<functions, remaining, phase, cur>>,
         step' \in {"dom", "reach", "count", "erase"},
         pos' \in 1 .. Len(program.list) + 1,
         {notDoneYet, changed, modified}' \subseteq BOOLEAN,
         step' = "dom" \/ (step' \in {"reach", "count"} /\ phase # "remove") =>
           dom' \in [blocks -> SUBSET blocks],
         step' \in {"reach", "count"} => reach' \in [blocks -> SUBSET blocks]
  PROVE  TypeOK'
<1>1. program' = program /\ blocks' = blocks
  BY FunctionStays
<1>2. cur # 0 /\ program.list # << >>
  BY DEF TypeOK, InFunction
<1> QED BY <1>1, <1>2 DEF TypeOK

\* One visit of getDom loses no dominator, and settles its block.
LEMMA VisitDomKeeps == PassInv /\ VisitDom => PassInv'
<1> SUFFICES ASSUME PassInv, VisitDom PROVE PassInv'
  OBVIOUS
<1> DEFINE h == Here
<1>0. /\ UNCHANGED <<functions, remaining, phase, cur, step, reach, changed, modified>>
      /\ step = "dom" /\ pos <= Len(program.list) /\ pos' = pos + 1
  BY DEF VisitDom, Sweeping
<1>a. InFunction /\ TypeOK /\ phase # "remove"
  BY <1>0 DEF InFunction, PassInv, Stages
<1>1. /\ IsFunction(program) /\ blocks \subseteq Blocks /\ Entry \in blocks
      /\ pos \in 1 .. Len(program.list) /\ Len(program.list) \in Nat
      /\ pos' \in 1 .. Len(program.list) + 1
  BY <1>0, <1>a, FunctionParts
<1>b. /\ program' = program /\ blocks' = blocks /\ \A b : Preds(b)' = Preds(b)
      /\ Stages' /\ BlocksInv'
  BY <1>0, <1>a, SameTurn
<1>2. h = program.list[pos] /\ Here' = program.list[pos']
  BY <1>b DEF Here
<1>3. /\ dom \in [blocks -> SUBSET blocks]
      /\ dom[Entry] = {Entry}
      /\ \A b \in blocks : b \in dom[b]
      /\ \A d, b \in blocks : Dominates(program, d, b) => d \in dom[b]
      /\ ~notDoneYet => \A n \in 1 .. pos - 1 : DomSettled(program.list[n])
  BY <1>0 DEF PassInv, DomInv
<1>4. ReachInv'
  BY <1>0 DEF ReachInv
<1>c. notDoneYet \in BOOLEAN /\ {changed, modified} \subseteq BOOLEAN
  BY <1>a DEF TypeOK
<1>5. CASE h \notin blocks \ {Entry}
  <2>1. UNCHANGED <<dom, notDoneYet>>
    BY <1>5 DEF VisitDom
  <2>2. TypeOK'
    BY <1>0, <1>1, <1>3, <1>a, <1>c, <2>1, TypeStays
  <2>3. DomSettled(h)
    BY <1>5 DEF DomSettled
  <2>4. ~notDoneYet => \A n \in 1 .. pos' - 1 : DomSettled(program.list[n])
    BY <1>0, <1>1, <1>2, <1>3, <2>3
  <2>5. \A b : DomSettled(b)' = DomSettled(b)
    BY <1>b, <2>1 DEF DomSettled
  <2>6. DomInv'
    BY <1>0, <1>b, <1>3, <2>1, <2>4, <2>5 DEF DomInv
  <2> QED BY <1>4, <1>b, <2>2, <2>6 DEF PassInv
<1>6. CASE h \in blocks \ {Entry}
  <2>1. /\ dom' = [dom EXCEPT ![h] = NarrowedDom(h)]
        /\ notDoneYet' = (notDoneYet \/ NarrowedDom(h) # dom[h])
    BY <1>6 DEF VisitDom
  <2>2. NarrowedDom(h) \subseteq dom[h] /\ h \in NarrowedDom(h)
    BY <1>3, <1>6 DEF NarrowedDom
  <2>3. \A d \in NarrowedDom(h) : d = h \/ \A q \in Preds(h) : d \in dom[q]
    BY DEF NarrowedDom
  <2>4. ASSUME NEW d \in blocks, Dominates(program, d, h) PROVE d \in NarrowedDom(h)
    <3>1. d \in dom[h]
      BY <1>3, <1>6, <2>4
    <3>2. d # h => \A q \in Preds(h) : Dominates(program, d, q)
      BY <1>1, <1>6, <2>4, DominatesFacts DEF Preds
    <3>3. d # h => \A q \in Preds(h) : d \in dom[q]
      BY <1>3, <3>2 DEF Preds
    <3> QED BY <2>2, <3>1, <3>3 DEF NarrowedDom
  <2>5. dom' \in [blocks -> SUBSET blocks]
    BY <1>3, <2>1, <2>2
  <2>6. \A b \in blocks : dom'[b] = IF b = h THEN NarrowedDom(h) ELSE dom[b]
    BY <1>3, <2>1
  <2>7. /\ dom'[Entry] = {Entry}
        /\ \A b \in blocks : b \in dom'[b]
        /\ \A d, b \in blocks : Dominates(program, d, b) => d \in dom'[b]
    BY <1>1, <1>3, <1>6, <2>2, <2>4, <2>6
  <2>8. ~notDoneYet' => \A n \in 1 .. pos' - 1 : DomSettled(program.list[n])'
    <3> SUFFICES ASSUME ~notDoneYet' PROVE \A n \in 1 .. pos' - 1 : DomSettled(program.list[n])'
      OBVIOUS
    <3>1. ~notDoneYet /\ NarrowedDom(h) = dom[h]
      BY <2>1, <1>c
    <3>2. dom' = dom
      BY <1>3, <1>6, <2>1, <3>1
    <3>3. DomSettled(h)
      BY <2>3, <3>1 DEF DomSettled
    <3>4. \A n \in 1 .. pos' - 1 : DomSettled(program.list[n])
      BY <1>0, <1>1, <1>2, <1>3, <3>1, <3>3
    <3>5. \A b : DomSettled(b)' = DomSettled(b)
      BY <1>b, <3>2 DEF DomSettled
    <3> QED BY <1>b, <3>4, <3>5
  <2>9. notDoneYet' \in BOOLEAN
    BY <2>1
  <2>10. TypeOK'
    BY <1>0, <1>1, <1>a, <1>c, <2>5, <2>9, TypeStays
  <2>11. DomInv'
    BY <1>0, <1>b, <2>5, <2>7, <2>8 DEF DomInv
  <2> QED BY <1>4, <1>b, <2>10, <2>11 DEF PassInv
<1> QED BY <1>5, <1>6

\* One visit of getReach finds only what can be reached, and settles its block.
LEMMA VisitReachKeeps == PassInv /\ VisitReach => PassInv'
<1> SUFFICES ASSUME PassInv, VisitReach PROVE PassInv'
  OBVIOUS
<1> DEFINE h == Here
<1>0. /\ UNCHANGED <<functions, remaining, phase, cur, step, dom, changed, modified>>
      /\ step = "reach" /\ pos <= Len(program.list) /\ pos' = pos + 1
  BY DEF VisitReach, Sweeping
<1>a. InFunction /\ TypeOK
  BY <1>0 DEF InFunction, PassInv
<1>1. /\ IsFunction(program) /\ blocks \subseteq Blocks /\ Entry \in blocks
      /\ pos \in 1 .. Len(program.list) /\ Len(program.list) \in Nat
      /\ pos' \in 1 .. Len(program.list) + 1
  BY <1>0, <1>a, FunctionParts
<1>b. /\ program' = program /\ blocks' = blocks /\ Mapped' = Mapped
      /\ \A b : Preds(b)' = Preds(b)
      /\ Stages' /\ BlocksInv'
  BY <1>0, <1>a, SameTurn
<1>2. h = program.list[pos] /\ Here' = program.list[pos']
  BY <1>b DEF Here
<1>3. Mapped = blocks
  BY <1>0, MappedIsBlocks
<1>4. /\ reach \in [blocks -> SUBSET blocks]
      /\ \A b \in blocks : Cfg(program, b) \cup {b} \subseteq reach[b]
      /\ \A a \in blocks : \A b \in reach[a] : Reaches(program, a, b)
      /\ ~notDoneYet => \A n \in 1 .. pos - 1 : ReachSettled(program.list[n])
  BY <1>0, <1>3 DEF PassInv, ReachInv
<1>5. DomInv' /\ (phase # "remove" => dom \in [blocks -> SUBSET blocks])
  <2>1. \A b : DomSettled(b)' = DomSettled(b)
    BY <1>0, <1>b DEF DomSettled
  <2> QED BY <1>0, <1>b, <2>1 DEF PassInv, DomInv
<1>c. notDoneYet \in BOOLEAN /\ {changed, modified} \subseteq BOOLEAN
  BY <1>a DEF TypeOK
<1>6. CASE h \notin blocks
  <2>1. UNCHANGED <<reach, notDoneYet>>
    BY <1>6 DEF VisitReach
  <2>2. TypeOK'
    BY <1>0, <1>1, <1>4, <1>5, <1>a, <1>c, <2>1, TypeStays
  <2>3. ReachSettled(h)
    BY <1>3, <1>6 DEF ReachSettled
  <2>4. ~notDoneYet => \A n \in 1 .. pos' - 1 : ReachSettled(program.list[n])
    BY <1>0, <1>1, <1>2, <1>4, <2>3
  <2>5. \A b : ReachSettled(b)' = ReachSettled(b)
    BY <1>b, <2>1 DEF ReachSettled
  <2>6. ReachInv'
    BY <1>0, <1>b, <1>3, <1>4, <2>1, <2>4, <2>5 DEF ReachInv
  <2> QED BY <1>5, <1>b, <2>2, <2>6 DEF PassInv
<1>7. CASE h \in blocks
  <2>1. /\ reach' = [reach EXCEPT ![h] = WidenedReach(h)]
        /\ notDoneYet' = (notDoneYet \/ WidenedReach(h) # reach[h])
    BY <1>7 DEF VisitReach
  <2>2. reach[h] \subseteq WidenedReach(h) /\ WidenedReach(h) \subseteq blocks
    BY <1>4, <1>7 DEF WidenedReach
  <2>3. \A j \in reach[h] : reach[j] \subseteq WidenedReach(h)
    BY DEF WidenedReach
  <2>4. \A b \in WidenedReach(h) : Reaches(program, h, b)
    <3> SUFFICES ASSUME NEW b \in WidenedReach(h) PROVE Reaches(program, h, b)
      OBVIOUS
    <3>1. CASE b \in reach[h]
      BY <1>4, <1>7, <3>1
    <3>2. CASE \E j \in reach[h] : b \in reach[j]
      <4>1. PICK j \in reach[h] : b \in reach[j]
        BY <3>2
      <4>2. Reaches(program, h, j) /\ Reaches(program, j, b)
        BY <1>4, <1>7, <4>1
      <4> QED BY <1>1, <1>7, <4>2, ReachesSelfAndOn
    <3> QED BY <3>1, <3>2 DEF WidenedReach
  <2>5. reach' \in [blocks -> SUBSET blocks]
    BY <1>4, <2>1, <2>2
  <2>6. \A b \in blocks : reach'[b] = IF b = h THEN WidenedReach(h) ELSE reach[b]
    BY <1>4, <2>1
  <2>7. /\ \A b \in blocks : Cfg(program, b) \cup {b} \subseteq reach'[b]
        /\ \A a \in blocks : \A b \in reach'[a] : Reaches(program, a, b)
    BY <1>4, <2>2, <2>4, <2>6
  <2>8. ~notDoneYet' => \A n \in 1 .. pos' - 1 : ReachSettled(program.list[n])'
    <3> SUFFICES ASSUME ~notDoneYet' PROVE \A n \in 1 .. pos' - 1 : ReachSettled(program.list[n])'
      OBVIOUS
    <3>1. ~notDoneYet /\ WidenedReach(h) = reach[h]
      BY <2>1, <1>c
    <3>2. reach' = reach
      BY <1>4, <1>7, <2>1, <3>1
    <3>3. ReachSettled(h)
      BY <2>3, <3>1 DEF ReachSettled
    <3>4. \A n \in 1 .. pos' - 1 : ReachSettled(program.list[n])
      BY <1>0, <1>1, <1>2, <1>4, <3>1, <3>3
    <3>5. \A b : ReachSettled(b)' = ReachSettled(b)
      BY <1>b, <3>2 DEF ReachSettled
    <3> QED BY <1>b, <3>4, <3>5
  <2>9. notDoneYet' \in BOOLEAN
    BY <2>1
  <2>10. TypeOK'
    BY <1>0, <1>1, <1>5, <1>a, <1>c, <2>5, <2>9, TypeStays
  <2>11. ReachInv'
    BY <1>0, <1>b, <1>3, <2>5, <2>7, <2>8 DEF ReachInv
  <2> QED BY <1>5, <1>b, <2>10, <2>11 DEF PassInv
<1> QED BY <1>6, <1>7

\* A sweep that has come to its end has visited every block.
LEMMA SweepCovers ==
  ASSUME TypeOK, InFunction, pos = Len(program.list) + 1
  PROVE  \A b \in Listed(program) : \E n \in 1 .. pos - 1 : program.list[n] = b
<1>1. IsFunction(program)
  BY FunctionParts
<1>2. /\ Len(program.list) \in Nat
      /\ \A b \in Listed(program) : \E n \in 1 .. Len(program.list) : program.list[n] = b
  BY <1>1, ListCovers
<1>3. pos - 1 = Len(program.list)
  BY <1>2
<1> QED BY <1>2, <1>3

LEMMA SweepAgainKeeps == PassInv /\ SweepAgain => PassInv'
<1> SUFFICES ASSUME PassInv, SweepAgain PROVE PassInv'
  OBVIOUS
<1>1. /\ UNCHANGED <<functions, remaining, phase, cur, step, dom, reach, changed, modified>>
      /\ pos' = 1 /\ notDoneYet' = FALSE /\ step \in {"dom", "reach"}
  BY DEF SweepAgain, SweepEnds, maps
<1>2. InFunction /\ TypeOK
  BY <1>1 DEF InFunction, PassInv
<1>3. Len(program.list) \in Nat
  BY <1>2, FunctionParts
<1>4. /\ program' = program /\ blocks' = blocks /\ Mapped' = Mapped
      /\ \A b : Preds(b)' = Preds(b)
      /\ Stages' /\ BlocksInv'
  BY <1>1, <1>2, SameTurn
<1>5. TypeOK'
  <2>1. pos' \in 1 .. Len(program.list) + 1
    BY <1>1, <1>3
  <2> QED BY <1>1, <1>2, <2>1, TypeStays DEF TypeOK
<1>6. DomInv'
  <2>1. \A b : DomSettled(b)' = DomSettled(b)
    BY <1>1, <1>4 DEF DomSettled
  <2> QED BY <1>1, <1>4, <2>1 DEF PassInv, DomInv
<1>7. ReachInv'
  BY <1>1, <1>4 DEF PassInv, ReachInv
<1> QED BY <1>4, <1>5, <1>6, <1>7 DEF PassInv

\* When a sweep has changed nothing, dom has settled everywhere.
LEMMA GetReachKeeps == PassInv /\ GetReach => PassInv'
<1> SUFFICES ASSUME PassInv, GetReach PROVE PassInv'
  OBVIOUS
<1>1. /\ step = "dom" /\ pos = Len(program.list) + 1 /\ ~notDoneYet
      /\ step' = "reach" /\ reach' = FirstReach(cur) /\ pos' = 1
      /\ UNCHANGED <<functions, remaining, phase, cur, dom, notDoneYet, changed, modified>>
  BY DEF GetReach, SweepEnds
<1>2. InFunction /\ TypeOK /\ phase \in {"before", "after"}
  BY <1>1 DEF InFunction, PassInv, Stages, TypeOK
<1>3. /\ IsFunction(program) /\ blocks \subseteq Listed(program)
      /\ Len(program.list) \in Nat
  BY <1>2, FunctionParts
<1>4. /\ program' = program /\ blocks' = blocks /\ Mapped' = Mapped
      /\ \A b : Preds(b)' = Preds(b)
  BY <1>1, <1>2, SameTurn
<1>5. Mapped = blocks /\ (blocks = Listed(program) \/ blocks = Alive(program))
  BY <1>1, MappedIsBlocks
<1>6. Stages' /\ BlocksInv'
  BY <1>1, <1>2 DEF PassInv, Stages, BlocksInv, Awaits, Purged
<1>7. reach' = [b \in blocks |-> Cfg(program, b) \cup {b}]
  BY <1>1 DEF FirstReach, blocks, program
<1>8. reach' \in [blocks -> SUBSET blocks]
      /\ \A a \in blocks : \A b \in Cfg(program, a) \cup {a} : Reaches(program, a, b)
  BY <1>3, <1>5, <1>7, FirstReachInv
<1>9. ReachInv'
  BY <1>1, <1>4, <1>5, <1>7, <1>8 DEF ReachInv
<1>10. \A b \in blocks : DomSettled(b)
  BY <1>1, <1>2, <1>3, SweepCovers DEF PassInv, DomInv
<1>11. \A b : DomSettled(b)' = DomSettled(b)
  BY <1>1, <1>4 DEF DomSettled
<1>12. DomInv' /\ dom \in [blocks -> SUBSET blocks]
  BY <1>1, <1>2, <1>4, <1>10, <1>11 DEF PassInv, DomInv
<1>13. pos' \in 1 .. Len(program.list) + 1
  BY <1>1, <1>3
<1>14. TypeOK'
  BY <1>1, <1>2, <1>8, <1>12, <1>13, TypeStays DEF TypeOK
<1> QED BY <1>6, <1>9, <1>12, <1>14 DEF PassInv

LEMMA ReachDoneKeeps == PassInv /\ ReachDone => PassInv'
<1> SUFFICES ASSUME PassInv, ReachDone PROVE PassInv'
  OBVIOUS
<1>1. /\ step = "reach" /\ pos = Len(program.list) + 1 /\ ~notDoneYet
      /\ step' = IF phase = "remove" THEN "erase" ELSE "count"
      /\ UNCHANGED <<functions, remaining, phase, cur, dom, reach, pos, notDoneYet, modified>>
      /\ changed' \in BOOLEAN
  BY DEF ReachDone, SweepEnds, PassInv, TypeOK, maps
<1>2. InFunction /\ TypeOK /\ phase \in {"before", "remove", "after"}
  BY <1>1 DEF InFunction, PassInv, Stages, TypeOK
<1>3. /\ IsFunction(program) /\ blocks \subseteq Listed(program)
      /\ pos \in 1 .. Len(program.list) + 1
  BY <1>2, FunctionParts
<1>4. /\ program' = program /\ blocks' = blocks /\ Mapped' = Mapped
      /\ \A b : Preds(b)' = Preds(b)
  BY <1>1, <1>2, SameTurn
<1>5. Mapped = blocks
  BY <1>1, MappedIsBlocks
<1>6. Stages' /\ BlocksInv'
  BY <1>1, <1>2 DEF PassInv, Stages, BlocksInv, Awaits, Purged
<1>7. /\ reach \in [Mapped -> SUBSET Mapped]
      /\ \A b \in Mapped : Cfg(program, b) \cup {b} \subseteq reach[b]
      /\ \A a \in Mapped : \A b \in reach[a] : Reaches(program, a, b)
      /\ \A n \in 1 .. pos - 1 : ReachSettled(program.list[n])
  BY <1>1 DEF PassInv, ReachInv
<1>8. \A b \in Mapped : ReachSettled(b)
  BY <1>1, <1>2, <1>3, <1>5, <1>7, SweepCovers
<1>9. \A b : ReachSettled(b)' = ReachSettled(b)
  BY <1>1, <1>4 DEF ReachSettled
<1>10. ReachInv'
  BY <1>1, <1>4, <1>7, <1>8, <1>9 DEF ReachInv
<1>11. DomInv' /\ (phase # "remove" => dom \in [blocks -> SUBSET blocks])
  <2>1. \A b : DomSettled(b)' = DomSettled(b)
    BY <1>1, <1>4 DEF DomSettled
  <2> QED BY <1>1, <1>4, <2>1 DEF PassInv, DomInv
<1>12. TypeOK'
  BY <1>1, <1>2, <1>3, <1>5, <1>7, <1>11, TypeStays DEF TypeOK
<1> QED BY <1>6, <1>10, <1>11, <1>12 DEF PassInv

(***************************************************************************)
(* The loops over the functions.                                           *)
(***************************************************************************)
LEMMA CountKeeps == PassInv /\ CountFunction => PassInv'
<1> SUFFICES ASSUME PassInv, CountFunction PROVE PassInv'
  OBVIOUS
<1>1. /\ step = "count" /\ step' = "function"
      /\ UNCHANGED <<functions, remaining, phase, cur, notDoneYet, changed, modified>>
  BY DEF CountFunction
<1>2. phase \in {"before", "after"}
  BY <1>1 DEF PassInv, Stages, TypeOK
<1>3. Stages' /\ BlocksInv' /\ DomInv' /\ ReachInv'
  BY <1>1, <1>2 DEF PassInv, Stages, BlocksInv, Awaits, Purged, DomInv, ReachInv
<1>4. TypeOK'
  BY <1>1 DEF PassInv, TypeOK
<1> QED BY <1>3, <1>4 DEF PassInv

\* A declaration has no block to erase, and none that is reached.
LEMMA DeclarationParts ==
  ASSUME NEW f, f.list = << >>
  PROVE  Listed(f) = {} /\ Alive(f) = {}
BY DEF Listed, Alive

\* At the turn of a function nothing of it is left out, or it has been purged.
LEMMA NextFunctionKeeps == PassInv /\ NextFunction => PassInv'
<1> SUFFICES ASSUME PassInv, NextFunction PROVE PassInv'
  OBVIOUS
<1> DEFINE f == functions[cur + 1]
           left == remaining[cur + 1]
<1>1. /\ step = "function" /\ cur < Len(functions) /\ cur' = cur + 1
      /\ UNCHANGED <<functions, remaining, phase, notDoneYet, changed, modified>>
  BY DEF NextFunction
<1>2. /\ Len(functions) \in Nat /\ cur \in 0 .. Len(functions)
      /\ DOMAIN functions = 1 .. Len(functions)
      /\ \A n \in DOMAIN functions : IsFunction(functions[n])
  BY FunctionOfModule DEF PassInv, TypeOK
<1>3. /\ cur + 1 \in DOMAIN functions /\ IsFunction(f) /\ cur \in Nat
      /\ cur' \in 0 .. Len(functions) /\ cur' # 0
      /\ left \subseteq Listed(f) /\ (f.list # << >> => Entry \in left)
  BY <1>1, <1>2 DEF PassInv, TypeOK
<1>4. phase \in {"before", "remove", "after"}
  BY <1>1 DEF PassInv, Stages, TypeOK
<1>5. program' = f /\ blocks' = left
  BY <1>1 DEF program, blocks
<1>6. CASE f.list = << >>
  <2>1. UNCHANGED <<step, dom, reach, pos>>
    BY <1>6 DEF NextFunction, maps
  <2>2. Stages' /\ DomInv' /\ ReachInv'
    BY <1>1, <2>1 DEF PassInv, Stages, DomInv, ReachInv
  <2>3. remaining[cur + 1] = Alive(functions[cur + 1])
    BY <1>3, <1>6, DeclarationParts
  <2>4. BlocksInv'
    <3> SUFFICES ASSUME NEW n \in DOMAIN functions
                 PROVE  /\ Alive(functions[n]) \subseteq remaining[n]
                        /\ Awaits(n)' => remaining[n] = Listed(functions[n])
                        /\ Purged(n)' => remaining[n] = Alive(functions[n])
      BY <1>1 DEF BlocksInv
    <3>1. Awaits(n)' => Awaits(n)
      BY <1>1, <1>2, <1>3, <2>1 DEF Awaits
    <3>2. Purged(n)' => Purged(n) \/ n = cur + 1
      BY <1>1, <1>2, <1>3, <2>1 DEF Purged
    <3> QED BY <2>3, <3>1, <3>2 DEF PassInv, BlocksInv
  <2>5. TypeOK'
    BY <1>1, <1>3, <2>1 DEF PassInv, TypeOK
  <2> QED BY <2>2, <2>4, <2>5 DEF PassInv
<1>7. CASE f.list # << >>
  <2>1. /\ pos' = 1
        /\ phase = "remove" => step' = "reach" /\ reach' = FirstReach(cur + 1)
        /\ phase # "remove" => step' = "dom" /\ dom' = FirstDom(cur + 1)
    BY <1>7 DEF NextFunction
  <2>2. Stages'
    BY <1>1, <1>4, <2>1 DEF Stages
  <2>3. BlocksInv'
    <3> SUFFICES ASSUME NEW n \in DOMAIN functions
                 PROVE  /\ Alive(functions[n]) \subseteq remaining[n]
                        /\ Awaits(n)' => remaining[n] = Listed(functions[n])
                        /\ Purged(n)' => remaining[n] = Alive(functions[n])
      BY <1>1 DEF BlocksInv
    <3>1. Awaits(n)' => Awaits(n)
      BY <1>1, <1>2, <1>3, <2>1 DEF Awaits
    <3>2. Purged(n)' => Purged(n)
      BY <1>1, <1>2, <1>3, <1>4, <2>1 DEF Purged
    <3> QED BY <3>1, <3>2 DEF PassInv, BlocksInv
  <2>4. Len(f.list) \in Nat /\ left \subseteq Blocks
    BY <1>3, ListCovers
  <2>5. CASE phase = "remove"
    <3>1. left = Listed(f)
      BY <1>1, <1>2, <1>3, <2>5 DEF PassInv, BlocksInv, Awaits
    <3>2. reach' = [b \in left |-> Cfg(f, b) \cup {b}]
      BY <2>1, <2>5 DEF FirstReach
    <3>3. reach' \in [left -> SUBSET left]
          /\ \A a \in left : \A b \in Cfg(f, a) \cup {a} : Reaches(f, a, b)
      BY <1>3, <3>1, <3>2, FirstReachInv
    <3>4. Mapped' = left
      BY <1>1, <1>5, <2>5, <3>1 DEF Mapped
    <3>5. pos' = 1 /\ step' = "reach" /\ phase' = "remove"
      BY <1>1, <2>1, <2>5
    <3>6. ReachInv'
      BY <1>5, <3>2, <3>3, <3>4, <3>5 DEF ReachInv
    <3>7. DomInv'
      BY <3>5 DEF DomInv
    <3>8. pos' \in 1 .. Len(f.list) + 1
      BY <2>4, <3>5
    <3>9. TypeOK'
      BY <1>1, <1>3, <1>5, <1>7, <3>3, <3>5, <3>8 DEF PassInv, TypeOK
    <3> QED BY <2>2, <2>3, <3>6, <3>7, <3>9 DEF PassInv
  <2>6. CASE phase # "remove"
    <3>1. dom' = [b \in left |-> IF b = Entry THEN {b} ELSE left]
      BY <2>1, <2>6 DEF FirstDom
    <3>2. /\ dom' \in [left -> SUBSET left]
          /\ dom'[Entry] = {Entry}
          /\ \A b \in left : b \in dom'[b]
          /\ \A d, b \in left : Dominates(f, d, b) => d \in dom'[b]
      <4>1. left \subseteq Blocks /\ Entry \in left
        BY <1>3, <1>7, <2>4
      <4> HIDE DEF f, left
      <4> QED BY <3>1, <4>1, FirstDomInv
    <3>3. pos' = 1 /\ step' = "dom" /\ phase' = phase
      BY <1>1, <2>1, <2>6
    <3>4. DomInv'
      BY <1>5, <3>2, <3>3 DEF DomInv
    <3>5. ReachInv'
      BY <3>3 DEF ReachInv
    <3>6. pos' \in 1 .. Len(f.list) + 1
      BY <2>4, <3>3
    <3>7. TypeOK'
      BY <1>1, <1>3, <1>5, <1>7, <3>2, <3>3, <3>6 DEF PassInv, TypeOK
    <3> QED BY <2>2, <2>3, <3>4, <3>5, <3>7 DEF PassInv
  <2> QED BY <2>5, <2>6
<1> QED BY <1>6, <1>7

LEMMA NextPhaseKeeps == PassInv /\ NextPhase => PassInv'
<1> SUFFICES ASSUME PassInv, NextPhase PROVE PassInv'
  OBVIOUS
<1>1. /\ step = "function" /\ cur = Len(functions) /\ cur' = 0
      /\ phase' = (CASE phase = "before" -> "remove"
                     [] phase = "remove" -> "after"
                     [] phase = "after"  -> "done")
      /\ step' = IF phase = "after" THEN "done" ELSE "function"
      /\ UNCHANGED <<functions, remaining, notDoneYet, changed, modified>>
  BY DEF NextPhase
<1>2. /\ Len(functions) \in Nat /\ DOMAIN functions = 1 .. Len(functions)
  BY FunctionOfModule DEF PassInv, TypeOK
<1>3. phase \in {"before", "remove", "after"}
  BY <1>1 DEF PassInv, Stages, TypeOK
<1>4. /\ phase = "before" => phase' = "remove" /\ step' = "function"
      /\ phase = "remove" => phase' = "after" /\ step' = "function"
      /\ phase = "after" => phase' = "done" /\ step' = "done"
  BY <1>1, <1>3
<1>5. Stages' /\ DomInv' /\ ReachInv'
  BY <1>3, <1>4 DEF Stages, DomInv, ReachInv
<1>6. BlocksInv'
  <2> SUFFICES ASSUME NEW n \in DOMAIN functions
               PROVE  /\ Alive(functions[n]) \subseteq remaining[n]
                      /\ Awaits(n)' => remaining[n] = Listed(functions[n])
                      /\ Purged(n)' => remaining[n] = Alive(functions[n])
    BY <1>1 DEF BlocksInv
  <2>1. Awaits(n)' => Awaits(n)
    BY <1>3, <1>4 DEF Awaits
  <2>2. n \in 1 .. Len(functions) /\ ~(n < 0)
    BY <1>2
  <2>3. Purged(n)' => Purged(n)
    BY <1>1, <1>2, <1>3, <1>4, <2>2 DEF Purged
  <2> QED BY <2>1, <2>3 DEF PassInv, BlocksInv
<1>7. TypeOK'
  BY <1>1, <1>2, <1>3, <1>4 DEF PassInv, TypeOK
<1> QED BY <1>5, <1>6, <1>7 DEF PassInv

(***************************************************************************)
(* What the settled maps are.                                              *)
(***************************************************************************)

\* A settled entry of reach is a set the edges do not leave.
LEMMA SettledReach ==
  ASSUME PassInv, step \in {"count", "erase"}
  PROVE  \A a, b \in Mapped : b \in reach[a] <=> Reaches(program, a, b)
<1>1. /\ reach \in [Mapped -> SUBSET Mapped]
      /\ \A b \in Mapped : Cfg(program, b) \cup {b} \subseteq reach[b]
      /\ \A a \in Mapped : \A b \in reach[a] : Reaches(program, a, b)
      /\ \A b \in Mapped : ReachSettled(b)
  BY DEF PassInv, ReachInv
<1>2. Mapped \subseteq Blocks
  BY FunctionParts DEF PassInv, InFunction, Mapped
<1>3. ASSUME NEW a \in Mapped PROVE Closed(program, reach[a])
  BY <1>1 DEF Closed, ReachSettled
<1>4. ASSUME NEW a \in Mapped, NEW b \in Mapped, Reaches(program, a, b) PROVE b \in reach[a]
  <2>1. reach[a] \in SUBSET Blocks /\ a \in reach[a]
    BY <1>1, <1>2
  <2> QED BY <1>3, <1>4, <2>1 DEF Reaches
<1> QED BY <1>1, <1>4

\* The blocks d is not recorded to dominate are what is reached without d.
LEMMA SettledDom ==
  ASSUME PassInv, step = "count"
  PROVE  \A d, b \in blocks : d \in dom[b] <=> Dominates(program, d, b)
<1>1. /\ phase \in {"before", "after"} /\ blocks \subseteq Blocks /\ Entry \in blocks
      /\ IsFunction(program) /\ blocks \subseteq Listed(program)
  BY FunctionParts DEF PassInv, Stages, TypeOK, InFunction
<1>2. /\ dom \in [blocks -> SUBSET blocks]
      /\ dom[Entry] = {Entry}
      /\ \A b \in blocks : b \in dom[b]
      /\ \A d, b \in blocks : Dominates(program, d, b) => d \in dom[b]
      /\ \A b \in blocks : DomSettled(b)
  BY <1>1 DEF PassInv, DomInv
<1>3. \A b \in blocks : Cfg(program, b) \subseteq blocks
  <2>1. blocks = Listed(program) \/ blocks = Alive(program)
    BY MappedIsBlocks
  <2> QED BY <1>1, <2>1, CfgType, AliveIsClosed
<1>4. ASSUME NEW d \in blocks, NEW b \in blocks, d \in dom[b] PROVE Dominates(program, d, b)
  <2>1. CASE d = b \/ d = Entry
    <3>1. {} \in SUBSET (Blocks \ {d, b})
      OBVIOUS
    <3> QED BY <2>1, <3>1 DEF Dominates
  <2>2. CASE d # b /\ d # Entry
    <3> DEFINE S == {s \in blocks : d \notin dom[s]}
    <3>1. S \in SUBSET (Blocks \ {d, b})
      BY <1>1, <1>2, <1>4
    <3>2. Entry \in S
      BY <1>1, <1>2, <2>2
    <3>3. ASSUME NEW s \in S, NEW t \in Cfg(program, s) PROVE t \in S \cup {d}
      <4>1. t \in blocks /\ s \in Preds(t)
        BY <1>3 DEF Preds
      <4>2. CASE d \in dom[t] /\ t # d
        <5>1. t # Entry
          BY <1>2, <2>2, <4>2
        <5>2. d \in dom[s]
          BY <1>2, <4>1, <4>2, <5>1 DEF DomSettled
        <5> QED BY <5>2
      <4> QED BY <4>1, <4>2
    <3>4. \A s \in S : Cfg(program, s) \subseteq S \cup {d}
      BY <3>3
    <3> HIDE DEF S
    <3> QED BY <3>1, <3>2, <3>4 DEF Dominates
  <2> QED BY <2>1, <2>2
<1> QED BY <1>2, <1>4

LEMMA EraseBlockKeeps ==
  ASSUME PassInv, NEW b \in Blocks, EraseBlock(b) PROVE PassInv'
<1>1. /\ step = "erase" /\ b \in blocks /\ b \notin reach[Entry]
      /\ remaining' = [remaining EXCEPT ![cur] = blocks \ {b}]
      /\ changed' = TRUE
      /\ UNCHANGED <<functions, phase, cur, step, dom, reach, pos, notDoneYet, modified>>
  BY DEF EraseBlock, Unused, maps
<1>2. InFunction /\ TypeOK /\ phase = "remove"
  BY <1>1 DEF InFunction, PassInv, Stages, TypeOK
<1>3. /\ cur \in DOMAIN functions /\ IsFunction(program)
      /\ blocks \subseteq Listed(program) /\ Entry \in Listed(program)
      /\ Listed(program) \subseteq Blocks
  BY <1>2, FunctionParts
<1>4. DOMAIN remaining = DOMAIN functions
  BY <1>2 DEF TypeOK
<1>5. /\ program' = program /\ blocks' = blocks \ {b}
      /\ DOMAIN remaining' = DOMAIN functions
      /\ \A n \in DOMAIN functions : n # cur => remaining'[n] = remaining[n]
      /\ remaining'[cur] = blocks \ {b}
  BY <1>1, <1>3, <1>4 DEF program, blocks
<1>6. Mapped = Listed(program) /\ Mapped' = Mapped
  BY <1>1, <1>2, <1>5 DEF Mapped
<1>7. b \notin Alive(program)
  BY <1>1, <1>3, <1>6, SettledReach DEF Alive
<1>8. Stages' /\ DomInv'
  BY <1>1, <1>2 DEF PassInv, Stages, DomInv
<1>9. BlocksInv'
  <2> SUFFICES ASSUME NEW n \in DOMAIN functions
               PROVE  /\ Alive(functions[n]) \subseteq remaining'[n]
                      /\ Awaits(n)' => remaining'[n] = Listed(functions[n])
                      /\ Purged(n)' => remaining'[n] = Alive(functions[n])
    BY <1>1 DEF BlocksInv
  <2>1. Awaits(n)' => n # cur /\ Awaits(n)
    BY <1>1, <1>2 DEF Awaits, TypeOK
  <2>2. Purged(n)' => n # cur /\ Purged(n)
    BY <1>1, <1>2 DEF Purged, TypeOK
  <2>3. /\ Alive(functions[n]) \subseteq remaining[n]
        /\ Awaits(n) => remaining[n] = Listed(functions[n])
        /\ Purged(n) => remaining[n] = Alive(functions[n])
    BY DEF PassInv, BlocksInv
  <2>4. CASE n = cur
    BY <1>5, <1>7, <2>1, <2>2, <2>3, <2>4 DEF blocks, program
  <2>5. CASE n # cur
    BY <1>5, <2>1, <2>2, <2>3, <2>5
  <2> QED BY <2>4, <2>5
<1>10. ReachInv'
  <2>1. \A c : ReachSettled(c)' = ReachSettled(c)
    BY <1>1, <1>6 DEF ReachSettled
  <2> QED BY <1>1, <1>5, <1>6, <2>1 DEF PassInv, ReachInv
<1>11. Entry # b
  BY <1>3, <1>7, AliveIsClosed
<1>12. \A n \in DOMAIN functions :
         /\ remaining'[n] \subseteq Listed(functions[n])
         /\ functions[n].list # << >> => Entry \in remaining'[n]
  <2> SUFFICES ASSUME NEW n \in DOMAIN functions
               PROVE  /\ remaining'[n] \subseteq Listed(functions[n])
                      /\ functions[n].list # << >> => Entry \in remaining'[n]
    OBVIOUS
  <2>1. /\ remaining[n] \subseteq Listed(functions[n])
        /\ functions[n].list # << >> => Entry \in remaining[n]
    BY <1>2 DEF TypeOK
  <2> QED BY <1>5, <1>11, <2>1 DEF blocks
<1>13. TypeOK'
  BY <1>1, <1>2, <1>5, <1>12 DEF TypeOK
<1> QED BY <1>8, <1>9, <1>10, <1>13 DEF PassInv

\* When nothing is left to erase, what is left is what the entry reaches.
LEMMA EraseDoneKeeps == PassInv /\ EraseDone => PassInv'
<1> SUFFICES ASSUME PassInv, EraseDone PROVE PassInv'
  OBVIOUS
<1>1. /\ step = "erase" /\ Unused = {} /\ step' = "function"
      /\ modified' = (modified \/ changed)
      /\ UNCHANGED <<functions, remaining, phase, cur, notDoneYet, changed>>
  BY DEF EraseDone
<1>2. InFunction /\ TypeOK /\ phase = "remove"
  BY <1>1 DEF InFunction, PassInv, Stages, TypeOK
<1>3. /\ cur \in DOMAIN functions /\ blocks \subseteq Listed(program)
      /\ Entry \in Listed(program)
  BY <1>2, FunctionParts
<1>4. Mapped = Listed(program)
  BY <1>2 DEF Mapped
<1>5. \A b \in blocks : b \in Alive(program)
  BY <1>1, <1>3, <1>4, SettledReach DEF Alive, Unused
<1>6. remaining[cur] = Alive(functions[cur])
  BY <1>3, <1>5 DEF PassInv, BlocksInv, blocks, program
<1>7. BlocksInv'
  <2> SUFFICES ASSUME NEW n \in DOMAIN functions
               PROVE  /\ Alive(functions[n]) \subseteq remaining[n]
                      /\ Awaits(n)' => remaining[n] = Listed(functions[n])
                      /\ Purged(n)' => remaining[n] = Alive(functions[n])
    BY <1>1 DEF BlocksInv
  <2>1. Awaits(n)' => Awaits(n)
    BY <1>1, <1>2 DEF Awaits
  <2>2. Purged(n)' => n = cur \/ Purged(n)
    BY <1>1, <1>2 DEF Purged
  <2> QED BY <1>6, <2>1, <2>2 DEF PassInv, BlocksInv
<1>8. Stages' /\ DomInv' /\ ReachInv'
  BY <1>1, <1>2 DEF PassInv, Stages, DomInv, ReachInv
<1>9. TypeOK'
  BY <1>1, <1>2 DEF TypeOK
<1> QED BY <1>7, <1>8, <1>9 DEF PassInv

LEMMA StepPassInv == PassInv /\ [Next]_vars => PassInv'
<1> SUFFICES ASSUME PassInv, [Next]_vars PROVE PassInv'
  OBVIOUS
<1>1. CASE UNCHANGED vars
  BY <1>1 DEF vars, maps, PassInv, TypeOK, Stages, BlocksInv, Awaits, Purged, DomInv,
              ReachInv, Mapped, DomSettled, ReachSettled, Preds, program, blocks
<1>2. ASSUME NEW b \in Blocks, EraseBlock(b) PROVE PassInv'
  BY <1>2, EraseBlockKeeps
<1> QED
  BY <1>1, <1>2, NextFunctionKeeps, NextPhaseKeeps, VisitDomKeeps, VisitReachKeeps,
     SweepAgainKeeps, GetReachKeeps, ReachDoneKeeps, CountKeeps, EraseDoneKeeps DEF Next

\* A function that loses blocks is reported in the result for it, and from the
\* end of its turn in that for the module.
LEMMA StepReportInv == PassInv /\ ReportInv /\ [Next]_vars => ReportInv'
<1> SUFFICES ASSUME PassInv, ReportInv, [Next]_vars PROVE ReportInv'
  OBVIOUS
<1>1. CASE UNCHANGED <<functions, remaining, changed, modified>> /\ step # "erase" /\ step' # "erase"
  BY <1>1 DEF ReportInv
<1>2. CASE UNCHANGED vars
  BY <1>2 DEF ReportInv, vars
<1>3. CASE ReachDone
  <2>1. /\ step = "reach" /\ UNCHANGED <<functions, remaining, phase, cur, modified>>
    BY <1>3 DEF ReachDone, SweepEnds
  <2>2. phase = "remove" => \A n \in DOMAIN functions : n = cur => remaining[n] = Listed(functions[n])
    BY <2>1 DEF PassInv, BlocksInv, Awaits
  <2>3. phase # "remove" => step' = "count"
    BY <1>3 DEF ReachDone
  <2> QED BY <2>1, <2>2, <2>3 DEF ReportInv
<1>4. ASSUME NEW b \in Blocks, EraseBlock(b) PROVE ReportInv'
  <2>1. /\ step = "erase" /\ changed' = TRUE
        /\ remaining' = [remaining EXCEPT ![cur] = blocks \ {b}]
        /\ UNCHANGED <<functions, phase, cur, step, modified>>
    BY <1>4 DEF EraseBlock
  <2>2. phase = "remove"
    BY <2>1 DEF PassInv, Stages, TypeOK
  <2>3. DOMAIN remaining = DOMAIN functions
    BY DEF PassInv, TypeOK
  <2> QED BY <2>1, <2>2, <2>3 DEF ReportInv
<1>5. CASE EraseDone
  <2>1. /\ step = "erase" /\ modified' = (modified \/ changed) /\ step' = "function"
        /\ UNCHANGED <<functions, remaining, phase, cur>>
    BY <1>5 DEF EraseDone
  <2>2. {changed, modified} \subseteq BOOLEAN
    BY DEF PassInv, TypeOK
  <2> QED BY <2>1, <2>2 DEF ReportInv
<1>6. CASE NextFunction \/ NextPhase
  BY <1>1, <1>6 DEF NextFunction, NextPhase
<1>7. CASE VisitDom \/ VisitReach \/ SweepAgain \/ GetReach \/ CountFunction
  BY <1>1, <1>7 DEF VisitDom, VisitReach, SweepAgain, GetReach, CountFunction, Sweeping, SweepEnds
<1> QED BY <1>2, <1>3, <1>4, <1>5, <1>6, <1>7 DEF Next

(***************************************************************************)
(* The statistics.  While the pass counts for the second time, they are    *)
(* those of the functions whose turn is over.                              *)
(***************************************************************************)
Counted == {n \in Defined : n < cur \/ (n = cur /\ step = "function")}

StatsInv ==
  LET loops == stats["after"].singleEntryLoops
      L == {LoopsOf(functions[n]) : n \in Counted}
  IN  /\ functions \in Modules
      /\ DOMAIN stats = {"before", "after"}
      /\ phase \in {"before", "remove"} => stats["after"] = NoStats
      /\ phase = "after" =>
           /\ CountedOver(Counted)
           /\ Counted = {} => loops.min = MaxInt /\ loops.max = 0
           /\ Counted # {} => /\ loops.min \in L /\ loops.max \in L
                              /\ \A y \in L : loops.min <= y /\ y <= loops.max
      /\ phase = "done" => CountedOver(Defined)

\* The edges of a block are a natural number of edges, and so are some of them.
LEMMA EdgesOfBlock ==
  ASSUME NEW p, IsFunction(p), NEW b \in Listed(p), NEW I, I \subseteq DOMAIN p.succ[b]
  PROVE  Len(p.succ[b]) \in Nat /\ Count(I) \in Nat /\ Count(I) <= Len(p.succ[b])
<1>1. b \in Blocks
  BY ListCovers
<1>2. p.succ[b] \in Seq(Blocks \ {Entry})
  BY <1>1 DEF IsFunction
<1>3. Len(p.succ[b]) \in Nat /\ DOMAIN p.succ[b] = 1 .. Len(p.succ[b])
  BY <1>2, LenProperties
<1> DEFINE n == Len(p.succ[b])
<1> HIDE DEF n
<1>4. IsFiniteSet(1 .. n) /\ Cardinality(1 .. n) = n
  <2>1. n \in Nat /\ 1 \in Int /\ n \in Int
    BY <1>3 DEF n
  <2>2. IsFiniteSet(1 .. n) /\ Cardinality(1 .. n) = IF 1 > n THEN 0 ELSE n - 1 + 1
    BY <2>1, FS_Interval
  <2> QED BY <2>1, <2>2
<1>5. I \subseteq 1 .. n
  BY <1>3 DEF n
<1>6. IsFiniteSet(I) /\ Cardinality(I) <= Cardinality(1 .. n)
  BY <1>4, <1>5, FS_Subset
<1>7. Cardinality(I) \in Nat
  BY <1>6, FS_CardinalityType
<1> QED BY <1>3, <1>4, <1>6, <1>7 DEF Count, n

\* No function has more edges to dominators than it has edges, nor its module.
LEMMA LoopsFit ==
  ASSUME NEW m \in Modules, NEW n \in DOMAIN m
  PROVE  LoopsOf(m[n]) \in Nat /\ LoopsOf(m[n]) <= MaxInt
<1> DEFINE p == m[n]
           L == [b \in Alive(p) |-> Count({i \in DOMAIN p.succ[b] : Dominates(p, p.succ[b][i], b)})]
           E(q) == [b \in Listed(q) |-> Len(q.succ[b])]
           M == [k \in DOMAIN m |-> Edges(m[k], Listed(m[k]))]
<1>1. /\ Len(m) \in Nat /\ DOMAIN m = 1 .. Len(m)
      /\ \A k \in DOMAIN m : IsFunction(m[k])
  BY ModulesAssumption, ModuleParts
<1>2. ASSUME NEW q, IsFunction(q)
      PROVE  /\ IsFiniteSet(Listed(q))
             /\ \A b \in Listed(q) : E(q)[b] \in Nat
             /\ SumFunctionOnSet(E(q), Listed(q)) \in Nat
             /\ Edges(q, Listed(q)) = SumFunctionOnSet(E(q), Listed(q))
  <2>1. IsFiniteSet(Listed(q))
    BY <1>2, BlocksAssumption, ListCovers, FS_Subset
  <2>2. \A b \in Listed(q) : E(q)[b] \in Nat
    BY <1>2, EdgesOfBlock
  <2>3. DOMAIN E(q) = Listed(q)
    OBVIOUS
  <2>4. Edges(q, Listed(q)) = SumFunctionOnSet(E(q), Listed(q))
    BY <2>3 DEF Edges, SumFunction
  <2> HIDE DEF E
  <2> QED BY <2>1, <2>2, <2>4, SumRemove
<1>3. Alive(p) \subseteq Listed(p)
  BY DEF Alive
<1>4. \A b \in Alive(p) : L[b] \in Nat /\ L[b] <= E(p)[b]
  <2> SUFFICES ASSUME NEW b \in Alive(p) PROVE L[b] \in Nat /\ L[b] <= E(p)[b]
    OBVIOUS
  <2> DEFINE I == {i \in DOMAIN p.succ[b] : Dominates(p, p.succ[b][i], b)}
  <2>1. b \in Listed(p) /\ IsFunction(p)
    BY <1>1, <1>3
  <2>2. I \subseteq DOMAIN p.succ[b]
    OBVIOUS
  <2>3. Count(I) \in Nat /\ Count(I) <= Len(p.succ[b])
    <3> HIDE DEF I, p
    <3> QED BY <2>1, <2>2, EdgesOfBlock
  <2>4. L[b] = Count(I) /\ E(p)[b] = Len(p.succ[b])
    BY <2>1
  <2> QED BY <2>3, <2>4
<1>5. LoopsOf(p) = SumFunctionOnSet(L, Alive(p))
  <2>1. DOMAIN L = Alive(p)
    OBVIOUS
  <2> QED BY <2>1 DEF LoopsOf, SumFunction
<1>6. LoopsOf(p) \in Nat /\ LoopsOf(p) <= SumFunctionOnSet(E(p), Listed(p))
  <2>1. IsFunction(p)
    BY <1>1
  <2>2. IsFiniteSet(Listed(p)) /\ \A b \in Listed(p) : E(p)[b] \in Nat
    BY <1>2, <2>1
  <2>3. IsFiniteSet(Alive(p))
    BY <1>3, <2>2, FS_Subset
  <2> DEFINE e == E(p)
  <2>4. \A b \in Listed(p) : e[b] \in Nat
    BY <2>2
  <2>5. \A b \in Alive(p) : L[b] \in Nat /\ L[b] <= e[b]
    BY <1>4
  <2> HIDE DEF L, e, p
  <2>6. SumFunctionOnSet(L, Alive(p)) <= SumFunctionOnSet(e, Listed(p))
    BY <1>3, <2>2, <2>4, <2>5, SumLe
  <2>7. SumFunctionOnSet(L, Alive(p)) \in Nat
    BY <2>3, <2>5, SumRemove
  <2> QED BY <1>5, <2>6, <2>7 DEF e
<1>7. /\ \A k \in DOMAIN m : M[k] \in Nat
      /\ M[n] = SumFunctionOnSet(E(p), Listed(p))
  <2>1. \A k \in DOMAIN m : Edges(m[k], Listed(m[k])) \in Nat
    <3> HIDE DEF E
    <3> QED BY <1>1, <1>2
  <2>2. Edges(p, Listed(p)) = SumFunctionOnSet(E(p), Listed(p))
    <3>1. IsFunction(p)
      BY <1>1
    <3> HIDE DEF E, p
    <3> QED BY <1>2, <3>1
  <2> QED BY <2>1, <2>2
<1>8. SumFunctionOnSet(M, DOMAIN m) <= MaxInt
  <2>1. DOMAIN M = DOMAIN m
    OBVIOUS
  <2>2. SumFunction(M) <= MaxInt
    BY CountersAssumption
  <2> QED BY <2>1, <2>2 DEF SumFunction
<1>9. IsFiniteSet(DOMAIN m)
  BY <1>1, FS_Interval
<1>10. /\ SumFunctionOnSet(M, DOMAIN m) = M[n] + SumFunctionOnSet(M, DOMAIN m \ {n})
       /\ SumFunctionOnSet(M, DOMAIN m \ {n}) \in Nat /\ M[n] \in Nat
  <2>1. \A k \in DOMAIN m \ {n} : M[k] \in Nat
    BY <1>7
  <2>2. IsFiniteSet(DOMAIN m \ {n})
    BY <1>9, FS_RemoveElement
  <2>3. SumFunctionOnSet(M, DOMAIN m \ {n}) \in Nat
    <3> HIDE DEF M
    <3> QED BY <2>1, <2>2, SumRemove
  <2>4. SumFunctionOnSet(M, DOMAIN m) = M[n] + SumFunctionOnSet(M, DOMAIN m \ {n})
    <3> HIDE DEF M
    <3> QED BY <1>7, <1>9, SumRemove
  <2> QED BY <1>7, <2>3, <2>4
<1> HIDE DEF M, E, L, p
<1>11. LoopsOf(p) <= MaxInt
  BY <1>6, <1>7, <1>8, <1>10 DEF MaxInt
<1> QED BY <1>6, <1>11 DEF p

LEMMA SumGrows ==
  ASSUME NEW f, NEW g, NEW D, NEW x, x \notin D, IsFiniteSet(D),
         DOMAIN f = D, DOMAIN g = D \cup {x},
         \A n \in D \cup {x} : g[n] \in Nat, \A n \in D : f[n] = g[n]
  PROVE  SumFunction(g) = SumFunction(f) + g[x]
<1>1. IsFiniteSet(D \cup {x})
  BY FS_AddElement
<1>2. /\ SumFunctionOnSet(g, D \cup {x}) = g[x] + SumFunctionOnSet(g, (D \cup {x}) \ {x})
      /\ (D \cup {x}) \ {x} = D
  BY <1>1, SumRemove
<1>3. SumFunctionOnSet(f, D) = SumFunctionOnSet(g, D)
  BY SumSame
<1>4. SumFunctionOnSet(g, D) \in Nat /\ g[x] \in Nat
  BY SumRemove
<1> QED BY <1>2, <1>3, <1>4 DEF SumFunction

LEMMA MinOfTwo ==
  ASSUME NEW a \in Int, NEW b \in Int
  PROVE  /\ Min({a, b}) = IF a <= b THEN a ELSE b
         /\ Max({a, b}) = IF a <= b THEN b ELSE a
BY DEF Min, Max

LEMMA LeastIsMin ==
  ASSUME NEW S, S \subseteq Int, NEW m \in S
  PROVE  /\ (\A y \in S : m <= y) => Min(S) = m
         /\ (\A y \in S : y <= m) => Max(S) = m
<1>1. ASSUME \A y \in S : m <= y PROVE Min(S) = m
  <2>1. \E x \in S : \A y \in S : x <= y
    BY <1>1
  <2>2. Min(S) \in S /\ \A y \in S : Min(S) <= y
    <3> DEFINE P(x) == x \in S /\ \A y \in S : x <= y
    <3>1. Min(S) = CHOOSE x : P(x)
      BY Zenon DEF Min
    <3>2. \E x : P(x)
      BY <2>1
    <3> HIDE DEF P
    <3>3. P(Min(S))
      BY <3>1, <3>2, Zenon
    <3> QED BY <3>3 DEF P
  <2> DEFINE k == Min(S)
  <2> HIDE DEF k
  <2>3. k \in Int /\ m \in Int /\ m <= k /\ k <= m
    BY <1>1, <2>2 DEF k
  <2>4. k = m
    BY <2>3
  <2> QED BY <2>4 DEF k
<1>2. ASSUME \A y \in S : y <= m PROVE Max(S) = m
  <2>1. \E x \in S : \A y \in S : x >= y
    BY <1>2
  <2>2. Max(S) \in S /\ \A y \in S : Max(S) >= y
    <3> DEFINE P(x) == x \in S /\ \A y \in S : x >= y
    <3>1. Max(S) = CHOOSE x : P(x)
      BY Zenon DEF Max
    <3>2. \E x : P(x)
      BY <2>1
    <3> HIDE DEF P
    <3>3. P(Max(S))
      BY <3>1, <3>2, Zenon
    <3> QED BY <3>3 DEF P
  <2> DEFINE k == Max(S)
  <2> HIDE DEF k
  <2>3. k \in Int /\ m \in Int /\ m <= k /\ k <= m
    BY <1>2, <2>2 DEF k
  <2>4. k = m
    BY <2>3
  <2> QED BY <2>4 DEF k
<1> QED BY <1>1, <1>2

LEMMA InitStatsInv == Init => StatsInv
BY DEF Init, StatsInv

\* Declarations have nothing to count.
LEMMA CountedFacts ==
  ASSUME PassInv
  PROVE  /\ Counted \subseteq Defined /\ Defined \subseteq DOMAIN functions
         /\ IsFiniteSet(DOMAIN functions) /\ IsFiniteSet(Counted)
<1>1. Len(functions) \in Nat /\ DOMAIN functions = 1 .. Len(functions)
  BY FunctionOfModule DEF PassInv, TypeOK
<1>2. IsFiniteSet(DOMAIN functions)
  BY <1>1, FS_Interval
<1>3. Counted \subseteq Defined /\ Defined \subseteq DOMAIN functions
  BY DEF Counted, Defined
<1>4. Counted \in SUBSET (DOMAIN functions)
  BY <1>3
<1> QED BY <1>2, <1>3, <1>4, FS_Subset

LEMMA CallsType ==
  ASSUME PassInv, NEW f
  PROVE  CallsOf(f) \in Nat
<1>1. Callees(f, Alive(f)) \in SUBSET (DOMAIN functions)
  BY DEF Callees
<1>2. IsFiniteSet(Callees(f, Alive(f)))
  BY <1>1, CountedFacts, FS_Subset
<1> QED BY <1>2, FS_CardinalityType DEF CallsOf, Count

\* What getStats makes of a purged function.
LEMMA StatsOfTurn ==
  ASSUME PassInv, step = "count", phase = "after"
  PROVE  /\ FunctionStats.functionCalls = CallsOf(program)
         /\ FunctionStats.singleEntryLoops = LoopsOf(program)
<1>1. cur \in DOMAIN functions /\ IsFunction(program)
  BY FunctionParts DEF PassInv, InFunction
<1>2. blocks = Alive(program)
  BY <1>1 DEF PassInv, BlocksInv, Purged, blocks, program
<1>3. FunctionStats.functionCalls = CallsOf(program)
  BY <1>2 DEF FunctionStats, CallsOf
<1>4. \A d, b \in blocks : d \in dom[b] <=> Dominates(program, d, b)
  BY SettledDom
<1>5. ASSUME NEW b \in blocks
      PROVE  {i \in DOMAIN program.succ[b] : program.succ[b][i] \in dom[b]}
               = {i \in DOMAIN program.succ[b] : Dominates(program, program.succ[b][i], b)}
  <2>1. \A i \in DOMAIN program.succ[b] : program.succ[b][i] \in blocks
    BY <1>1, <1>2, AliveIsClosed DEF Cfg
  <2> QED BY <1>4, <2>1
<1>6. SingleEntryLoops = LoopsOf(program)
  <2>1. [b \in blocks |-> Count({i \in DOMAIN program.succ[b] : program.succ[b][i] \in dom[b]})]
          = [b \in Alive(program) |->
               Count({i \in DOMAIN program.succ[b] : Dominates(program, program.succ[b][i], b)})]
    BY <1>2, <1>5
  <2> QED BY <2>1, Zenon DEF SingleEntryLoops, LoopsOf
<1> QED BY <1>3, <1>6 DEF FunctionStats

\* One more function is counted.
LEMMA CountStats ==
  ASSUME PassInv, StatsInv, CountFunction, phase = "after"
  PROVE  StatsInv'
<1> DEFINE D == Counted
           T == stats["after"]
           T1 == stats'["after"]
           loops == LoopsOf(functions[cur])
           calls == CallsOf(functions[cur])
           L(E) == {LoopsOf(functions[n]) : n \in E}
<1>1. /\ step = "count" /\ step' = "function" /\ phase' = "after"
      /\ stats' = [stats EXCEPT !["after"] = AddFunction(T, FunctionStats)]
      /\ UNCHANGED <<functions, cur>>
  BY DEF CountFunction
<1>2. cur \in DOMAIN functions /\ functions[cur].list # << >> /\ cur \in Int
  <2>1. cur \in DOMAIN functions /\ cur \in 0 .. Len(functions) /\ Len(functions) \in Nat
    BY <1>1, FunctionParts, FunctionOfModule DEF PassInv, InFunction, TypeOK
  <2>2. functions[cur].list # << >>
    BY <1>1 DEF PassInv, TypeOK, program
  <2> QED BY <2>1, <2>2
<1>3. Counted' = D \cup {cur} /\ cur \notin D
  <2>1. cur \in Defined /\ Defined' = Defined
    BY <1>1, <1>2 DEF Defined
  <2> QED BY <1>1, <1>2, <2>1 DEF Counted
<1>4. FunctionStats.functionCalls = calls /\ FunctionStats.singleEntryLoops = loops
  BY <1>1, StatsOfTurn DEF program
<1>5. /\ D \subseteq DOMAIN functions /\ IsFiniteSet(D)
      /\ \A n \in DOMAIN functions : LoopsOf(functions[n]) \in Nat /\ LoopsOf(functions[n]) <= MaxInt
      /\ \A n \in DOMAIN functions : CallsOf(functions[n]) \in Nat
  BY CountedFacts, LoopsFit, CallsType DEF StatsInv
<1>6. /\ DOMAIN stats' = {"before", "after"}
      /\ T1.functions = T.functions + 1
      /\ T1.functionCalls = T.functionCalls + calls
      /\ T1.singleEntryLoops.min = Min({loops, T.singleEntryLoops.min})
      /\ T1.singleEntryLoops.max = Max({loops, T.singleEntryLoops.max})
      /\ T1.singleEntryLoops.total = T.singleEntryLoops.total + loops
  <2>1. DOMAIN stats = {"before", "after"}
    BY DEF StatsInv
  <2>2. T1 = AddFunction(T, FunctionStats) /\ DOMAIN stats' = {"before", "after"}
    BY <1>1, <2>1
  <2> DEFINE F == FunctionStats
  <2>3. F.functionCalls = calls /\ F.singleEntryLoops = loops
    BY <1>4
  <2>4. T1 = AddFunction(T, F)
    BY <2>2
  <2> HIDE DEF F, T, T1, loops, calls
  <2>5. /\ T1.functions = T.functions + 1
        /\ T1.functionCalls = T.functionCalls + F.functionCalls
        /\ T1.singleEntryLoops = AddInt(T.singleEntryLoops, F.singleEntryLoops)
    BY <2>4 DEF AddFunction
  <2> QED BY <2>2, <2>3, <2>5 DEF AddInt
<1>7. /\ T.functions = Count(D)
      /\ T.functionCalls = SumFunction([n \in D |-> CallsOf(functions[n])])
      /\ T.singleEntryLoops.total = SumFunction([n \in D |-> LoopsOf(functions[n])])
      /\ D # {} => /\ T.singleEntryLoops.min \in L(D) /\ T.singleEntryLoops.max \in L(D)
                   /\ \A y \in L(D) : T.singleEntryLoops.min <= y /\ y <= T.singleEntryLoops.max
      /\ D = {} => T.singleEntryLoops.min = MaxInt /\ T.singleEntryLoops.max = 0
  BY DEF StatsInv, CountedOver
<1>8. T1.functions = Count(D \cup {cur})
  <2>1. Count(D \cup {cur}) = Count(D) + 1
    <3> HIDE DEF D
    <3> QED BY <1>3, <1>5, FS_AddElement DEF Count
  <2> HIDE DEF D, T, T1
  <2> QED BY <1>6, <1>7, <2>1
<1>9. T1.functionCalls = SumFunction([n \in D \cup {cur} |-> CallsOf(functions[n])])
  <2> DEFINE f == [n \in D |-> CallsOf(functions[n])]
             g == [n \in D \cup {cur} |-> CallsOf(functions[n])]
  <2>1. /\ DOMAIN f = D /\ DOMAIN g = D \cup {cur} /\ g[cur] = calls
        /\ \A n \in D \cup {cur} : g[n] \in Nat
        /\ \A n \in D : f[n] = g[n]
    BY <1>2, <1>5
  <2> HIDE DEF f, g, D
  <2>2. SumFunction(g) = SumFunction(f) + g[cur]
    BY <1>3, <1>5, <2>1, SumGrows
  <2> QED BY <1>6, <1>7, <2>1, <2>2 DEF f, g
<1>10. T1.singleEntryLoops.total = SumFunction([n \in D \cup {cur} |-> LoopsOf(functions[n])])
  <2> DEFINE f == [n \in D |-> LoopsOf(functions[n])]
             g == [n \in D \cup {cur} |-> LoopsOf(functions[n])]
  <2>1. /\ DOMAIN f = D /\ DOMAIN g = D \cup {cur} /\ g[cur] = loops
        /\ \A n \in D \cup {cur} : g[n] \in Nat
        /\ \A n \in D : f[n] = g[n]
    BY <1>2, <1>5
  <2> HIDE DEF f, g, D
  <2>2. SumFunction(g) = SumFunction(f) + g[cur]
    BY <1>3, <1>5, <2>1, SumGrows
  <2> QED BY <1>6, <1>7, <2>1, <2>2 DEF f, g
<1>11. /\ L(D \cup {cur}) = L(D) \cup {loops} /\ (D = {} => L(D) = {})
       /\ L(D) \subseteq Nat /\ loops \in Nat /\ loops <= MaxInt
  BY <1>2, <1>5
<1>12. /\ T1.singleEntryLoops.min \in L(D \cup {cur}) /\ T1.singleEntryLoops.max \in L(D \cup {cur})
       /\ \A y \in L(D \cup {cur}) : T1.singleEntryLoops.min <= y /\ y <= T1.singleEntryLoops.max
  <2> DEFINE low == T.singleEntryLoops.min
             high == T.singleEntryLoops.max
             K == L(D)
  <2>1. /\ K \subseteq Nat /\ loops \in Nat /\ loops <= MaxInt
        /\ \/ low \in K /\ high \in K /\ \A y \in K : low <= y /\ y <= high
           \/ K = {} /\ low = MaxInt /\ high = 0
    BY <1>7, <1>11
  <2>2. low \in Int /\ high \in Int
    <3> HIDE DEF K, low, high, loops, D, L, T, T1
    <3>1. CASE K = {} /\ low = MaxInt /\ high = 0
      BY <3>1 DEF MaxInt
    <3>2. CASE low \in K /\ high \in K
      BY <2>1, <3>2
    <3> QED BY <2>1, <3>1, <3>2
  <2>3. /\ T1.singleEntryLoops.min = (IF loops <= low THEN loops ELSE low)
        /\ T1.singleEntryLoops.max = (IF loops <= high THEN high ELSE loops)
    <3>1. T1.singleEntryLoops.min = Min({loops, low}) /\ T1.singleEntryLoops.max = Max({loops, high})
      BY <1>6
    <3>2. loops \in Int
      BY <2>1
    <3> HIDE DEF low, high, loops, K, T1, D, L
    <3> QED BY <2>2, <3>1, <3>2, MinOfTwo
  <2> DEFINE min == T1.singleEntryLoops.min
             max == T1.singleEntryLoops.max
  <2> HIDE DEF K, low, high, loops, T1, min, max
  <2>4. /\ min \in K \cup {loops} /\ max \in K \cup {loops}
        /\ \A y \in K \cup {loops} : min <= y /\ y <= max
    BY <2>1, <2>2, <2>3 DEF min, max, MaxInt
  <2> QED BY <1>11, <2>4 DEF min, max, K
<1>13. T1.singleEntryLoops.min = Min(L(D \cup {cur})) /\ T1.singleEntryLoops.max = Max(L(D \cup {cur}))
  <2> DEFINE K == L(D \cup {cur})
  <2>1. K \subseteq Int
    BY <1>11
  <2> HIDE DEF K, T1
  <2> QED BY <1>12, <2>1, LeastIsMin DEF K
<1>14. (\A f : CallsOf(f)' = CallsOf(f)) /\ functions' = functions
  BY <1>1 DEF CallsOf, Callees
<1>15. CountedOver(Counted)'
  <2>1. [n \in D \cup {cur} |-> CallsOf(functions[n])]
          = [n \in D \cup {cur} |-> CallsOf(functions[n])']
    BY <1>14
  <2> QED
    BY <1>3, <1>8, <1>9, <1>10, <1>13, <1>14, <2>1 DEF CountedOver
<1> QED BY <1>1, <1>3, <1>6, <1>12, <1>14, <1>15 DEF StatsInv

\* A step that counts nothing and ends no function's turn leaves the statistics.
LEMMA SameStats ==
  ASSUME StatsInv, UNCHANGED <<functions, stats, phase>>, Counted' = Counted
  PROVE  StatsInv'
<1>1. \A f : CallsOf(f)' = CallsOf(f)
  BY DEF CallsOf, Callees
<1>2. Defined' = Defined
  BY DEF Defined
<1>3. CountedOver(Counted)' = CountedOver(Counted) /\ CountedOver(Defined)' = CountedOver(Defined)
  BY <1>1, <1>2 DEF CountedOver
<1> QED BY <1>3 DEF StatsInv

LEMMA StepStatsInv == PassInv /\ StatsInv /\ [Next]_vars => StatsInv'
<1> SUFFICES ASSUME PassInv, StatsInv, [Next]_vars PROVE StatsInv'
  OBVIOUS
<1>1. CASE UNCHANGED vars
  BY <1>1, SameStats DEF vars, Counted, Defined
<1>2. CASE CountFunction
  <2>1. CASE phase = "after"
    BY <1>2, <2>1, CountStats
  <2>2. CASE phase # "after"
    <3>1. phase = "before"
      BY <1>2, <2>2 DEF CountFunction, PassInv, Stages, TypeOK
    <3>2. /\ UNCHANGED <<functions, phase>> /\ DOMAIN stats' = DOMAIN stats
          /\ stats'["after"] = stats["after"]
      BY <1>2, <3>1 DEF CountFunction, StatsInv
    <3> QED BY <3>1, <3>2 DEF StatsInv
  <2> QED BY <2>1, <2>2
<1>3. CASE NextPhase
  <2>1. /\ step = "function" /\ cur = Len(functions) /\ cur' = 0
        /\ phase' = (CASE phase = "before" -> "remove"
                       [] phase = "remove" -> "after"
                       [] phase = "after"  -> "done")
        /\ UNCHANGED <<functions, stats>>
    BY <1>3 DEF NextPhase
  <2>2. phase \in {"before", "remove", "after"}
    BY <2>1 DEF PassInv, Stages, TypeOK
  <2>3. Len(functions) \in Nat /\ DOMAIN functions = 1 .. Len(functions)
    BY FunctionOfModule DEF PassInv, TypeOK
  <2>4. CASE phase = "before"
    BY <2>1, <2>4 DEF StatsInv
  <2>5. CASE phase = "remove"
    <3>1. Counted' = {}
      BY <2>1, <2>3 DEF Counted, Defined
    <3>2. stats'["after"] = NoStats /\ phase' = "after" /\ functions' \in Modules
          /\ DOMAIN stats' = {"before", "after"}
      BY <2>1, <2>5 DEF StatsInv
    <3>3. Count({}) = 0
      BY FS_EmptySet DEF Count
    <3>4. \A f : DOMAIN f = {} => SumFunction(f) = 0
      BY FS_EmptySet, SumStep DEF SumFunction
    <3>5. CountedOver({})'
      BY <3>2, <3>3, <3>4 DEF CountedOver, NoStats, NoInts
    <3> QED BY <3>1, <3>2, <3>5 DEF StatsInv, NoStats, NoInts
  <2>6. CASE phase = "after"
    <3>1. Counted = Defined
      BY <2>1, <2>3 DEF Counted, Defined
    <3>2. phase' = "done"
      BY <2>1, <2>6
    <3>3. \A f : CallsOf(f)' = CallsOf(f)
      BY <2>1 DEF CallsOf, Callees
    <3>4. CountedOver(Defined)'
      BY <2>1, <2>6, <3>1, <3>3 DEF StatsInv, CountedOver, Defined
    <3> QED BY <2>1, <3>2, <3>4 DEF StatsInv
  <2> QED BY <2>2, <2>4, <2>5, <2>6
<1>4. CASE NextFunction
  <2>1. /\ step = "function" /\ cur' = cur + 1 /\ UNCHANGED <<functions, phase, stats>>
        /\ phase # "remove" /\ functions[cur + 1].list # << >> => step' # "function"
    BY <1>4 DEF NextFunction
  <2>2. cur \in Int /\ DOMAIN functions \subseteq Int
    BY FunctionOfModule DEF PassInv, TypeOK
  <2>3. CASE phase = "after"
    <3>1. Counted' = Counted
      BY <2>1, <2>2, <2>3 DEF Counted, Defined
    <3> QED BY <2>1, <3>1, SameStats
  <2>4. CASE phase # "after"
    <3>1. phase # "done"
      BY <2>1 DEF PassInv, Stages
    <3> QED BY <2>1, <2>4, <3>1 DEF StatsInv
  <2> QED BY <2>3, <2>4
<1>5. CASE VisitDom \/ VisitReach \/ SweepAgain \/ GetReach \/ ReachDone
  <2>1. /\ UNCHANGED <<functions, phase, cur, stats>>
        /\ step # "function" /\ step' # "function"
    BY <1>5 DEF VisitDom, VisitReach, SweepAgain, GetReach, ReachDone, Sweeping, SweepEnds
  <2>2. Counted' = Counted
    BY <2>1 DEF Counted, Defined
  <2> QED BY <2>1, <2>2, SameStats
<1>6. CASE (\E b \in Blocks : EraseBlock(b)) \/ EraseDone
  <2>1. step = "erase" /\ UNCHANGED <<functions, phase, stats>>
    BY <1>6 DEF EraseBlock, EraseDone
  <2>2. phase = "remove"
    BY <2>1 DEF PassInv, Stages, TypeOK
  <2> QED BY <2>1, <2>2 DEF StatsInv
<1> QED BY <1>1, <1>2, <1>3, <1>4, <1>5, <1>6 DEF Next

(***************************************************************************)
(* The theorems.                                                           *)
(***************************************************************************)

\* The state of the pass is well typed, and the entry of a function is never
\* erased (ProjectZero.cpp:271-311).
THEOREM TypeCorrect == Spec => []TypeOK
<1>1. PassInv => TypeOK
  BY DEF PassInv
<1> QED BY <1>1, InitPassInv, StepPassInv, PTL DEF Spec

\* getReach computes reachability (ProjectZero.cpp:187-217).
THEOREM ReachIsExact == Spec => []ReachExact
<1>1. PassInv => ReachExact
  <2> SUFFICES ASSUME PassInv, step \in {"count", "erase"}
               PROVE  \A a, b \in blocks : b \in reach[a] <=> Reaches(program, a, b)
    BY DEF ReachExact
  <2>1. blocks \subseteq Mapped
    BY FunctionParts DEF PassInv, InFunction, Mapped
  <2> QED BY <2>1, SettledReach
<1> QED BY <1>1, InitPassInv, StepPassInv, PTL DEF Spec

\* getDom computes dominance (ProjectZero.cpp:219-260).
THEOREM DomIsExact == Spec => []DomExact
<1>1. PassInv => DomExact
  BY SettledDom DEF DomExact
<1> QED BY <1>1, InitPassInv, StepPassInv, PTL DEF Spec

\* What is removed is what the entries do not reach (ProjectZero.cpp:280-311).
THEOREM RemovalIsExact == Spec => []RemovedExactly
<1>1. PassInv => RemovedExactly
  BY DEF PassInv, BlocksInv, RemovedExactly, Purged
<1> QED BY <1>1, InitPassInv, StepPassInv, PTL DEF Spec

\* A module that has lost a block is reported as modified, whatever the functions
\* that lose none return (ProjectZero.cpp:288-311).
THEOREM RemovalIsReported == Spec => []RemovalReported
<1>1. ReportInv => RemovalReported
  BY DEF ReportInv, RemovalReported
<1> QED BY <1>1, InitPassInv, StepPassInv, StepReportInv, PTL DEF Spec

\* The second statistics are those of what the entries reach (ProjectZero.cpp:313-389).
THEOREM StatsAreOfTheLiving == Spec => []StatsOfTheLiving
<1>1. StatsInv => StatsOfTheLiving
  BY DEF StatsInv, StatsOfTheLiving
<1> QED BY <1>1, InitPassInv, StepPassInv, InitStatsInv, StepStatsInv, PTL DEF Spec
=============================================================================
