------------------------- MODULE AbcInserterProofs -------------------------
(***************************************************************************)
(* Why the checks of the insertion pass guard what they are meant to: the  *)
(* blocks that a check splits keep the shape that the next check, and the  *)
(* removal pass, rely on, whatever the order of the geps; and why the code *)
(* that it leaves behind runs as its source does, but for the accesses out *)
(* of bounds.                                                              *)
(***************************************************************************)
EXTENDS AbcInserter, SequenceTheorems, TLAPS

(***************************************************************************)
(* The code while checks are put into it.                                  *)
(***************************************************************************)
Parts == Loads \cup Geps \cup Cmps \cup Exits

IsBr(c, b)   == c[b].term.op = "br"
IsExit(c, b) == c[b].term.op = "unreachable"

\* The blocks of the source go to blocks of the source; a check goes to two new
\* blocks of its own, one of them an exit.
Structured(c) ==
  /\ c \in Seq(CodeBlocks)
  /\ Len(c) >= Len(source)
  /\ \A b \in 1 .. Len(c) :
       /\ c[b].term.op = "goto" => c[b].term.succ \subseteq 1 .. Len(source)
       /\ IsBr(c, b) =>
            /\ {c[b].term.T, c[b].term.F} \subseteq Len(source) + 1 .. Len(c)
            /\ c[b].term.T # c[b].term.F
            /\ IsExit(c, c[b].term.F)
            /\ Len(c[b].body) > 0 /\ c[b].body[Len(c[b].body)].op = "icmp"
       /\ IsExit(c, b) =>
            /\ Len(c[b].body) > 0
            /\ \A k \in 1 .. Len(c[b].body) : c[b].body[k].op = "exit"
  /\ \A b, q \in 1 .. Len(c) :
       IsBr(c, b) /\ IsBr(c, q) /\ b # q =>
         {c[b].term.T, c[b].term.F} \cap {c[q].term.T, c[q].term.F} = {}

LEMMA SourceParts ==
  ASSUME source \in Programs
  PROVE  /\ IsFunction(source) /\ Len(source) \in Nat \ {0}
         /\ DOMAIN source = 1 .. Len(source)
BY ProgramsAssumption, LenProperties, EmptySeq DEF IsFunction

LEMMA BlockParts ==
  ASSUME NEW c \in Seq(CodeBlocks), NEW b \in 1 .. Len(c)
  PROVE  /\ DOMAIN c = 1 .. Len(c) /\ Len(c) \in Nat
         /\ c[b] \in CodeBlocks
         /\ c[b].body \in Seq(Parts) /\ c[b].term \in Terms
         /\ DOMAIN c[b].body = 1 .. Len(c[b].body) /\ Len(c[b].body) \in Nat
         /\ \A k \in 1 .. Len(c[b].body) : c[b].body[k] \in Parts
         /\ c[b] = Block(c[b].body, c[b].term)
<1>1. c[b] \in CodeBlocks
  BY ElementOfSeq
<1>2. c[b].body \in Seq(Parts) /\ c[b].term \in Terms /\ c[b] = Block(c[b].body, c[b].term)
  BY <1>1 DEF CodeBlocks, Parts, Block
<1>3. \A k \in 1 .. Len(c[b].body) : c[b].body[k] \in Parts
  BY <1>2, ElementOfSeq
<1> QED BY <1>1, <1>2, <1>3, LenProperties

\* What insertAssertion makes of the code: the block ends in the branch, what
\* follows it is in the last block, and the exit is before that.
AssertionIn(c, b, k, cmp, d) ==
  /\ d \in Seq(CodeBlocks) /\ Len(d) = Len(c) + 2
  /\ d[b].term = OnCmp(cmp.home, Len(c) + 2, Len(c) + 1)
  /\ Len(d[b].body) = k /\ d[b].body[k] = cmp
  /\ \A j \in 1 .. k - 1 : d[b].body[j] = c[b].body[j]
  /\ d[Len(c) + 1] = Block(<<ExitCall(cmp.home)>>, Unreachable(cmp.home))
  /\ d[Len(c) + 2].term = c[b].term
  /\ Len(d[Len(c) + 2].body) = Len(c[b].body) - k + 1
  /\ \A j \in 1 .. Len(c[b].body) - k + 1 : d[Len(c) + 2].body[j] = c[b].body[k + j - 1]
  /\ \A q \in 1 .. Len(c) : q # b => d[q] = c[q]

LEMMA AssertionParts ==
  ASSUME NEW c \in Seq(CodeBlocks), NEW b \in 1 .. Len(c),
         NEW k \in 1 .. Len(c[b].body), NEW cmp \in Cmps
  PROVE  AssertionIn(c, b, k, cmp, InsertAssertion(c, b, k, cmp))
<1> DEFINE d == InsertAssertion(c, b, k, cmp)
           body == c[b].body
           first == Append(SubSeq(body, 1, k - 1), cmp)
           cut == [c EXCEPT ![b] = Block(first, OnCmp(cmp.home, Len(c) + 2, Len(c) + 1))]
           exit == Block(<<ExitCall(cmp.home)>>, Unreachable(cmp.home))
           rest == Block(SubSeq(body, k, Len(body)), c[b].term)
<1>1. /\ Len(c) \in Nat /\ body \in Seq(Parts) /\ c[b].term \in Terms
      /\ Len(body) \in Nat /\ \A j \in 1 .. Len(body) : body[j] \in Parts
  BY BlockParts
<1>2. cmp \in Parts /\ cmp.home \in Nat \X Nat
  BY DEF Parts, Cmps
<1>3. /\ first \in Seq(Parts) /\ Len(first) = k /\ first[k] = cmp
      /\ \A j \in 1 .. k - 1 : first[j] = body[j]
  <2> DEFINE s == SubSeq(body, 1, k - 1)
  <2>1. s \in Seq(Parts) /\ Len(s) = k - 1 /\ \A j \in 1 .. k - 1 : s[j] = body[j]
    BY <1>1, SubSeqProperties, IsASeq
  <2> HIDE DEF s
  <2>2. /\ Append(s, cmp) \in Seq(Parts) /\ Len(Append(s, cmp)) = k
        /\ Append(s, cmp)[k] = cmp
        /\ \A j \in 1 .. k - 1 : Append(s, cmp)[j] = s[j]
    BY <1>2, <2>1, AppendProperties
  <2> QED BY <2>1, <2>2 DEF s
<1>4. /\ rest.body \in Seq(Parts) /\ rest.term = c[b].term
      /\ Len(rest.body) = Len(body) - k + 1
      /\ \A j \in 1 .. Len(body) - k + 1 : rest.body[j] = body[k + j - 1]
  <2>1. rest.body = SubSeq(body, k, Len(body)) /\ rest.term = c[b].term
    BY DEF Block
  <2>2. k .. Len(body) \subseteq 1 .. Len(body) /\ k <= Len(body) + 1
    BY <1>1
  <2>3. /\ SubSeq(body, k, Len(body)) \in Seq(Parts)
        /\ Len(SubSeq(body, k, Len(body))) = Len(body) - k + 1
        /\ \A j \in 1 .. Len(body) - k + 1 :
             SubSeq(body, k, Len(body))[j] = body[k + j - 1]
    BY <1>1, <2>2, SubSeqProperties
  <2> QED BY <2>1, <2>3
<1>5. Block(first, OnCmp(cmp.home, Len(c) + 2, Len(c) + 1)) \in CodeBlocks
  <2>1. OnCmp(cmp.home, Len(c) + 2, Len(c) + 1) \in Terms
    BY <1>1, <1>2 DEF OnCmp, Terms
  <2> QED BY <1>3, <2>1 DEF Block, CodeBlocks, Parts
<1>6. exit \in CodeBlocks
  <2>1. <<ExitCall(cmp.home)>> \in Seq(Parts) /\ Unreachable(cmp.home) \in Terms
    BY <1>2 DEF ExitCall, Exits, Parts, Unreachable, Terms
  <2> QED BY <2>1 DEF Block, CodeBlocks, Parts
<1>7. rest \in CodeBlocks
  BY <1>1, <1>4 DEF Block, CodeBlocks, Parts
<1>8. /\ cut \in Seq(CodeBlocks) /\ Len(cut) = Len(c)
      /\ cut[b] = Block(first, OnCmp(cmp.home, Len(c) + 2, Len(c) + 1))
      /\ \A q \in 1 .. Len(c) : q # b => cut[q] = c[q]
  BY <1>5, ExceptSeq
<1>9. d = cut \o <<exit, rest>>
  BY DEF InsertAssertion
<1> HIDE DEF d, cut, exit, rest, first, body
<1>10. /\ d \in Seq(CodeBlocks) /\ Len(d) = Len(c) + 2
       /\ \A q \in 1 .. Len(c) : d[q] = cut[q]
       /\ d[Len(c) + 1] = exit /\ d[Len(c) + 2] = rest
  <2> DEFINE two == <<exit, rest>>
  <2>1. two \in Seq(CodeBlocks) /\ Len(two) = 2 /\ two[1] = exit /\ two[2] = rest
    BY <1>6, <1>7
  <2> HIDE DEF two
  <2>2. /\ cut \o two \in Seq(CodeBlocks) /\ Len(cut \o two) = Len(c) + 2
        /\ \A q \in 1 .. Len(c) + 2 :
             (cut \o two)[q] = IF q <= Len(c) THEN cut[q] ELSE two[q - Len(c)]
    <3>1. /\ cut \o two \in Seq(CodeBlocks) /\ Len(cut \o two) = Len(cut) + Len(two)
          /\ \A q \in 1 .. Len(cut) + Len(two) :
               (cut \o two)[q] = IF q <= Len(cut) THEN cut[q] ELSE two[q - Len(cut)]
      <4>1. cut \in Seq(CodeBlocks) /\ two \in Seq(CodeBlocks)
        BY <1>8, <2>1
      <4> QED BY <4>1, ConcatProperties
    <3>2. Len(cut) = Len(c) /\ Len(two) = 2
      BY <1>8, <2>1
    <3> QED BY <3>1, <3>2
  <2> QED BY <1>1, <1>9, <2>1, <2>2 DEF two
<1>11. d[b].body = first /\ d[b].term = OnCmp(cmp.home, Len(c) + 2, Len(c) + 1)
  BY <1>8, <1>10 DEF Block
<1> QED BY <1>3, <1>4, <1>8, <1>10, <1>11, ZenonT(40) DEF AssertionIn, d, body, exit

LEMMA BranchParts ==
  ASSUME source \in Programs, NEW c, Structured(c), NEW b \in 1 .. Len(c), IsBr(c, b)
  PROVE  /\ {c[b].term.T, c[b].term.F} \subseteq Len(source) + 1 .. Len(c)
         /\ c[b].term.T # c[b].term.F
         /\ c[b].term.F \in 1 .. Len(c) /\ IsExit(c, c[b].term.F)
         /\ Len(c[b].body) > 0 /\ c[b].body[Len(c[b].body)].op = "icmp"
<1>1. {c[b].term.T, c[b].term.F} \subseteq Len(source) + 1 .. Len(c)
  BY DEF Structured
<1>2. Len(source) + 1 .. Len(c) \subseteq 1 .. Len(c)
  BY SourceParts
<1> QED BY <1>1, <1>2 DEF Structured

\* A check keeps the shape of the code.
LEMMA AssertionStructured ==
  ASSUME source \in Programs, NEW c, Structured(c), NEW b \in 1 .. Len(c),
         NEW k \in 1 .. Len(c[b].body), c[b].body[k].op # "exit", NEW cmp \in Cmps
  PROVE  Structured(InsertAssertion(c, b, k, cmp))
<1> DEFINE d == InsertAssertion(c, b, k, cmp)
           new == Len(c)
           n == Len(source)
<1>0. /\ c \in Seq(CodeBlocks) /\ new \in Nat /\ n \in Nat /\ n <= new
      /\ Len(c[b].body) \in Nat
  BY BlockParts, SourceParts DEF Structured
<1>1. /\ d \in Seq(CodeBlocks) /\ Len(d) = new + 2
      /\ d[b].term = OnCmp(cmp.home, new + 2, new + 1)
      /\ Len(d[b].body) = k /\ d[b].body[k] = cmp
      /\ d[new + 1] = Block(<<ExitCall(cmp.home)>>, Unreachable(cmp.home))
      /\ d[new + 2].term = c[b].term
      /\ Len(d[new + 2].body) = Len(c[b].body) - k + 1
      /\ \A j \in 1 .. Len(c[b].body) - k + 1 : d[new + 2].body[j] = c[b].body[k + j - 1]
      /\ \A q \in 1 .. new : q # b => d[q] = c[q]
  <2>1. AssertionIn(c, b, k, cmp, d)
    BY <1>0, AssertionParts
  <2> HIDE DEF d
  <2> QED BY <2>1 DEF AssertionIn
<1> HIDE DEF d
<1>2. ~IsExit(c, b)
  BY DEF Structured
<1>3. /\ IsBr(d, b) /\ ~IsExit(d, b) /\ d[b].term.T = new + 2 /\ d[b].term.F = new + 1
      /\ d[b].term.op # "goto" /\ d[b].body[k].op = "icmp"
  BY <1>1 DEF OnCmp, IsBr, IsExit, Cmps
<1>4. /\ IsExit(d, new + 1) /\ ~IsBr(d, new + 1) /\ d[new + 1].term.op # "goto"
      /\ Len(d[new + 1].body) = 1 /\ d[new + 1].body[1].op = "exit"
  BY <1>1 DEF Block, Unreachable, ExitCall, IsBr, IsExit
<1>5. /\ IsBr(d, new + 2) <=> IsBr(c, b)
      /\ ~IsExit(d, new + 2) /\ d[new + 2].term = c[b].term
      /\ Len(d[new + 2].body) > 0
      /\ d[new + 2].body[Len(d[new + 2].body)] = c[b].body[Len(c[b].body)]
  <2> DEFINE m == Len(c[b].body)
  <2>1. m - k + 1 \in 1 .. m - k + 1 /\ k + (m - k + 1) - 1 = m
    BY <1>0
  <2>2. Len(d[new + 2].body) = m - k + 1 /\ d[new + 2].body[m - k + 1] = c[b].body[m]
    BY <1>1, <2>1
  <2>3. Len(d[new + 2].body) > 0
    BY <2>1, <2>2
  <2> QED BY <1>1, <1>2, <2>2, <2>3 DEF IsBr, IsExit
<1>6. \A q \in 1 .. new : IsExit(c, q) => q # b /\ IsExit(d, q)
  BY <1>1, <1>2 DEF IsExit
<1>7. \A q \in 1 .. new + 2 : q \in 1 .. new \ {b} \/ q = b \/ q = new + 1 \/ q = new + 2
  BY <1>0
<1>8. ASSUME NEW q \in 1 .. new + 2
      PROVE  /\ d[q].term.op = "goto" => d[q].term.succ \subseteq 1 .. n
             /\ IsBr(d, q) =>
                  /\ {d[q].term.T, d[q].term.F} \subseteq n + 1 .. new + 2
                  /\ d[q].term.T # d[q].term.F
                  /\ IsExit(d, d[q].term.F)
                  /\ Len(d[q].body) > 0 /\ d[q].body[Len(d[q].body)].op = "icmp"
             /\ IsExit(d, q) =>
                  /\ Len(d[q].body) > 0
                  /\ \A j \in 1 .. Len(d[q].body) : d[q].body[j].op = "exit"
  <2>1. CASE q \in 1 .. new \ {b}
    <3>1. d[q] = c[q] /\ (IsBr(d, q) <=> IsBr(c, q)) /\ (IsExit(d, q) <=> IsExit(c, q))
      BY <1>1, <2>1 DEF IsBr, IsExit
    <3>2. IsBr(c, q) =>
            /\ {c[q].term.T, c[q].term.F} \subseteq n + 1 .. new
            /\ c[q].term.F \in 1 .. new
      BY <1>0, <2>1, LenProperties DEF Structured
    <3>3. n + 1 .. new \subseteq n + 1 .. new + 2
      BY <1>0
    <3> QED BY <1>6, <2>1, <3>1, <3>2, <3>3, SMTT(30) DEF Structured
  <2>2. CASE q = b
    <3>1. {new + 2, new + 1} \subseteq n + 1 .. new + 2 /\ new + 2 # new + 1 /\ k > 0
      BY <1>0
    <3>2. /\ {d[b].term.T, d[b].term.F} \subseteq n + 1 .. new + 2
          /\ d[b].term.T # d[b].term.F /\ IsExit(d, d[b].term.F)
      BY <1>3, <1>4, <3>1
    <3>3. Len(d[b].body) > 0 /\ d[b].body[Len(d[b].body)].op = "icmp"
      BY <1>1, <1>3, <3>1
    <3> QED BY <1>3, <2>2, <3>2, <3>3
  <2>3. CASE q = new + 1
    BY <1>4, <2>3
  <2>4. CASE q = new + 2
    <3>1. IsBr(c, b) =>
            /\ {c[b].term.T, c[b].term.F} \subseteq n + 1 .. new + 2
            /\ c[b].term.F \in 1 .. new
            /\ c[b].term.T # c[b].term.F /\ IsExit(c, c[b].term.F)
            /\ c[b].body[Len(c[b].body)].op = "icmp"
      <4>1. n + 1 .. new \subseteq n + 1 .. new + 2
        BY <1>0
      <4> QED BY <4>1, BranchParts
    <3>2. c[b].term.op = "goto" => c[b].term.succ \subseteq 1 .. n
      BY DEF Structured
    <3>3. IsBr(d, new + 2) =>
            /\ {d[new + 2].term.T, d[new + 2].term.F} \subseteq n + 1 .. new + 2
            /\ d[new + 2].term.T # d[new + 2].term.F
            /\ IsExit(d, d[new + 2].term.F)
            /\ d[new + 2].body[Len(d[new + 2].body)].op = "icmp"
      BY <1>5, <1>6, <3>1
    <3> QED BY <1>5, <2>4, <3>2, <3>3
  <2> QED BY <1>7, <2>1, <2>2, <2>3, <2>4
<1>9. ASSUME NEW q \in 1 .. new + 2, NEW r \in 1 .. new + 2,
             IsBr(d, q), IsBr(d, r), q # r
      PROVE  {d[q].term.T, d[q].term.F} \cap {d[r].term.T, d[r].term.F} = {}
  <2> DEFINE old(x) == IF x = new + 2 THEN b ELSE x
  <2>1. ASSUME NEW x \in 1 .. new + 2, IsBr(d, x)
        PROVE  \/ x = b
               \/ /\ old(x) \in 1 .. new /\ IsBr(c, old(x)) /\ d[x].term = c[old(x)].term
                  /\ {d[x].term.T, d[x].term.F} \subseteq n + 1 .. new
    <3>1. x # new + 1
      BY <1>4, <2>1
    <3>2. CASE x \in 1 .. new \ {b}
      <4>1. d[x] = c[x] /\ x \in 1 .. Len(c) /\ x # b /\ x # new + 2
        BY <1>0, <1>1, <3>2
      <4>2. IsBr(c, x) /\ {c[x].term.T, c[x].term.F} \subseteq n + 1 .. new
        BY <2>1, <4>1, BranchParts DEF IsBr
      <4> QED BY <4>1, <4>2
    <3>3. CASE x = new + 2
      <4>1. IsBr(c, b) /\ d[x].term = c[b].term /\ old(x) = b /\ b \in 1 .. Len(c)
        BY <1>5, <2>1, <3>3
      <4>2. {c[b].term.T, c[b].term.F} \subseteq n + 1 .. new
        BY <4>1, BranchParts
      <4> QED BY <4>1, <4>2
    <3> QED BY <1>7, <3>1, <3>2, <3>3
  <2>2. CASE q = b
    <3>1. {d[r].term.T, d[r].term.F} \subseteq n + 1 .. new
      BY <1>9, <2>1, <2>2
    <3> QED BY <1>0, <1>3, <2>2, <3>1
  <2>3. CASE r = b
    <3>1. {d[q].term.T, d[q].term.F} \subseteq n + 1 .. new
      BY <1>9, <2>1, <2>3
    <3> QED BY <1>0, <1>3, <2>3, <3>1
  <2>4. CASE q # b /\ r # b
    <3>1. old(q) # old(r)
      BY <1>9, <2>4
    <3> QED BY <1>9, <2>1, <2>4, <3>1 DEF Structured
  <2> QED BY <2>2, <2>3, <2>4
<1>10. Len(d) >= n
  BY <1>0, <1>1
<1> QED BY <1>1, <1>8, <1>9, <1>10, SMTT(30) DEF Structured, d

(***************************************************************************)
(* The geps in the code.  No two are the same: they differ in their homes, *)
(* or, being parts of one, in their numbers.                               *)
(***************************************************************************)
IsGep(c, b, k) == b \in 1 .. Len(c) /\ k \in 1 .. Len(c[b].body) /\ c[b].body[k].op = "gep"

Distinct(c) ==
  \A b, k, q, j :
    /\ IsGep(c, b, k) /\ IsGep(c, q, j)
    /\ <<b, k>> # <<q, j>> /\ c[b].body[k].home = c[q].body[j].home
    => /\ IsSimple(c[b].body[k]) /\ IsSimple(c[q].body[j])
       /\ c[b].body[k].n # c[q].body[j].n

\* Every gep has an index and a type for each.
Indexed(c) ==
  \A b, k : IsGep(c, b, k) =>
    Len(c[b].body[k].idx) > 0 /\ Len(c[b].body[k].types) = Len(c[b].body[k].idx)

LEMMA GepParts ==
  ASSUME NEW c \in Seq(CodeBlocks), Indexed(c), NEW b, NEW k, IsGep(c, b, k)
  PROVE  LET g == c[b].body[k]
         IN  /\ g \in Geps /\ g.idx \in Seq(Operands) /\ g.types \in Seq(Types)
             /\ Len(g.idx) \in Nat \ {0} /\ Len(g.types) = Len(g.idx)
             /\ Last(g.idx) \in Operands /\ g.types[1] \in Types
<1> DEFINE g == c[b].body[k]
<1>1. g \in Parts /\ g.op = "gep"
  BY BlockParts DEF IsGep
<1>2. g \in Geps
  BY <1>1 DEF Parts, Geps, Loads, Cmps, Exits
<1>3. g.idx \in Seq(Operands) /\ g.types \in Seq(Types)
  BY <1>2 DEF Geps
<1>4. Len(g.idx) > 0 /\ Len(g.types) = Len(g.idx)
  BY DEF Indexed
<1> HIDE DEF g
<1>5. Len(g.idx) \in Nat /\ 1 \in 1 .. Len(g.types) /\ Len(g.idx) \in 1 .. Len(g.idx)
  BY <1>3, <1>4, LenProperties
<1>6. Last(g.idx) \in Operands /\ g.types[1] \in Types
  BY <1>3, <1>5, ElementOfSeq DEF Last
<1> QED BY <1>2, <1>3, <1>4, <1>5, <1>6 DEF g

LEMMA GepsHere ==
  ASSUME NEW c \in Seq(CodeBlocks), NEW g
  PROVE  g \in GepsOf(c) <=> \E b, k : IsGep(c, b, k) /\ c[b].body[k] = g
<1>1. DOMAIN c = 1 .. Len(c) /\ \A b \in 1 .. Len(c) : DOMAIN c[b].body = 1 .. Len(c[b].body)
  BY BlockParts, LenProperties
<1> QED BY <1>1 DEF GepsOf, IsGep

\* Where the instruction at place j of block x was before a check was put in
\* front of place k of block b, when there were n blocks.
PlaceBefore(n, b, k, x, j) == IF x = n + 2 THEN <<b, k + j - 1>> ELSE <<x, j>>

\* Where it goes.
PlaceAfter(n, b, k, x, j) == IF x = b /\ j >= k THEN <<n + 2, j - k + 1>> ELSE <<x, j>>

LEMMA GepsAfterAssertion ==
  ASSUME NEW c \in Seq(CodeBlocks), NEW b \in 1 .. Len(c),
         NEW k \in 1 .. Len(c[b].body), NEW cmp \in Cmps
  PROVE  LET d == InsertAssertion(c, b, k, cmp)
         IN  /\ \A x, j : IsGep(d, x, j) =>
                  LET old == PlaceBefore(Len(c), b, k, x, j)
                  IN  /\ IsGep(c, old[1], old[2])
                      /\ d[x].body[j] = c[old[1]].body[old[2]]
                      /\ x = b => j < k
             /\ \A x, j : IsGep(c, x, j) =>
                  LET new == PlaceAfter(Len(c), b, k, x, j)
                  IN  IsGep(d, new[1], new[2]) /\ d[new[1]].body[new[2]] = c[x].body[j]
<1> DEFINE d == InsertAssertion(c, b, k, cmp)
           n == Len(c)
           m == Len(c[b].body)
<1>1. /\ Len(d) = n + 2 /\ n \in Nat /\ m \in Nat
      /\ Len(d[b].body) = k /\ d[b].body[k] = cmp
      /\ \A j \in 1 .. k - 1 : d[b].body[j] = c[b].body[j]
      /\ Len(d[n + 1].body) = 1 /\ d[n + 1].body[1].op = "exit"
      /\ Len(d[n + 2].body) = m - k + 1
      /\ \A j \in 1 .. m - k + 1 : d[n + 2].body[j] = c[b].body[k + j - 1]
      /\ \A q \in 1 .. n : q # b => d[q] = c[q]
  <2>1. AssertionIn(c, b, k, cmp, d)
    BY AssertionParts
  <2>2. n \in Nat /\ m \in Nat
    BY BlockParts
  <2> HIDE DEF d
  <2>3. Len(d[n + 1].body) = 1 /\ d[n + 1].body[1].op = "exit"
    BY <2>1 DEF AssertionIn, Block, ExitCall
  <2> QED BY <2>1, <2>2, <2>3 DEF AssertionIn
<1>2. cmp.op = "icmp"
  BY DEF Cmps
<1>5. n \in Nat /\ m \in Nat /\ k \in 1 .. m /\ b \in 1 .. n
  BY <1>1
<1> HIDE DEF m, d, n
<1>3. ASSUME NEW x, NEW j, IsGep(d, x, j)
      PROVE  LET old == PlaceBefore(n, b, k, x, j)
             IN  /\ IsGep(c, old[1], old[2])
                 /\ d[x].body[j] = c[old[1]].body[old[2]]
                 /\ x = b => j < k
  <2>1. x \in 1 .. n + 2 /\ j \in 1 .. Len(d[x].body) /\ d[x].body[j].op = "gep"
    BY <1>1, <1>5, <1>3 DEF IsGep
  <2>2. CASE x = n + 1
    BY <1>1, <1>5, <2>1, <2>2
  <2>3. CASE x = n + 2
    <3>0. j \in 1 .. m - k + 1
      BY <1>1, <2>1, <2>3
    <3>1. /\ k + j - 1 \in 1 .. m /\ d[x].body[j] = c[b].body[k + j - 1]
      <4>1. k + j - 1 \in 1 .. m
        BY <1>5, <3>0
      <4> QED BY <1>1, <2>3, <3>0, <4>1
    <3>2. x # b /\ PlaceBefore(n, b, k, x, j) = <<b, k + j - 1>>
      BY <1>1, <1>5, <2>3 DEF PlaceBefore
    <3> QED BY <2>1, <3>1, <3>2 DEF IsGep, m, n
  <2>4. CASE x = b
    <3>1. j \in 1 .. k /\ j # k
      BY <1>1, <1>5, <1>2, <2>1, <2>4
    <3>2. j \in 1 .. k - 1 /\ j \in 1 .. m /\ d[b].body[j] = c[b].body[j] /\ j < k
      BY <1>1, <1>5, <3>1 DEF m
    <3>3. PlaceBefore(n, b, k, x, j) = <<b, j>>
      BY <1>1, <1>5, <2>4, SMTT(30) DEF PlaceBefore
    <3> QED BY <2>1, <2>4, <3>2, <3>3 DEF IsGep, m, n
  <2>5. CASE x \in 1 .. n \ {b}
    <3>1. d[x] = c[x] /\ PlaceBefore(n, b, k, x, j) = <<x, j>> /\ x # b
      BY <1>1, <1>5, <2>5 DEF PlaceBefore
    <3>2. IsGep(c, x, j)
      BY <2>1, <2>5, <3>1 DEF IsGep, n
    <3> QED BY <3>1, <3>2
  <2>6. x = n + 1 \/ x = n + 2 \/ x = b \/ x \in 1 .. n \ {b}
    <3>1. n \in Nat /\ x \in 1 .. n + 2
      BY <1>5, <2>1
    <3>2. x = n + 1 \/ x = n + 2 \/ x \in 1 .. n
      BY <3>1
    <3> QED BY <3>2
  <2> QED BY <2>2, <2>3, <2>4, <2>5, <2>6
<1>4. ASSUME NEW x, NEW j, IsGep(c, x, j)
      PROVE  LET new == PlaceAfter(n, b, k, x, j)
             IN  IsGep(d, new[1], new[2]) /\ d[new[1]].body[new[2]] = c[x].body[j]
  <2>1. x \in 1 .. n /\ j \in 1 .. Len(c[x].body) /\ c[x].body[j].op = "gep"
    BY <1>4 DEF IsGep, n
  <2>2. CASE x = b /\ j >= k
    <3>1. /\ j - k + 1 \in 1 .. m - k + 1 /\ k + (j - k + 1) - 1 = j
          /\ n + 2 \in 1 .. Len(d)
      <4>1. j \in 1 .. m /\ j >= k
        BY <2>1, <2>2 DEF m
      <4> QED BY <1>1, <1>5, <4>1
    <3>2. d[n + 2].body[j - k + 1] = c[x].body[j]
      BY <1>1, <1>5, <2>2, <3>1
    <3> QED BY <1>1, <1>5, <2>1, <2>2, <3>1, <3>2 DEF IsGep, PlaceAfter, n, m
  <2>3. CASE x = b /\ ~(j >= k)
    <3>1. j \in 1 .. k - 1 /\ j \in 1 .. k /\ b \in 1 .. Len(d)
      <4>1. j \in 1 .. m
        BY <2>1, <2>3 DEF m
      <4>2. Len(d) = n + 2
        BY <1>1
      <4> QED BY <1>5, <2>3, <4>1, <4>2
    <3> QED BY <1>1, <1>5, <2>1, <2>3, <3>1 DEF IsGep, PlaceAfter, n, m
  <2>4. CASE x # b
    <3>1. d[x] = c[x] /\ x \in 1 .. Len(d)
      BY <1>1, <1>5, <2>1, <2>4
    <3> QED BY <2>1, <2>4, <3>1 DEF IsGep, PlaceAfter, n, m
  <2> QED BY <2>2, <2>3, <2>4
<1> QED BY <1>3, <1>4 DEF n, d

LEMMA AssertionKeepsGeps ==
  ASSUME NEW c \in Seq(CodeBlocks), Distinct(c), Indexed(c), NEW b \in 1 .. Len(c),
         NEW k \in 1 .. Len(c[b].body), NEW cmp \in Cmps
  PROVE  LET d == InsertAssertion(c, b, k, cmp)
         IN  Distinct(d) /\ Indexed(d) /\ GepsOf(c) \subseteq GepsOf(d)
<1> DEFINE d == InsertAssertion(c, b, k, cmp)
<1>1. Len(c) \in Nat /\ d \in Seq(CodeBlocks)
  BY BlockParts, AssertionParts DEF AssertionIn
<1>2. ASSUME NEW x, NEW j, IsGep(d, x, j)
      PROVE  LET old == PlaceBefore(Len(c), b, k, x, j)
             IN  /\ IsGep(c, old[1], old[2]) /\ d[x].body[j] = c[old[1]].body[old[2]]
                 /\ x = b => j < k
  BY <1>2, GepsAfterAssertion
<1>2a. ASSUME NEW x, NEW j, IsGep(c, x, j)
      PROVE  LET new == PlaceAfter(Len(c), b, k, x, j)
             IN  IsGep(d, new[1], new[2]) /\ d[new[1]].body[new[2]] = c[x].body[j]
  BY <1>2a, GepsAfterAssertion
<1> HIDE DEF d
<1>3. Indexed(d)
  <2> SUFFICES ASSUME NEW x, NEW j, IsGep(d, x, j)
               PROVE  /\ Len(d[x].body[j].idx) > 0
                      /\ Len(d[x].body[j].types) = Len(d[x].body[j].idx)
    BY DEF Indexed
  <2> DEFINE p == PlaceBefore(Len(c), b, k, x, j)
  <2>1. IsGep(c, p[1], p[2]) /\ d[x].body[j] = c[p[1]].body[p[2]]
    BY <1>2
  <2> HIDE DEF p
  <2> QED BY <2>1, SMTT(30) DEF Indexed
<1>4. ASSUME NEW x, NEW j, NEW y, NEW i, IsGep(d, x, j), IsGep(d, y, i),
             <<x, j>> # <<y, i>>
      PROVE  PlaceBefore(Len(c), b, k, x, j) # PlaceBefore(Len(c), b, k, y, i)
  <2>1. /\ x \in 1 .. Len(d) /\ y \in 1 .. Len(d)
        /\ j \in 1 .. Len(d[x].body) /\ i \in 1 .. Len(d[y].body)
    BY <1>4 DEF IsGep
  <2>2. Len(d[x].body) \in Nat /\ Len(d[y].body) \in Nat
    BY <1>1, <2>1, BlockParts
  <2>3. j \in Int /\ i \in Int /\ j >= 1 /\ i >= 1
    BY <2>1, <2>2
  <2>4. (x = b => j < k) /\ (y = b => i < k)
    BY <1>2, <1>4
  <2>5. k \in Int
    BY BlockParts
  <2> QED BY <1>1, <1>4, <2>3, <2>4, <2>5 DEF PlaceBefore
<1>5. Distinct(d)
  <2> SUFFICES ASSUME NEW x, NEW j, NEW y, NEW i, IsGep(d, x, j), IsGep(d, y, i),
                      <<x, j>> # <<y, i>>, d[x].body[j].home = d[y].body[i].home
               PROVE  /\ IsSimple(d[x].body[j]) /\ IsSimple(d[y].body[i])
                      /\ d[x].body[j].n # d[y].body[i].n
    BY DEF Distinct
  <2> DEFINE p == PlaceBefore(Len(c), b, k, x, j)
             q == PlaceBefore(Len(c), b, k, y, i)
  <2>1. p # q /\ p = <<p[1], p[2]>> /\ q = <<q[1], q[2]>>
    BY <1>4 DEF PlaceBefore
  <2>2. /\ IsGep(c, p[1], p[2]) /\ d[x].body[j] = c[p[1]].body[p[2]]
        /\ IsGep(c, q[1], q[2]) /\ d[y].body[i] = c[q[1]].body[q[2]]
    BY <1>2
  <2> HIDE DEF p, q
  <2> QED BY <2>1, <2>2 DEF Distinct
<1>6. GepsOf(c) \subseteq GepsOf(d)
  <2> SUFFICES ASSUME NEW g \in GepsOf(c) PROVE g \in GepsOf(d)
    OBVIOUS
  <2>1. PICK x, j : IsGep(c, x, j) /\ c[x].body[j] = g
    BY GepsHere
  <2> DEFINE new == PlaceAfter(Len(c), b, k, x, j)
  <2>2. IsGep(d, new[1], new[2]) /\ d[new[1]].body[new[2]] = c[x].body[j]
    BY <1>2a, <2>1
  <2> HIDE DEF new
  <2>3. \E y, i : IsGep(d, y, i) /\ d[y].body[i] = g
    BY <2>1, <2>2
  <2> QED BY <1>1, <2>3, GepsHere
<1> QED BY <1>3, <1>5, <1>6 DEF d

(***************************************************************************)
(* Splitting a gep.                                                        *)
(***************************************************************************)
\* r is s, of length m, followed by t, of length p.
Joined(S, s, m, t, p, r) ==
  /\ r \in Seq(S) /\ Len(r) = m + p
  /\ \A i \in 1 .. m + p : r[i] = IF i <= m THEN s[i] ELSE t[i - m]

LEMMA ConcatJoins ==
  ASSUME NEW S, NEW s \in Seq(S), NEW t \in Seq(S)
  PROVE  Joined(S, s, Len(s), t, Len(t), s \o t)
BY ConcatProperties DEF Joined

LEMMA Splice ==
  ASSUME NEW S, NEW s \in Seq(S), NEW k \in 1 .. Len(s), NEW t \in Seq(S)
  PROVE  LET r == SubSeq(s, 1, k - 1) \o t \o SubSeq(s, k + 1, Len(s))
         IN  /\ r \in Seq(S) /\ Len(r) = Len(s) + Len(t) - 1
             /\ \A i \in 1 .. Len(r) :
                  r[i] = IF i < k THEN s[i]
                         ELSE IF i < k + Len(t) THEN t[i - k + 1] ELSE s[i - Len(t) + 1]
<1> DEFINE before == SubSeq(s, 1, k - 1)
           after  == SubSeq(s, k + 1, Len(s))
           m == Len(s)
           p == Len(t)
<1>1. m \in Nat /\ p \in Nat /\ k \in 1 .. m /\ \A i \in 1 .. m : s[i] \in S
  BY LenProperties, ElementOfSeq
<1>2. before \in Seq(S) /\ Len(before) = k - 1 /\ \A i \in 1 .. k - 1 : before[i] = s[i]
  BY <1>1, SubSeqProperties
<1>3. /\ after \in Seq(S) /\ Len(after) = m - k
      /\ \A i \in 1 .. m - k : after[i] = s[k + i]
  <2>1. \A i \in k + 1 .. m : s[i] \in S
    BY <1>1
  <2>2. /\ after \in Seq(S) /\ Len(after) = IF k + 1 <= m THEN m - (k + 1) + 1 ELSE 0
        /\ \A i \in 1 .. m - (k + 1) + 1 : after[i] = s[k + 1 + i - 1]
    BY <1>1, <2>1, SubSeqProperties
  <2> HIDE DEF after
  <2> QED BY <1>1, <2>2
<1> HIDE DEF before, after, m, p
<1> DEFINE u == before \o t
<1>4. /\ u \in Seq(S) /\ Len(u) = k - 1 + p
      /\ \A i \in 1 .. k - 1 + p : u[i] = IF i <= k - 1 THEN before[i] ELSE t[i - (k - 1)]
  <2>1. Joined(S, before, Len(before), t, Len(t), u)
    BY <1>2, ConcatJoins
  <2> HIDE DEF u
  <2> QED BY <1>2, <2>1 DEF Joined, p
<1> HIDE DEF u
<1> DEFINE r == u \o after
<1>5. /\ r \in Seq(S) /\ Len(r) = k - 1 + p + (m - k)
      /\ \A i \in 1 .. k - 1 + p + (m - k) :
           r[i] = IF i <= k - 1 + p THEN u[i] ELSE after[i - (k - 1 + p)]
  <2>1. Joined(S, u, Len(u), after, Len(after), r)
    BY <1>3, <1>4, ConcatJoins
  <2> HIDE DEF r
  <2> QED BY <1>3, <1>4, <2>1 DEF Joined
<1> HIDE DEF r
<1>6. Len(r) = m + p - 1
  BY <1>1, <1>5
<1>7. ASSUME NEW i \in 1 .. m + p - 1
      PROVE  r[i] = IF i < k THEN s[i] ELSE IF i < k + p THEN t[i - k + 1] ELSE s[i - p + 1]
  <2>1. i \in 1 .. k - 1 + p + (m - k) /\ i \in Int
    BY <1>1
  <2>2. CASE i < k
    BY <1>1, <1>2, <1>4, <1>5, <2>1, <2>2
  <2>3. CASE ~(i < k) /\ i < k + p
    <3>1. i <= k - 1 + p /\ i \in 1 .. k - 1 + p /\ ~(i <= k - 1) /\ i - (k - 1) = i - k + 1
      BY <1>1, <2>1, <2>3
    <3>2. r[i] = u[i] /\ u[i] = t[i - (k - 1)]
      BY <1>4, <1>5, <2>1, <3>1
    <3> QED BY <2>3, <3>1, <3>2
  <2>4. CASE ~(i < k) /\ ~(i < k + p)
    <3>1. /\ ~(i <= k - 1 + p) /\ i - (k - 1 + p) \in 1 .. m - k
          /\ k + (i - (k - 1 + p)) = i - p + 1
      BY <1>1, <2>1, <2>4
    <3>2. r[i] = after[i - (k - 1 + p)] /\ after[i - (k - 1 + p)] = s[k + (i - (k - 1 + p))]
      BY <1>3, <1>5, <2>1, <3>1
    <3> QED BY <2>4, <3>1, <3>2
  <2> QED BY <2>2, <2>3, <2>4
<1>8. r = SubSeq(s, 1, k - 1) \o t \o SubSeq(s, k + 1, Len(s))
  BY DEF r, u, before, after
<1> QED BY <1>5, <1>6, <1>7, <1>8 DEF m, p

\* What a gep is split into: at least two geps, simple and all different.
PartsOfSplit(g, t) ==
  /\ t \in Seq(Geps) /\ Len(t) \in Nat /\ Len(t) >= 2
  /\ \A i \in 1 .. Len(t) :
       /\ t[i].op = "gep" /\ t[i].home = g.home /\ IsSimple(t[i])
       /\ Len(t[i].idx) > 0 /\ Len(t[i].types) = Len(t[i].idx)
  /\ \A i, j \in 1 .. Len(t) : t[i].n = t[j].n => i = j

LEMMA SplitGepParts ==
  ASSUME NEW g \in Geps, Len(g.idx) > 0, Len(g.types) = Len(g.idx), ~IsSimple(g)
  PROVE  PartsOfSplit(g, SplitGep(g))
<1> DEFINE m == Len(g.idx)
           rest == [j \in 1 .. m - 1 |->
                      Gep(g.home, j + 1, Plain, <<Const(0), g.idx[j + 1]>>,
                          <<g.types[j], g.types[j + 1]>>)]
           whole == Gep(g.home, 1, g.base, <<g.idx[1]>>, <<g.types[1]>>)
<1>1. /\ g.home \in Nat \X Nat /\ g.base \in Bases /\ m \in Nat
      /\ \A j \in 1 .. m : g.idx[j] \in Operands /\ g.types[j] \in Types
  BY LenProperties, ElementOfSeq DEF Geps
<1>2. m >= 2 /\ (FirstIndexIsZero(g) => m >= 3)
  <2>1. m \in Nat /\ m > 0 /\ m # 1 /\ ~(m = 2 /\ FirstIndexIsZero(g))
    BY <1>1 DEF IsSimple
  <2> HIDE DEF m
  <2> QED BY <2>1
<1>3. ASSUME NEW j \in 1 .. m - 1
      PROVE  /\ rest[j] \in Geps /\ rest[j].op = "gep" /\ rest[j].home = g.home
             /\ IsSimple(rest[j]) /\ rest[j].n = j + 1
             /\ Len(rest[j].idx) = 2 /\ Len(rest[j].types) = 2
  <2>1. j \in 1 .. m /\ j + 1 \in 1 .. m
    BY <1>1
  <2>2. <<Const(0), g.idx[j + 1]>> \in Seq(Operands)
    BY <1>1, <2>1 DEF Operands, Const
  <2>3. <<g.types[j], g.types[j + 1]>> \in Seq(Types)
    BY <1>1, <2>1
  <2>4. Plain \in Bases /\ j + 1 \in Nat
    BY <1>1 DEF Bases
  <2>5. rest[j] = Gep(g.home, j + 1, Plain, <<Const(0), g.idx[j + 1]>>,
                      <<g.types[j], g.types[j + 1]>>)
    OBVIOUS
  <2> HIDE DEF rest
  <2>6. rest[j] \in Geps
    BY <1>1, <2>2, <2>3, <2>4, <2>5 DEF Gep, Geps
  <2>7. /\ rest[j].op = "gep" /\ rest[j].home = g.home /\ rest[j].n = j + 1
        /\ rest[j].idx = <<Const(0), g.idx[j + 1]>>
        /\ rest[j].types = <<g.types[j], g.types[j + 1]>>
    BY <2>5 DEF Gep
  <2>8. IsSimple(rest[j]) /\ Len(rest[j].idx) = 2 /\ Len(rest[j].types) = 2
    BY <2>7 DEF IsSimple, FirstIndexIsZero
  <2> QED BY <2>6, <2>7, <2>8
<1>4. /\ whole \in Geps /\ whole.op = "gep" /\ whole.home = g.home /\ IsSimple(whole)
      /\ whole.n = 1 /\ Len(whole.idx) = 1 /\ Len(whole.types) = 1
  <2>1. 1 \in 1 .. m
    BY <1>1, <1>2
  <2>2. <<g.idx[1]>> \in Seq(Operands) /\ <<g.types[1]>> \in Seq(Types)
    BY <1>1, <2>1
  <2>3. whole \in Geps
    BY <1>1, <2>2 DEF Gep, Geps
  <2> QED BY <2>3 DEF Gep, IsSimple
<1>5. rest \in Seq(Geps) /\ Len(rest) = m - 1
  <2>1. rest \in [1 .. m - 1 -> Geps]
    BY <1>3
  <2> HIDE DEF rest
  <2>2. m - 1 \in Nat
    BY <1>1, <1>2
  <2> QED BY <2>1, <2>2
<1> HIDE DEF rest, whole, m
<1>6. CASE FirstIndexIsZero(g)
  <2>1. SplitGep(g) = rest
    <3>1. SplitGep(g) = << >> \o rest
      BY <1>6 DEF SplitGep, rest, m
    <3> QED BY <1>5, <3>1, ConcatEmptySeq
  <2>2. m \in Nat /\ m >= 3
    BY <1>1, <1>2, <1>6 DEF m
  <2>3. Len(rest) \in Nat /\ Len(rest) >= 2
    BY <1>5, <2>2
  <2>4. ASSUME NEW i \in 1 .. Len(rest)
        PROVE  /\ rest[i].op = "gep" /\ rest[i].home = g.home /\ IsSimple(rest[i])
               /\ Len(rest[i].idx) > 0 /\ Len(rest[i].types) = Len(rest[i].idx)
               /\ rest[i].n = i + 1 /\ i \in Int
    <3>1. i \in 1 .. m - 1 /\ i \in Int
      BY <1>5, <2>2, <2>4
    <3>2. 2 > 0
      OBVIOUS
    <3> QED BY <1>3, <3>1, <3>2
  <2>5. \A i, j \in 1 .. Len(rest) : rest[i].n = rest[j].n => i = j
    BY <2>4
  <2> QED BY <1>5, <2>1, <2>3, <2>4, <2>5 DEF PartsOfSplit
<1>7. CASE ~FirstIndexIsZero(g)
  <2>1. SplitGep(g) = <<whole>> \o rest
    BY <1>7 DEF SplitGep, rest, whole, m
  <2> DEFINE t == <<whole>> \o rest
  <2>2. /\ t \in Seq(Geps) /\ Len(t) = m
        /\ \A i \in 1 .. m : t[i] = IF i <= 1 THEN whole ELSE rest[i - 1]
    <3> DEFINE one == <<whole>>
    <3>1. one \in Seq(Geps) /\ Len(one) = 1 /\ one[1] = whole
      BY <1>4
    <3> HIDE DEF one
    <3>2. /\ one \o rest \in Seq(Geps) /\ Len(one \o rest) = 1 + (m - 1)
          /\ \A i \in 1 .. 1 + (m - 1) :
               (one \o rest)[i] = IF i <= 1 THEN one[i] ELSE rest[i - 1]
      <4>1. Joined(Geps, one, Len(one), rest, Len(rest), one \o rest)
        BY <1>5, <3>1, ConcatJoins
      <4> QED BY <1>5, <3>1, <4>1 DEF Joined
    <3>3. m \in Nat /\ 1 + (m - 1) = m /\ \A i \in 1 .. m : i <= 1 => i = 1
      BY <1>1 DEF m
    <3> QED BY <3>1, <3>2, <3>3 DEF one
  <2> HIDE DEF t
  <2>3. m \in Nat /\ m >= 2
    BY <1>1, <1>2 DEF m
  <2>4. ASSUME NEW i \in 1 .. m
        PROVE  /\ t[i].op = "gep" /\ t[i].home = g.home /\ IsSimple(t[i]) /\ t[i].n = i
               /\ Len(t[i].idx) > 0 /\ Len(t[i].types) = Len(t[i].idx)
    <3>1. i \in Int /\ i >= 1 /\ 1 > 0 /\ 2 > 0
      BY <2>3
    <3>2. CASE i <= 1
      <4>1. i = 1
        BY <3>1, <3>2
      <4>2. t[i] = whole
        BY <2>2, <3>2
      <4> QED BY <1>4, <3>1, <4>1, <4>2
    <3>3. CASE ~(i <= 1)
      <4>1. i - 1 \in 1 .. m - 1 /\ (i - 1) + 1 = i
        BY <2>3, <3>1, <3>3
      <4>2. t[i] = rest[i - 1]
        BY <2>2, <3>3
      <4> QED BY <1>3, <3>1, <4>1, <4>2
    <3> QED BY <3>2, <3>3
  <2> QED BY <2>1, <2>2, <2>3, <2>4 DEF PartsOfSplit, t
<1> QED BY <1>6, <1>7

\* Where the parts of the gep at place k of block b go: their block grows.
SplitIn(c, b, k, t, d) ==
  /\ d \in Seq(CodeBlocks) /\ Len(d) = Len(c)
  /\ \A q \in 1 .. Len(c) : q # b => d[q] = c[q]
  /\ d[b].term = c[b].term
  /\ Len(d[b].body) = Len(c[b].body) + Len(t) - 1
  /\ \A i \in 1 .. Len(d[b].body) :
       d[b].body[i] = IF i < k THEN c[b].body[i]
                      ELSE IF i < k + Len(t) THEN t[i - k + 1]
                      ELSE c[b].body[i - Len(t) + 1]

LEMMA SplitParts ==
  ASSUME NEW c \in Seq(CodeBlocks), NEW b \in 1 .. Len(c), NEW k \in 1 .. Len(c[b].body),
         SplitGep(c[b].body[k]) \in Seq(Geps)
  PROVE  SplitIn(c, b, k, SplitGep(c[b].body[k]), SplitAt(c, b, k))
<1> DEFINE body == c[b].body
           t == SplitGep(body[k])
           d == SplitAt(c, b, k)
           r == SubSeq(body, 1, k - 1) \o t \o SubSeq(body, k + 1, Len(body))
<1>1. body \in Seq(Parts) /\ c[b].term \in Terms /\ c[b] = Block(body, c[b].term)
  BY BlockParts
<1>2. t \in Seq(Parts)
  <2> HIDE DEF t
  <2>1. t \in Seq(Geps) => t \in Seq(Parts)
    BY DEF Parts
  <2> QED BY <2>1 DEF t
<1>3. d = [c EXCEPT ![b].body = r]
  BY DEF SplitAt
<1>4. /\ r \in Seq(Parts) /\ Len(r) = Len(body) + Len(t) - 1
      /\ \A i \in 1 .. Len(r) :
           r[i] = IF i < k THEN body[i]
                  ELSE IF i < k + Len(t) THEN t[i - k + 1] ELSE body[i - Len(t) + 1]
  <2> HIDE DEF t
  <2> QED BY <1>1, <1>2, Splice, ZenonT(40)
<1> HIDE DEF t, r, d
<1>5. [c[b] EXCEPT !.body = r] = Block(r, c[b].term)
  <2> DEFINE e == c[b].term
  <2>1. c[b] = Block(body, e)
    BY <1>1
  <2> HIDE DEF body, e
  <2>2. [c[b] EXCEPT !.body = r] = Block(r, e)
    BY <2>1 DEF Block
  <2> QED BY <2>2 DEF e
<1>6. Block(r, c[b].term) \in CodeBlocks
  BY <1>1, <1>4 DEF Block, CodeBlocks, Parts
<1>7. d = [c EXCEPT ![b] = Block(r, c[b].term)]
  BY <1>3, <1>5
<1>8. /\ d \in Seq(CodeBlocks) /\ Len(d) = Len(c) /\ d[b] = Block(r, c[b].term)
      /\ \A q \in 1 .. Len(c) : q # b => d[q] = c[q]
  BY <1>6, <1>7, ExceptSeq
<1>9. d[b].body = r /\ d[b].term = c[b].term
  BY <1>8 DEF Block
<1> QED BY <1>4, <1>8, <1>9 DEF SplitIn, d, t

\* Where the instruction at place j of block x was before the gep at place k of
\* block b was split in p.
PlaceUnsplit(b, k, p, x, j) ==
  IF x # b \/ j < k THEN <<x, j>> ELSE IF j < k + p THEN <<b, k>> ELSE <<b, j - p + 1>>

LEMMA SplitKeepsGeps ==
  ASSUME NEW c \in Seq(CodeBlocks), Distinct(c), Indexed(c), NEW b, NEW k,
         IsGep(c, b, k), ~IsSimple(c[b].body[k])
  PROVE  LET d == SplitAt(c, b, k)
         IN  /\ Distinct(d) /\ Indexed(d)
             /\ SplitIn(c, b, k, SplitGep(c[b].body[k]), d)
             /\ Len(d[b].body) > Len(c[b].body)
<1> DEFINE g == c[b].body[k]
           t == SplitGep(g)
           p == Len(t)
           d == SplitAt(c, b, k)
           Old(x, j) == PlaceUnsplit(b, k, p, x, j)
<1>1. /\ b \in 1 .. Len(c) /\ k \in 1 .. Len(c[b].body) /\ Len(c[b].body) \in Nat
      /\ Len(c) \in Nat /\ g.op = "gep"
  BY BlockParts DEF IsGep
<1>2. PartsOfSplit(g, t)
  <2>1. g \in Geps /\ Len(g.idx) > 0 /\ Len(g.types) = Len(g.idx)
    BY GepParts DEF Indexed
  <2> HIDE DEF g
  <2> QED BY <2>1, SplitGepParts DEF g
<1>3. SplitIn(c, b, k, t, d)
  <2>1. t \in Seq(Geps)
    BY <1>2 DEF PartsOfSplit
  <2> QED BY <1>1, <2>1, SplitParts
<1> HIDE DEF t, d, g
<1>4. p \in Nat /\ p >= 2 /\ Len(t) = p
  BY <1>2 DEF PartsOfSplit
<1> HIDE DEF p
<1>5. /\ Len(d) = Len(c) /\ \A q \in 1 .. Len(c) : q # b => d[q] = c[q]
      /\ Len(d[b].body) = Len(c[b].body) + p - 1 /\ d \in Seq(CodeBlocks)
      /\ \A i \in 1 .. Len(d[b].body) :
           d[b].body[i] = IF i < k THEN c[b].body[i]
                          ELSE IF i < k + p THEN t[i - k + 1] ELSE c[b].body[i - p + 1]
  BY <1>3, <1>4 DEF SplitIn
<1>6. ASSUME NEW x, NEW j, IsGep(d, x, j)
      PROVE  /\ IsGep(c, Old(x, j)[1], Old(x, j)[2]) /\ Old(x, j) = <<Old(x, j)[1], Old(x, j)[2]>>
             /\ j \in Int
             /\ \/ Old(x, j) # <<b, k>> /\ d[x].body[j] = c[Old(x, j)[1]].body[Old(x, j)[2]]
                \/ /\ Old(x, j) = <<b, k>> /\ x = b
                   /\ j - k + 1 \in 1 .. p /\ d[x].body[j] = t[j - k + 1]
  <2>1. x \in 1 .. Len(c) /\ j \in 1 .. Len(d[x].body) /\ d[x].body[j].op = "gep"
    BY <1>5, <1>6 DEF IsGep
  <2>2. CASE x # b
    <3>1. Old(x, j) = <<x, j>> /\ d[x] = c[x]
      BY <1>5, <2>1, <2>2 DEF PlaceUnsplit
    <3>2. Len(c[x].body) \in Nat
      BY <2>1, BlockParts
    <3>3. j \in Int
      BY <2>1, <3>1, <3>2
    <3> QED BY <2>1, <2>2, <3>1, <3>3 DEF IsGep
  <2>3. CASE x = b
    <3> DEFINE m == Len(c[b].body)
    <3>1. j \in 1 .. m + p - 1 /\ m \in Nat /\ k \in 1 .. m
      BY <1>1, <1>5, <2>1, <2>3
    <3>2. d[b].body[j] = IF j < k THEN c[b].body[j]
                         ELSE IF j < k + p THEN t[j - k + 1] ELSE c[b].body[j - p + 1]
      BY <1>5, <2>1, <2>3
    <3>3. IsGep(c, b, k)
      OBVIOUS
    <3>4. ASSUME NEW i \in 1 .. m, c[b].body[i].op = "gep" PROVE IsGep(c, b, i)
      BY <1>1, <3>4 DEF IsGep
    <3> HIDE DEF m
    <3>5. CASE j < k
      <4>1. Old(x, j) = <<b, j>> /\ j \in 1 .. m /\ j # k /\ j \in Int
        BY <2>3, <3>1, <3>5 DEF PlaceUnsplit
      <4> QED BY <2>1, <2>3, <3>2, <3>4, <3>5, <4>1
    <3>6. CASE ~(j < k) /\ j < k + p
      <4>1. Old(x, j) = <<b, k>> /\ j - k + 1 \in 1 .. p /\ j \in Int
        BY <1>4, <2>3, <3>1, <3>6 DEF PlaceUnsplit
      <4> QED BY <2>3, <3>2, <3>3, <3>6, <4>1
    <3>7. CASE ~(j < k) /\ ~(j < k + p)
      <4>1. /\ Old(x, j) = <<b, j - p + 1>> /\ j - p + 1 \in 1 .. m
            /\ j - p + 1 # k /\ j \in Int
        BY <1>4, <2>3, <3>1, <3>7 DEF PlaceUnsplit
      <4> QED BY <2>1, <2>3, <3>2, <3>4, <3>7, <4>1
    <3> QED BY <3>5, <3>6, <3>7
  <2> QED BY <2>2, <2>3
<1>7. ASSUME NEW x, NEW j, NEW y, NEW i, IsGep(d, x, j), IsGep(d, y, i),
             <<x, j>> # <<y, i>>, Old(x, j) = Old(y, i)
      PROVE  Old(x, j) = <<b, k>>
  BY <1>1, <1>4, <1>6, <1>7, SMTT(30) DEF PlaceUnsplit
<1>8. Distinct(d)
  <2> SUFFICES ASSUME NEW x, NEW j, NEW y, NEW i, IsGep(d, x, j), IsGep(d, y, i),
                      <<x, j>> # <<y, i>>, d[x].body[j].home = d[y].body[i].home
               PROVE  /\ IsSimple(d[x].body[j]) /\ IsSimple(d[y].body[i])
                      /\ d[x].body[j].n # d[y].body[i].n
    BY DEF Distinct
  <2> DEFINE u == Old(x, j)
             v == Old(y, i)
  <2>1. /\ IsGep(c, u[1], u[2]) /\ IsGep(c, v[1], v[2])
        /\ u = <<u[1], u[2]>> /\ v = <<v[1], v[2]>>
    BY <1>6
  <2>2. ASSUME NEW z, NEW l, IsGep(d, z, l)
        PROVE  d[z].body[l].home = c[Old(z, l)[1]].body[Old(z, l)[2]].home
    BY <1>2, <1>4, <1>6, <2>2 DEF PartsOfSplit, g
  <2>3. c[u[1]].body[u[2]].home = c[v[1]].body[v[2]].home
    BY <2>2
  <2>4. u # v => /\ IsSimple(c[u[1]].body[u[2]]) /\ IsSimple(c[v[1]].body[v[2]])
                 /\ c[u[1]].body[u[2]].n # c[v[1]].body[v[2]].n
    <3> HIDE DEF u, v
    <3> QED BY <2>1, <2>3 DEF Distinct
  <2>5. ~IsSimple(c[b].body[k])
    BY DEF g
  <2>6. CASE u # v
    <3>1. u # <<b, k>> /\ v # <<b, k>>
      <4> HIDE DEF u, v
      <4> QED BY <2>1, <2>4, <2>5, <2>6
    <3> QED BY <1>6, <2>4, <2>6, <3>1, ZenonT(40)
  <2>7. CASE u = v
    <3>1. u = <<b, k>>
      BY <1>7, <2>7
    <3>2. /\ x = b /\ y = b /\ j # i /\ j \in Int /\ i \in Int
          /\ j - k + 1 \in 1 .. p /\ d[x].body[j] = t[j - k + 1]
          /\ i - k + 1 \in 1 .. p /\ d[y].body[i] = t[i - k + 1]
      <4>1. /\ x = b /\ j \in Int /\ j - k + 1 \in 1 .. p /\ d[x].body[j] = t[j - k + 1]
        BY <1>6, <3>1
      <4>2. /\ y = b /\ i \in Int /\ i - k + 1 \in 1 .. p /\ d[y].body[i] = t[i - k + 1]
        BY <1>6, <2>7, <3>1, ZenonT(40)
      <4> QED BY <4>1, <4>2
    <3>3. j - k + 1 # i - k + 1
      BY <1>1, <3>2
    <3> QED BY <1>2, <1>4, <3>2, <3>3 DEF PartsOfSplit
  <2> QED BY <2>6, <2>7
<1>9. Indexed(d)
  <2> SUFFICES ASSUME NEW x, NEW j, IsGep(d, x, j)
               PROVE  /\ Len(d[x].body[j].idx) > 0
                      /\ Len(d[x].body[j].types) = Len(d[x].body[j].idx)
    BY DEF Indexed
  <2> DEFINE u == Old(x, j)
  <2>1. IsGep(c, u[1], u[2])
    BY <1>6
  <2>2. CASE d[x].body[j] = c[u[1]].body[u[2]]
    <3> HIDE DEF u
    <3> QED BY <2>1, <2>2 DEF Indexed
  <2>3. CASE j - k + 1 \in 1 .. p /\ d[x].body[j] = t[j - k + 1]
    BY <1>2, <1>4, <2>3 DEF PartsOfSplit
  <2>4. \/ d[x].body[j] = c[u[1]].body[u[2]]
        \/ j - k + 1 \in 1 .. p /\ d[x].body[j] = t[j - k + 1]
    BY <1>6
  <2> QED BY <2>2, <2>3, <2>4
<1>10. Len(d[b].body) > Len(c[b].body)
  BY <1>1, <1>4, <1>5
<1> QED BY <1>3, <1>8, <1>9, <1>10 DEF d, t, g

(***************************************************************************)
(* A check.  It leaves its gep first in a block that only the comparison   *)
(* with the upper bound leads to, alone in a block that only a comparison  *)
(* with the lower bound leads to; no later check comes between them.       *)
(***************************************************************************)
Guard(c, g, u, b, b1, b0) ==
  /\ IsGep(c, b, 1) /\ c[b].body[1] = g
  /\ b1 \in 1 .. Len(c) /\ IsBr(c, b1) /\ c[b1].term.T = b
  /\ Len(c[b1].body) = 1 /\ c[b1].body[1] = Cmp(g.home, "SLT", Last(g.idx), u)
  /\ b0 \in 1 .. Len(c) /\ IsBr(c, b0) /\ c[b0].term.T = b1
  /\ Len(c[b0].body) > 0
  /\ c[b0].body[Len(c[b0].body)] = Cmp(g.home, "SLE", Const(0), Last(g.idx))

Guarded(c, g) == \A u \in Upper(g) : \E b, b1, b0 : Guard(c, g, u, b, b1, b0)

LEMMA UpperParts ==
  ASSUME NEW g \in Geps, g.types[1] \in Types
  PROVE  Upper(g) \subseteq Operands /\ \A u, v \in Upper(g) : u = v
<1>1. g.base \in Bases /\ (g.base.kind = "vla" => g.base.ops \in Operands \X Operands)
  BY DEF Geps, Bases, Plain
<1>2. FindDynArrayLength(g) \subseteq Operands
      /\ \A u, v \in FindDynArrayLength(g) : u = v
  BY <1>1 DEF FindDynArrayLength
<1>3. g.types[1].kind = "array" => Const(g.types[1].n) \in Operands
  BY DEF Types, Struct, IntType, Other, Const, Operands
<1> QED BY <1>2, <1>3 DEF Upper

LEMMA CheckCmps ==
  ASSUME NEW c \in Seq(CodeBlocks), Indexed(c), NEW b, NEW k, IsGep(c, b, k),
         NEW u \in Upper(c[b].body[k])
  PROVE  LET g == c[b].body[k]
         IN  /\ Cmp(g.home, "SLT", Last(g.idx), u) \in Cmps
             /\ Cmp(g.home, "SLE", Const(0), Last(g.idx)) \in Cmps
<1> DEFINE g == c[b].body[k]
<1>1. g \in Geps /\ Last(g.idx) \in Operands /\ g.types[1] \in Types
  BY GepParts
<1> HIDE DEF g
<1>2. u \in Operands
  BY <1>1, UpperParts DEF g
<1>3. Const(0) \in Operands /\ g.home \in Nat \X Nat
  BY <1>1 DEF Const, Operands, Geps
<1> QED BY <1>1, <1>2, <1>3 DEF Cmp, Cmps, g

LEMMA AssertionKeepsGuard ==
  ASSUME NEW c \in Seq(CodeBlocks), NEW x \in 1 .. Len(c), NEW k \in 1 .. Len(c[x].body),
         NEW cmp \in Cmps, NEW g, NEW u, NEW b, NEW b1, NEW b0, Guard(c, g, u, b, b1, b0),
         ~(x = b /\ k = 1), x # b1
  PROVE  \E z : Guard(InsertAssertion(c, x, k, cmp), g, u, b, b1, z)
<1> DEFINE d == InsertAssertion(c, x, k, cmp)
           n == Len(c)
           m == Len(c[x].body)
           z == IF x = b0 THEN n + 2 ELSE b0
<1>1. AssertionIn(c, x, k, cmp, d)
  BY AssertionParts
<1>2. n \in Nat /\ m \in Nat
  BY BlockParts
<1> HIDE DEF d
<1>3. /\ b \in 1 .. n /\ 1 \in 1 .. Len(c[b].body) /\ c[b].body[1] = g /\ g.op = "gep"
      /\ b1 \in 1 .. n /\ b0 \in 1 .. n
  BY DEF Guard, IsGep
<1>4. n + 2 \in 1 .. Len(d) /\ 1 .. n \subseteq 1 .. Len(d)
  BY <1>1, <1>2 DEF AssertionIn
<1>5. IsGep(d, b, 1) /\ d[b].body[1] = g
  <2>1. CASE x = b
    <3>1. 1 \in 1 .. k - 1 /\ 1 \in 1 .. k
      BY <1>2, <2>1
    <3>2. Len(d[b].body) = k /\ d[b].body[1] = c[b].body[1]
      BY <1>1, <2>1, <3>1 DEF AssertionIn
    <3> QED BY <1>3, <1>4, <3>1, <3>2 DEF IsGep
  <2>2. CASE x # b
    <3>1. d[b] = c[b]
      BY <1>1, <1>3, <2>2 DEF AssertionIn
    <3> QED BY <1>3, <1>4, <3>1 DEF IsGep
  <2> QED BY <2>1, <2>2
<1>6. b1 \in 1 .. Len(d) /\ d[b1] = c[b1]
  BY <1>1, <1>3, <1>4 DEF AssertionIn
<1>7. /\ z \in 1 .. Len(d) /\ d[z].term = c[b0].term /\ Len(d[z].body) > 0
      /\ d[z].body[Len(d[z].body)] = c[b0].body[Len(c[b0].body)]
  <2>1. CASE x = b0
    <3>1. m - k + 1 \in 1 .. m - k + 1 /\ k + (m - k + 1) - 1 = m /\ m - k + 1 > 0
      BY <1>2
    <3>2. /\ d[n + 2].term = c[x].term /\ Len(d[n + 2].body) = m - k + 1
          /\ d[n + 2].body[m - k + 1] = c[x].body[k + (m - k + 1) - 1]
      <4> HIDE DEF m
      <4> QED BY <1>1, <3>1 DEF AssertionIn, m
    <3> QED BY <1>4, <2>1, <3>1, <3>2
  <2>2. CASE x # b0
    <3>1. d[b0] = c[b0]
      BY <1>1, <1>3, <2>2 DEF AssertionIn
    <3> QED BY <1>3, <1>4, <2>2, <3>1 DEF Guard
  <2> QED BY <2>1, <2>2
<1> HIDE DEF z
<1>8. Guard(d, g, u, b, b1, z)
  BY <1>5, <1>6, <1>7 DEF Guard, IsBr
<1> QED BY <1>8 DEF d

LEMMA CheckGuards ==
  ASSUME NEW c \in Seq(CodeBlocks), Indexed(c), NEW b, NEW k, IsGep(c, b, k),
         NEW u \in Upper(c[b].body[k])
  PROVE  LET g == c[b].body[k]
         IN  \E x, b1, b0 : Guard(InsertBoundCheck(c, b, k, g, Const(0), u), g, u, x, b1, b0)
<1> DEFINE g == c[b].body[k]
           lt == Cmp(g.home, "SLT", Last(g.idx), u)
           le == Cmp(g.home, "SLE", Const(0), Last(g.idx))
           once == InsertAssertion(c, b, k, lt)
           d == InsertAssertion(once, b, k, le)
           n == Len(c)
           m == Len(c[b].body)
<1>1. lt \in Cmps /\ le \in Cmps
  BY CheckCmps
<1>2. b \in 1 .. n /\ k \in 1 .. m /\ g.op = "gep"
  BY DEF IsGep
<1>3. n \in Nat /\ m \in Nat
  BY <1>2, BlockParts
<1>4. InsertBoundCheck(c, b, k, g, Const(0), u) = d
  BY DEF InsertBoundCheck
<1> HIDE DEF lt, le
<1>5. AssertionIn(c, b, k, lt, once)
  BY <1>1, <1>2, AssertionParts
<1> HIDE DEF once, g
<1>6. /\ once \in Seq(CodeBlocks) /\ Len(once) = n + 2 /\ b \in 1 .. Len(once)
      /\ once[b].term = OnCmp(lt.home, n + 2, n + 1)
      /\ Len(once[b].body) = k /\ k \in 1 .. Len(once[b].body) /\ once[b].body[k] = lt
      /\ Len(once[n + 2].body) = m - k + 1
      /\ \A j \in 1 .. m - k + 1 : once[n + 2].body[j] = c[b].body[k + j - 1]
  <2>1. k \in 1 .. k /\ b \in 1 .. n + 2
    BY <1>2, <1>3
  <2> QED BY <1>5, <2>1 DEF AssertionIn
<1>7. AssertionIn(once, b, k, le, d)
  BY <1>1, <1>6, AssertionParts
<1> HIDE DEF d
<1>8. /\ IsGep(d, n + 2, 1) /\ d[n + 2].body[1] = g
  <2>1. 1 \in 1 .. m - k + 1 /\ k + 1 - 1 = k /\ n + 2 \in 1 .. n + 2 /\ n + 2 # b
        /\ n + 2 \in 1 .. n + 2 + 2
    BY <1>2, <1>3
  <2>2. d[n + 2] = once[n + 2] /\ Len(d) = n + 2 + 2
    BY <1>6, <1>7, <2>1 DEF AssertionIn
  <2>3. once[n + 2].body[1] = g
    BY <1>6, <2>1 DEF g
  <2> QED BY <1>2, <1>6, <2>1, <2>2, <2>3 DEF IsGep
<1>9. /\ n + 4 \in 1 .. Len(d) /\ d[n + 4].term = OnCmp(lt.home, n + 2, n + 1)
      /\ Len(d[n + 4].body) = 1 /\ d[n + 4].body[1] = lt
  <2>1. /\ Len(once) + 2 = n + 4 /\ k - k + 1 = 1 /\ 1 \in 1 .. 1 /\ k + 1 - 1 = k
        /\ n + 4 \in 1 .. n + 4
    BY <1>2, <1>3, <1>6
  <2>2. /\ Len(d) = n + 4 /\ d[n + 4].term = once[b].term
        /\ Len(d[n + 4].body) = k - k + 1
        /\ \A j \in 1 .. k - k + 1 : d[n + 4].body[j] = once[b].body[k + j - 1]
    BY <1>6, <1>7, <2>1 DEF AssertionIn
  <2> QED BY <1>6, <2>1, <2>2
<1>10. /\ b \in 1 .. Len(d) /\ d[b].term = OnCmp(le.home, n + 4, n + 3)
       /\ Len(d[b].body) = k /\ k > 0 /\ d[b].body[k] = le
  <2>1. Len(once) + 2 = n + 4 /\ Len(once) + 1 = n + 3 /\ b \in 1 .. n + 4 /\ k > 0
    BY <1>2, <1>3, <1>6
  <2> QED BY <1>7, <2>1 DEF AssertionIn
<1>11. Guard(d, g, u, n + 2, n + 4, b)
  BY <1>8, <1>9, <1>10 DEF Guard, IsBr, OnCmp, lt, le
<1> QED BY <1>4, <1>11 DEF g

LEMMA AssertionAddsNoGep ==
  ASSUME NEW c \in Seq(CodeBlocks), NEW b \in 1 .. Len(c),
         NEW k \in 1 .. Len(c[b].body), NEW cmp \in Cmps
  PROVE  GepsOf(InsertAssertion(c, b, k, cmp)) \subseteq GepsOf(c)
<1> DEFINE d == InsertAssertion(c, b, k, cmp)
<1>1. d \in Seq(CodeBlocks)
  BY AssertionParts DEF AssertionIn
<1>2. ASSUME NEW x, NEW j, IsGep(d, x, j)
      PROVE  LET old == PlaceBefore(Len(c), b, k, x, j)
             IN  IsGep(c, old[1], old[2]) /\ d[x].body[j] = c[old[1]].body[old[2]]
  BY <1>2, GepsAfterAssertion
<1> HIDE DEF d
<1>3. SUFFICES ASSUME NEW g \in GepsOf(d) PROVE g \in GepsOf(c)
  BY DEF d
<1>4. PICK x, j : IsGep(d, x, j) /\ d[x].body[j] = g
  BY <1>1, GepsHere
<1> DEFINE old == PlaceBefore(Len(c), b, k, x, j)
<1>5. IsGep(c, old[1], old[2]) /\ d[x].body[j] = c[old[1]].body[old[2]]
  BY <1>2, <1>4
<1> HIDE DEF old
<1> QED BY <1>4, <1>5, GepsHere

\* What the check of a gep keeps.
LEMMA CheckKeeps ==
  ASSUME source \in Programs, NEW c, Structured(c), Distinct(c), Indexed(c),
         NEW b, NEW k, IsGep(c, b, k), NEW u \in Upper(c[b].body[k])
  PROVE  LET g == c[b].body[k]
             d == InsertBoundCheck(c, b, k, g, Const(0), u)
         IN  /\ Structured(d) /\ Distinct(d) /\ Indexed(d)
             /\ GepsOf(d) = GepsOf(c) /\ Len(d) > Len(c)
             /\ \A h : h # g /\ Guarded(c, h) => Guarded(d, h)
<1> DEFINE g == c[b].body[k]
           lt == Cmp(g.home, "SLT", Last(g.idx), u)
           le == Cmp(g.home, "SLE", Const(0), Last(g.idx))
           once == InsertAssertion(c, b, k, lt)
           d == InsertAssertion(once, b, k, le)
<1>1. c \in Seq(CodeBlocks)
  BY DEF Structured
<1>2. lt \in Cmps /\ le \in Cmps /\ lt.op = "icmp"
  BY <1>1, CheckCmps DEF Cmp
<1>3. b \in 1 .. Len(c) /\ k \in 1 .. Len(c[b].body) /\ g.op = "gep"
  BY DEF IsGep
<1>4. InsertBoundCheck(c, b, k, g, Const(0), u) = d
  BY DEF InsertBoundCheck
<1>5. Len(c) \in Nat /\ Len(c[b].body) \in Nat
  BY <1>1, <1>3, BlockParts
<1> HIDE DEF lt, le
<1>6. AssertionIn(c, b, k, lt, once)
  BY <1>1, <1>2, <1>3, AssertionParts
<1>7. Structured(once)
  BY <1>2, <1>3, AssertionStructured
<1>8. Distinct(once) /\ Indexed(once) /\ GepsOf(once) = GepsOf(c)
  <2>1. Distinct(once) /\ Indexed(once) /\ GepsOf(c) \subseteq GepsOf(once)
    BY <1>1, <1>2, <1>3, AssertionKeepsGeps
  <2>2. GepsOf(once) \subseteq GepsOf(c)
    BY <1>1, <1>2, <1>3, AssertionAddsNoGep
  <2> QED BY <2>1, <2>2
<1>9. ASSUME NEW h, NEW v, NEW x, NEW b1, NEW b0, h # g, Guard(c, h, v, x, b1, b0)
      PROVE  ~(b = x /\ k = 1) /\ b # b1
  <2>1. x = b /\ k = 1 => g = h
    BY <1>9 DEF Guard
  <2>2. b = b1 => k = 1 /\ g.op = "icmp"
    BY <1>3, <1>9 DEF Guard, Cmp
  <2> QED BY <1>3, <1>9, <2>1, <2>2
<1>10. ASSUME NEW h, NEW v, NEW x, NEW b1, NEW b0, h # g, Guard(c, h, v, x, b1, b0)
       PROVE  \E z : Guard(once, h, v, x, b1, z)
  <2>1. ~(b = x /\ k = 1) /\ b # b1
    BY <1>9, <1>10
  <2> HIDE DEF g, once
  <2>2. \E z : Guard(InsertAssertion(c, b, k, lt), h, v, x, b1, z)
    BY <1>1, <1>2, <1>3, <1>10, <2>1, AssertionKeepsGuard
  <2> QED BY <2>2 DEF once
<1> HIDE DEF once, g
<1>11. /\ once \in Seq(CodeBlocks) /\ Len(once) = Len(c) + 2 /\ b \in 1 .. Len(once)
       /\ k \in 1 .. Len(once[b].body) /\ once[b].body[k].op = "icmp"
  <2>1. b \in 1 .. Len(c) + 2 /\ k \in 1 .. k
    BY <1>3, <1>5
  <2> QED BY <1>2, <1>6, <2>1 DEF AssertionIn
<1>12. AssertionIn(once, b, k, le, d)
  BY <1>2, <1>11, AssertionParts
<1>13. Structured(d)
  BY <1>2, <1>7, <1>11, AssertionStructured
<1>14. Distinct(d) /\ Indexed(d) /\ GepsOf(d) = GepsOf(once)
  <2>1. Distinct(d) /\ Indexed(d) /\ GepsOf(once) \subseteq GepsOf(d)
    BY <1>2, <1>8, <1>11, AssertionKeepsGeps
  <2>2. GepsOf(d) \subseteq GepsOf(once)
    BY <1>2, <1>11, AssertionAddsNoGep
  <2> QED BY <2>1, <2>2
<1>15. ASSUME NEW h, NEW v, NEW x, NEW b1, NEW b0, h # g, Guard(c, h, v, x, b1, b0)
       PROVE  \E z : Guard(d, h, v, x, b1, z)
  <2>1. ~(b = x /\ k = 1) /\ b # b1
    BY <1>9, <1>15 DEF g
  <2>2. PICK y : Guard(once, h, v, x, b1, y)
    BY <1>10, <1>15 DEF g, once
  <2> QED BY <1>2, <1>11, <2>1, <2>2, AssertionKeepsGuard
<1> HIDE DEF d
<1>16. \A h : h # g /\ Guarded(c, h) => Guarded(d, h)
  <2> SUFFICES ASSUME NEW h, h # g, Guarded(c, h), NEW v \in Upper(h)
               PROVE  \E x, b1, b0 : Guard(d, h, v, x, b1, b0)
    BY DEF Guarded
  <2>1. PICK x, b1, b0 : Guard(c, h, v, x, b1, b0)
    BY DEF Guarded
  <2> QED BY <1>15, <2>1
<1>17. Len(d) > Len(c)
  BY <1>5, <1>11, <1>12 DEF AssertionIn
<1> QED BY <1>4, <1>8, <1>13, <1>14, <1>16, <1>17 DEF g

(***************************************************************************)
(* The invariant of the pass and of the run after it.                      *)
(***************************************************************************)
Original ==
  [b \in DOMAIN source |->
     Block(source[b].body, Goto(<<b, Len(source[b].body) + 1>>, source[b].succ))]

\* The code keeps its shape, whatever was split and checked.
CodeInv ==
  /\ source \in Programs
  /\ stage \in {"split", "insert", "run"}
  /\ Structured(code) /\ Distinct(code) /\ Indexed(code)
  /\ geps \subseteq GepsOf(code)
  /\ stage = "split" => /\ geps = {} /\ Len(code) = Len(source)
                        /\ \A b \in 1 .. Len(code) : code[b].term.op = "goto"
  /\ stage = "run" => geps = {}

\* The geps that were visited are guarded.
VisitedInv ==
  stage # "split" => \A g \in GepsOf(code) : g \notin geps => Guarded(code, g)

\* The pass reports that it changed the function iff it grew.
ReportInv ==
  /\ modified \in BOOLEAN
  /\ ~modified => code = Original
  /\ modified => \/ Len(code) > Len(source)
                 \/ \E b \in 1 .. Len(source) : Len(code[b].body) > Len(source[b].body)

\* The run is at a place of the code, and begins when the pass is done.
AtInv ==
  /\ val \in [Vars -> Ints]
  /\ outcome \in {"running", "returned", "exited"}
  /\ at = <<at[1], at[2]>> /\ at[1] \in 1 .. Len(code) /\ at[2] \in 1 .. Len(Body) + 1
  /\ stage # "run" => at = <<1, 1>> /\ outcome = "running"

InsInv == CodeInv /\ VisitedInv /\ ReportInv /\ AtInv

LEMMA OriginalParts ==
  ASSUME source \in Programs
  PROVE  /\ Structured(Original) /\ Distinct(Original) /\ Indexed(Original)
         /\ Len(Original) = Len(source) /\ DOMAIN Original = 1 .. Len(source)
         /\ \A b \in 1 .. Len(source) :
              Original[b].term.op = "goto" /\ Original[b].body = source[b].body
<1> DEFINE n == Len(source)
           o == Original
<1>1. IsFunction(source) /\ n \in Nat \ {0} /\ DOMAIN source = 1 .. n
  BY SourceParts
<1>2. ASSUME NEW b \in 1 .. n
      PROVE  /\ source[b].body \in Seq(Loads \cup Geps) /\ source[b].succ \subseteq 1 .. n
             /\ Len(source[b].body) \in Nat /\ DOMAIN source[b].body = 1 .. Len(source[b].body)
  <2>1. source \in Seq([body : Seq(Loads \cup Geps), succ : SUBSET Nat])
    BY <1>1 DEF IsFunction
  <2>2. source[b] \in [body : Seq(Loads \cup Geps), succ : SUBSET Nat]
    BY <2>1, ElementOfSeq
  <2>3. source[b].body \in Seq(Loads \cup Geps)
    BY <2>2
  <2> QED BY <1>1, <2>3, LenProperties DEF IsFunction
<1>3. ASSUME NEW b \in 1 .. n
      PROVE  /\ o[b] = Block(source[b].body, Goto(<<b, Len(source[b].body) + 1>>, source[b].succ))
             /\ o[b] \in CodeBlocks
  <2>1. o[b] = Block(source[b].body, Goto(<<b, Len(source[b].body) + 1>>, source[b].succ))
    BY <1>1 DEF Original
  <2>2. source[b].body \in Seq(Parts)
    <3> DEFINE s == source[b].body
    <3>1. s \in Seq(Loads \cup Geps)
      BY <1>2
    <3> HIDE DEF s
    <3>2. s \in Seq(Parts)
      BY <3>1 DEF Parts
    <3> QED BY <3>2 DEF s
  <2>3. Goto(<<b, Len(source[b].body) + 1>>, source[b].succ) \in Terms
    <3>1. b \in Nat /\ Len(source[b].body) + 1 \in Nat /\ source[b].succ \in SUBSET Nat
      BY <1>1, <1>2
    <3> QED BY <3>1 DEF Goto, Terms
  <2> QED BY <2>1, <2>2, <2>3 DEF Block, CodeBlocks, Parts
<1>4. o = [b \in 1 .. n |-> o[b]] /\ DOMAIN o = 1 .. n
  BY <1>1 DEF Original
<1> HIDE DEF o
<1>5. o \in Seq(CodeBlocks) /\ Len(o) = n
  <2>1. o \in [1 .. n -> CodeBlocks]
    BY <1>3, <1>4
  <2> HIDE DEF n
  <2>2. n \in Nat
    BY <1>1
  <2> QED BY <2>1, <2>2, <1>4
<1>6. ASSUME NEW b \in 1 .. n
      PROVE  /\ o[b].term.op = "goto" /\ o[b].term.succ \subseteq 1 .. n
             /\ o[b].body = source[b].body /\ ~IsBr(o, b) /\ ~IsExit(o, b)
  <2>1. /\ o[b].body = source[b].body
        /\ o[b].term = Goto(<<b, Len(source[b].body) + 1>>, source[b].succ)
    <3> DEFINE body == source[b].body
               term == Goto(<<b, Len(source[b].body) + 1>>, source[b].succ)
    <3>1. o[b] = Block(body, term)
      BY <1>3
    <3> HIDE DEF body, term
    <3>2. o[b].body = body /\ o[b].term = term
      BY <3>1 DEF Block
    <3> QED BY <3>2 DEF body, term
  <2>2. o[b].term.op = "goto" /\ o[b].term.succ = source[b].succ
    BY <2>1 DEF Goto
  <2> QED BY <1>2, <2>1, <2>2 DEF IsBr, IsExit
<1>7. Structured(o)
  BY <1>1, <1>5, <1>6 DEF Structured
<1>8. ASSUME NEW b, NEW k, IsGep(o, b, k)
      PROVE  /\ o[b].body[k].home = <<b, k>>
             /\ Len(o[b].body[k].idx) > 0
             /\ Len(o[b].body[k].types) = Len(o[b].body[k].idx)
  <2>1. b \in 1 .. n /\ k \in DOMAIN source[b].body /\ o[b].body[k] = source[b].body[k]
        /\ source[b].body[k].op = "gep"
    BY <1>2, <1>5, <1>6, <1>8 DEF IsGep
  <2> DEFINE g == source[b].body[k]
  <2>2. g.home = <<b, k>> /\ g.idx # << >> /\ Len(g.types) = Len(g.idx)
    BY <1>1, <2>1 DEF IsFunction
  <2>3. g \in Geps
    <3>1. g \in Loads \cup Geps
      BY <1>2, <2>1, ElementOfSeq
    <3> QED BY <2>1, <3>1 DEF Loads
  <2>4. g.idx \in Seq(Operands)
    BY <2>3 DEF Geps
  <2> HIDE DEF g
  <2>5. Len(g.idx) > 0
    BY <2>2, <2>4, LenProperties, EmptySeq
  <2> QED BY <2>1, <2>2, <2>5 DEF g
<1>9. Distinct(o) /\ Indexed(o)
  <2>1. Indexed(o)
    BY <1>8 DEF Indexed
  <2>2. Distinct(o)
    BY <1>8 DEF Distinct
  <2> QED BY <2>1, <2>2
<1> QED BY <1>4, <1>5, <1>6, <1>7, <1>9 DEF o

LEMMA InitInv == Init => InsInv
<1> SUFFICES ASSUME Init PROVE InsInv
  OBVIOUS
<1>1. source \in Programs /\ code = Original
  BY DEF Init, Original
<1>2. /\ Structured(code) /\ Distinct(code) /\ Indexed(code)
      /\ Len(code) = Len(source)
      /\ \A b \in 1 .. Len(source) : code[b].term.op = "goto"
  BY <1>1, OriginalParts
<1>3. CodeInv
  BY <1>1, <1>2 DEF Init, CodeInv
<1>4. VisitedInv /\ ReportInv
  BY <1>1 DEF Init, VisitedInv, ReportInv
<1>5. AtInv
  <2>1. 1 \in 1 .. Len(code)
    BY <1>1, <1>2, SourceParts
  <2>2. Len(code[1].body) \in Nat
    BY <1>2, <2>1, BlockParts DEF Structured
  <2>3. 1 \in 1 .. Len(code[1].body) + 1
    BY <2>2
  <2>4. at = <<1, 1>> /\ at[1] = 1 /\ at[2] = 1
    BY DEF Init
  <2> QED BY <2>1, <2>3, <2>4 DEF Init, AtInv, Body
<1> QED BY <1>3, <1>4, <1>5 DEF InsInv

LEMMA SplitStep == InsInv /\ Split => InsInv'
<1> SUFFICES ASSUME InsInv, Split PROVE InsInv'
  OBVIOUS
<1>0. CodeInv /\ ReportInv /\ AtInv /\ stage = "split"
  BY DEF InsInv, Split
<1>1. PICK p \in ToSplit(code) : code' = SplitAt(code, p[1], p[2])
  BY DEF Split
<1> DEFINE b == p[1]
           k == p[2]
<1>2. code \in Seq(CodeBlocks) /\ Len(code) = Len(source)
      /\ \A q \in 1 .. Len(code) : code[q].term.op = "goto"
  BY <1>0 DEF CodeInv, Structured
<1>3. IsGep(code, b, k) /\ ~IsSimple(code[b].body[k])
  <2>1. /\ p \in Places(code) /\ code[b].body[k].op = "gep" /\ ~IsSimple(code[b].body[k])
    BY DEF ToSplit
  <2>2. b \in DOMAIN code /\ k \in DOMAIN code[b].body
    BY <2>1 DEF Places
  <2>3. b \in 1 .. Len(code)
    BY <1>2, <2>2, LenProperties
  <2>4. DOMAIN code[b].body = 1 .. Len(code[b].body)
    BY <1>2, <2>3, BlockParts
  <2> QED BY <2>1, <2>2, <2>3, <2>4 DEF IsGep
<1>4. /\ Distinct(code') /\ Indexed(code')
      /\ SplitIn(code, b, k, SplitGep(code[b].body[k]), code')
      /\ Len(code'[b].body) > Len(code[b].body)
  BY <1>0, <1>1, <1>2, <1>3, SplitKeepsGeps DEF CodeInv
<1> HIDE DEF b, k
<1>5. /\ code' \in Seq(CodeBlocks) /\ Len(code') = Len(code) /\ b \in 1 .. Len(code)
      /\ \A q \in 1 .. Len(code) : /\ q # b => code'[q] = code[q]
                                   /\ code'[q].term = code[q].term
  BY <1>3, <1>4 DEF SplitIn, IsGep
<1>6. stage' = stage /\ geps' = geps /\ modified' = TRUE /\ source' = source
      /\ at' = at /\ val' = val /\ outcome' = outcome
  BY DEF Split, runVars
<1>7. Structured(code)'
  <2>1. ASSUME NEW q \in 1 .. Len(code)
        PROVE  /\ code'[q].term.op = "goto" /\ ~IsBr(code', q) /\ ~IsExit(code', q)
               /\ code'[q].term.succ \subseteq 1 .. Len(source)
    BY <1>0, <1>2, <1>5, <2>1 DEF CodeInv, Structured, IsBr, IsExit
  <2>2. Len(code') >= Len(source)
    BY <1>0, <1>2, <1>5, SourceParts DEF CodeInv
  <2> QED BY <1>5, <1>6, <2>1, <2>2 DEF Structured
<1>8. CodeInv'
  BY <1>0, <1>2, <1>4, <1>5, <1>6, <1>7 DEF CodeInv
<1>9. VisitedInv'
  BY <1>0, <1>6 DEF VisitedInv
<1>10. ReportInv'
  <2>1. Len(code[b].body) = Len(source[b].body) \/ modified
    BY <1>0, <1>2, <1>5, OriginalParts DEF ReportInv, CodeInv
  <2>2. CASE ~modified
    BY <1>2, <1>4, <1>5, <1>6, <2>1, <2>2 DEF ReportInv
  <2>3. CASE modified
    <3>1. PICK q \in 1 .. Len(source) : Len(code[q].body) > Len(source[q].body)
      <4>1. ~(Len(code) > Len(source))
        BY <1>0, <1>2, SourceParts DEF CodeInv
      <4> QED BY <1>0, <2>3, <4>1 DEF ReportInv
    <3>2. Len(code'[q].body) >= Len(code[q].body)
      <4>1. Len(code[q].body) \in Nat /\ Len(code'[q].body) \in Nat
        BY <1>2, <1>5, <3>1, BlockParts
      <4> QED BY <1>2, <1>4, <1>5, <3>1, <4>1
    <3>3. /\ Len(code[q].body) \in Nat /\ Len(code'[q].body) \in Nat
          /\ Len(source[q].body) \in Nat
      <4>1. Original \in Seq(CodeBlocks) /\ Len(Original) = Len(source)
            /\ Original[q].body = source[q].body
        BY <1>0, <3>1, OriginalParts DEF CodeInv, Structured
      <4>2. Len(Original[q].body) \in Nat
        BY <4>1, BlockParts
      <4> QED BY <1>2, <1>5, <3>1, <4>1, <4>2, BlockParts
    <3>4. Len(code'[q].body) > Len(source[q].body)
      BY <3>1, <3>2, <3>3, SMTT(30)
    <3> QED BY <1>6, <3>4 DEF ReportInv
  <2> QED BY <2>2, <2>3
<1>11. AtInv'
  <2>1. at = <<1, 1>> /\ at[1] = 1 /\ at[2] = 1 /\ outcome = "running"
    BY <1>0 DEF AtInv
  <2>2. 1 \in 1 .. Len(code') /\ Len(code'[1].body) \in Nat
    <3>1. 1 \in 1 .. Len(code')
      BY <1>0, <1>5, <2>1 DEF AtInv
    <3> QED BY <1>5, <3>1, BlockParts
  <2>3. 1 \in 1 .. Len(code'[1].body) + 1
    BY <2>2
  <2> QED BY <1>0, <1>6, <2>1, <2>2, <2>3 DEF AtInv, Body
<1> QED BY <1>8, <1>9, <1>10, <1>11 DEF InsInv

LEMMA CollectStep == InsInv /\ Collect => InsInv'
<1> SUFFICES ASSUME InsInv, Collect PROVE InsInv'
  OBVIOUS
<1>1. /\ source' = source /\ code' = code /\ modified' = modified
      /\ at' = at /\ val' = val /\ outcome' = outcome
      /\ stage = "split" /\ stage' = "insert" /\ geps' = GepsOf(code)
  BY DEF Collect, runVars
<1>2. CodeInv'
  BY <1>1 DEF InsInv, CodeInv, Structured
<1>3. VisitedInv'
  BY <1>1 DEF VisitedInv
<1>4. ReportInv'
  BY <1>1 DEF InsInv, ReportInv, Original
<1>5. AtInv'
  BY <1>1 DEF InsInv, AtInv, Body
<1> QED BY <1>2, <1>3, <1>4, <1>5 DEF InsInv

LEMMA VisitStep == ASSUME NEW g \in geps PROVE InsInv /\ Visit(g) => InsInv'
<1> SUFFICES ASSUME InsInv, Visit(g) PROVE InsInv'
  OBVIOUS
<1>1. /\ source' = source /\ stage' = stage /\ stage = "insert" /\ geps' = geps \ {g}
      /\ at' = at /\ val' = val /\ outcome' = outcome
  BY DEF Visit, runVars
<1>2. CodeInv /\ VisitedInv /\ ReportInv /\ AtInv
  BY DEF InsInv
<1>3. CASE Upper(g) = {}
  <2>1. code' = code /\ modified' = modified
    BY <1>3 DEF Visit
  <2>2. Guarded(code, g)
    BY <1>3 DEF Guarded
  <2>3. CodeInv'
    BY <1>1, <1>2, <2>1 DEF CodeInv, Structured
  <2>4. VisitedInv'
    BY <1>1, <1>2, <2>1, <2>2 DEF VisitedInv
  <2>5. ReportInv'
    BY <1>1, <1>2, <2>1 DEF ReportInv, Original
  <2>6. AtInv'
    BY <1>1, <1>2, <2>1 DEF AtInv, Body
  <2> QED BY <2>3, <2>4, <2>5, <2>6 DEF InsInv
<1>4. CASE Upper(g) # {}
  <2>0. PICK u \in Upper(g), b \in DOMAIN code : \E k \in DOMAIN code[b].body :
          code[b].body[k] = g /\ code' = InsertBoundCheck(code, b, k, g, Const(0), u)
    BY <1>4 DEF Visit
  <2>1. PICK k \in DOMAIN code[b].body :
          code[b].body[k] = g /\ code' = InsertBoundCheck(code, b, k, g, Const(0), u)
    BY <2>0
  <2>2. modified' = TRUE
    BY <1>4 DEF Visit
  <2>3. code \in Seq(CodeBlocks) /\ Len(code) \in Nat /\ Len(source) \in Nat
        /\ Len(code) >= Len(source)
    BY <1>2, SourceParts, LenProperties DEF CodeInv, Structured
  <2>4. g.op = "gep"
    BY <1>2 DEF CodeInv, GepsOf
  <2>5. IsGep(code, b, k)
    <3>1. b \in 1 .. Len(code)
      BY <2>1, <2>3, LenProperties
    <3>2. k \in 1 .. Len(code[b].body)
      BY <2>1, <2>3, <3>1, BlockParts
    <3> QED BY <2>1, <2>4, <3>1, <3>2 DEF IsGep
  <2>6. /\ Structured(code') /\ Distinct(code') /\ Indexed(code')
        /\ GepsOf(code') = GepsOf(code) /\ Len(code') > Len(code)
        /\ \A h : h # g /\ Guarded(code, h) => Guarded(code', h)
    <3>1. source \in Programs /\ Structured(code) /\ Distinct(code) /\ Indexed(code)
      BY <1>2 DEF CodeInv
    <3>2. u \in Upper(code[b].body[k])
      BY <2>1
    <3>3. LET d == InsertBoundCheck(code, b, k, code[b].body[k], Const(0), u)
          IN  /\ Structured(d) /\ Distinct(d) /\ Indexed(d)
              /\ GepsOf(d) = GepsOf(code) /\ Len(d) > Len(code)
              /\ \A h : h # code[b].body[k] /\ Guarded(code, h) => Guarded(d, h)
      BY <2>5, <3>1, <3>2, CheckKeeps
    <3> QED BY <2>1, <3>3
  <2>7. Guarded(code', g)
    <3>1. \E x, b1, b0 : Guard(code', g, u, x, b1, b0)
      BY <1>2, <2>1, <2>3, <2>5, CheckGuards DEF CodeInv
    <3>2. \A v \in Upper(g) : v = u
      <4>1. g \in Geps /\ g.types[1] \in Types
        BY <1>2, <2>1, <2>3, <2>5, GepParts DEF CodeInv
      <4> QED BY <2>1, <4>1, UpperParts
    <3> QED BY <3>1, <3>2 DEF Guarded
  <2>8. Structured(code)'
    BY <1>1, <2>6 DEF Structured
  <2>9. CodeInv'
    BY <1>1, <1>2, <2>6, <2>8 DEF CodeInv
  <2>10. VisitedInv'
    BY <1>1, <1>2, <2>6, <2>7 DEF VisitedInv
  <2>11. ReportInv'
    <3>1. Len(code') \in Nat
      BY <2>8, LenProperties DEF Structured
    <3>2. Len(code') > Len(source)
      BY <2>3, <2>6, <3>1
    <3> QED BY <1>1, <2>2, <3>2 DEF ReportInv
  <2>12. AtInv'
    <3>1. at = <<1, 1>> /\ at[1] = 1 /\ at[2] = 1 /\ outcome = "running"
      BY <1>1, <1>2 DEF AtInv
    <3>2. code' \in Seq(CodeBlocks) /\ 1 \in 1 .. Len(code')
      <4>1. Len(code') \in Nat /\ 1 \in 1 .. Len(code)
        BY <1>2, <2>8, <3>1, LenProperties DEF Structured, AtInv
      <4> QED BY <2>3, <2>6, <2>8, <4>1 DEF Structured
    <3>3. Len(code'[1].body) \in Nat
      BY <3>2, BlockParts
    <3>4. 1 \in 1 .. Len(code'[1].body) + 1
      BY <3>3
    <3> QED BY <1>1, <1>2, <3>1, <3>2, <3>4 DEF AtInv, Body
  <2> QED BY <2>9, <2>10, <2>11, <2>12 DEF InsInv
<1> QED BY <1>3, <1>4

LEMMA InsertedStep == InsInv /\ Inserted => InsInv'
<1> SUFFICES ASSUME InsInv, Inserted PROVE InsInv'
  OBVIOUS
<1>1. /\ source' = source /\ code' = code /\ modified' = modified /\ geps' = geps
      /\ at' = at /\ val' = val /\ outcome' = outcome
      /\ stage = "insert" /\ stage' = "run" /\ geps = {}
  BY DEF Inserted, runVars
<1>2. CodeInv' /\ ReportInv'
  BY <1>1, SMTT(30) DEF InsInv, CodeInv, ReportInv, Structured, Original
<1>3. VisitedInv' /\ AtInv'
  BY <1>1 DEF InsInv, VisitedInv, AtInv, Body
<1> QED BY <1>2, <1>3 DEF InsInv

LEMMA PassUnchanged ==
  ASSUME CodeInv, VisitedInv, ReportInv, UNCHANGED passVars
  PROVE  CodeInv' /\ VisitedInv' /\ ReportInv'
<1>1. /\ source' = source /\ code' = code /\ modified' = modified /\ geps' = geps
      /\ stage' = stage
  BY DEF passVars
<1> QED BY <1>1 DEF CodeInv, VisitedInv, ReportInv, Structured, Original

LEMMA BodyParts ==
  ASSUME InsInv
  PROVE  /\ code \in Seq(CodeBlocks) /\ Body \in Seq(Parts) /\ Len(Body) \in Nat
         /\ Term = code[at[1]].term /\ Body = code[at[1]].body
         /\ at[1] \in 1 .. Len(code) /\ at[2] \in Int /\ at[2] >= 1
<1>1. code \in Seq(CodeBlocks) /\ at[1] \in 1 .. Len(code) /\ at[2] \in 1 .. Len(Body) + 1
  BY DEF InsInv, CodeInv, Structured, AtInv
<1>2. Body \in Seq(Parts) /\ Len(Body) \in Nat
  BY <1>1, BlockParts DEF Body
<1> QED BY <1>1, <1>2 DEF Body, Term

LEMMA ExecuteStep == InsInv /\ Execute => InsInv'
<1> SUFFICES ASSUME InsInv, Execute PROVE InsInv'
  OBVIOUS
<1>1. stage = "run" /\ stage' = stage /\ code' = code /\ at' = <<at[1], at[2] + 1>>
      /\ at[2] <= Len(Body)
  BY DEF Execute, Running, passVars
<1>2. CodeInv' /\ VisitedInv' /\ ReportInv'
  BY PassUnchanged DEF InsInv, Execute
<1>3. val' \in [Vars -> Ints]
  <2>1. \/ UNCHANGED val
        \/ \E n \in Ints : val' = [val EXCEPT ![Body[at[2]].var] = n]
    BY DEF Execute
  <2> QED BY <2>1 DEF InsInv, AtInv
<1>4. outcome' \in {"running", "returned", "exited"}
  BY DEF Execute, InsInv, AtInv
<1>5. at[2] + 1 \in 1 .. Len(Body) + 1
  BY <1>1, BodyParts
<1>6. at'[1] = at[1] /\ at'[2] = at[2] + 1 /\ at' = <<at'[1], at'[2]>>
  BY <1>1
<1>7. AtInv'
  BY <1>1, <1>3, <1>4, <1>5, <1>6, BodyParts DEF AtInv, Body
<1> QED BY <1>2, <1>7 DEF InsInv

LEMMA BlockStart ==
  ASSUME InsInv, stage' = "run", UNCHANGED <<passVars, val, outcome>>,
         NEW b \in 1 .. Len(code), at' = <<b, 1>>
  PROVE  InsInv'
<1>1. code' = code /\ val' = val /\ outcome' = outcome
  BY DEF passVars
<1>2. CodeInv' /\ VisitedInv' /\ ReportInv'
  BY PassUnchanged DEF InsInv
<1>3. Len(code[b].body) \in Nat
  BY BodyParts, BlockParts
<1>4. 1 \in 1 .. Len(code[b].body) + 1 /\ at'[1] = b /\ at'[2] = 1
  BY <1>3
<1>5. AtInv'
  BY <1>1, <1>4 DEF InsInv, AtInv, Body
<1> QED BY <1>2, <1>5 DEF InsInv

\* Where a check and a goto lead.
LEMMA CheckTargets ==
  ASSUME InsInv, Term.op = "br"
  PROVE  /\ IsBr(code, at[1]) /\ Term.T \in 1 .. Len(code) /\ Term.F \in 1 .. Len(code)
         /\ Term.T # Term.F /\ IsExit(code, Term.F)
<1>1. source \in Programs /\ Structured(code) /\ at[1] \in 1 .. Len(code)
      /\ IsBr(code, at[1])
  BY BodyParts DEF InsInv, CodeInv, IsBr
<1>2. {Term.T, Term.F} \subseteq Len(source) + 1 .. Len(code) /\ Term.T # Term.F
      /\ IsExit(code, Term.F)
  BY <1>1, BranchParts DEF Term
<1>3. Len(source) + 1 .. Len(code) \subseteq 1 .. Len(code)
  BY <1>1, SourceParts
<1> QED BY <1>1, <1>2, <1>3

LEMMA GotoTargets ==
  ASSUME InsInv, Term.op = "goto", NEW b \in Term.succ
  PROVE  b \in 1 .. Len(source) /\ b \in 1 .. Len(code)
<1>1. source \in Programs /\ Structured(code) /\ at[1] \in 1 .. Len(code)
  BY BodyParts DEF InsInv, CodeInv
<1>2. b \in 1 .. Len(source)
  BY <1>1 DEF Structured, Term
<1>3. Len(source) \in Nat /\ Len(code) \in Nat /\ Len(source) <= Len(code)
  BY <1>1, SourceParts, LenProperties DEF Structured
<1> QED BY <1>2, <1>3

LEMMA TakeCheckStep == InsInv /\ TakeCheck => InsInv'
<1> SUFFICES ASSUME InsInv, TakeCheck PROVE InsInv'
  OBVIOUS
<1>1. Term.op = "br" /\ stage' = "run" /\ UNCHANGED <<passVars, val, outcome>>
  BY DEF TakeCheck, AtTerm, Running, passVars
<1>2. at' = <<Term.T, 1>> \/ at' = <<Term.F, 1>>
  BY DEF TakeCheck
<1> QED BY <1>1, <1>2, CheckTargets, BlockStart

LEMMA TakeGotoStep == InsInv /\ TakeGoto => InsInv'
<1> SUFFICES ASSUME InsInv, TakeGoto PROVE InsInv'
  OBVIOUS
<1>1. Term.op = "goto" /\ stage' = "run" /\ stage = "run" /\ UNCHANGED <<passVars, val>>
  BY DEF TakeGoto, AtTerm, Running, passVars
<1>2. CASE Term.succ = {}
  <2>1. outcome' = "returned" /\ at' = at /\ code' = code /\ val' = val
    BY <1>1, <1>2 DEF TakeGoto, passVars
  <2>2. AtInv'
    BY <1>1, <2>1 DEF InsInv, AtInv, Body
  <2> QED BY <1>1, <2>2, PassUnchanged DEF InsInv
<1>3. CASE Term.succ # {}
  <2>1. PICK b \in Term.succ : at' = <<b, 1>> /\ outcome' = outcome
    BY <1>3 DEF TakeGoto
  <2> QED BY <1>1, <2>1, GotoTargets, BlockStart
<1> QED BY <1>2, <1>3

LEMMA InsInvStep == InsInv /\ [Next]_vars => InsInv'
<1> SUFFICES ASSUME InsInv, [Next]_vars PROVE InsInv'
  OBVIOUS
<1>1. CASE Split BY <1>1, SplitStep
<1>2. CASE Collect BY <1>2, CollectStep
<1>3. CASE \E g \in geps : Visit(g) BY <1>3, VisitStep
<1>4. CASE Inserted BY <1>4, InsertedStep
<1>5. CASE Execute BY <1>5, ExecuteStep
<1>6. CASE TakeCheck BY <1>6, TakeCheckStep
<1>7. CASE TakeGoto BY <1>7, TakeGotoStep
<1>8. CASE UNCHANGED vars
  <2>1. UNCHANGED passVars /\ at' = at /\ val' = val /\ outcome' = outcome
        /\ code' = code /\ stage' = stage
    BY <1>8 DEF vars, passVars, runVars
  <2>2. AtInv'
    BY <2>1 DEF InsInv, AtInv, Body
  <2> QED BY <2>1, <2>2, PassUnchanged DEF InsInv
<1> QED BY <1>1, <1>2, <1>3, <1>4, <1>5, <1>6, <1>7, <1>8 DEF Next

THEOREM InsInvHolds == Spec => []InsInv
<1>1. Init => InsInv
  BY InitInv
<1>2. InsInv /\ [Next]_vars => InsInv'
  BY InsInvStep
<1> QED BY <1>1, <1>2, PTL DEF Spec

\* Every state has its type: the geps still to be visited are in the code, and
\* the run is at an instruction or an end of a block of it
\* (AbcInserter.cpp:14-158).
THEOREM InserterTypes == Spec => []InsTypeOK
<1>1. InsInv => InsTypeOK
  <2> SUFFICES ASSUME InsInv PROVE InsTypeOK
    OBVIOUS
  <2>1. at[1] \in DOMAIN code
    BY BodyParts, LenProperties
  <2> QED BY <2>1, BodyParts DEF InsInv, CodeInv, ReportInv, AtInv, InsTypeOK
<1> QED BY <1>1, InsInvHolds, PTL

\* The checks stay as the removal pass expects them, however many are put into
\* one block and in whatever order (AbcRemover.cpp:206-208).
THEOREM ChecksAreRecognised == Spec => []ChecksRecognised
<1>1. InsInv => ChecksRecognised
  <2> SUFFICES ASSUME InsInv, NEW b \in DOMAIN code, code[b].term.op = "br"
               PROVE  LET F == code[b].term.F
                      IN  /\ code[F].term.op = "unreachable"
                          /\ Last(code[F].body).op = "exit"
                          /\ Last(code[b].body).op = "icmp"
                          /\ \A q \in DOMAIN code \ {b} :
                               code[q].term.op = "br" =>
                                 F \notin {code[q].term.T, code[q].term.F}
    BY DEF ChecksRecognised
  <2> DEFINE F == code[b].term.F
  <2>1. source \in Programs /\ Structured(code) /\ code \in Seq(CodeBlocks)
        /\ DOMAIN code = 1 .. Len(code)
    BY LenProperties DEF InsInv, CodeInv, Structured
  <2>2. IsBr(code, b) /\ b \in 1 .. Len(code)
    BY <2>1 DEF IsBr
  <2>3. /\ F \in 1 .. Len(code) /\ IsExit(code, F) /\ Last(code[b].body).op = "icmp"
    BY <2>1, <2>2, BranchParts DEF Last
  <2> HIDE DEF F
  <2>4. Last(code[F].body).op = "exit"
    <3>1. Len(code[F].body) > 0 /\ \A k \in 1 .. Len(code[F].body) : code[F].body[k].op = "exit"
      BY <2>1, <2>3 DEF Structured
    <3>2. Len(code[F].body) \in Nat
      BY <2>1, <2>3, BlockParts
    <3>3. Len(code[F].body) \in 1 .. Len(code[F].body)
      BY <3>1, <3>2
    <3> QED BY <3>1, <3>3 DEF Last
  <2>5. \A q \in DOMAIN code \ {b} :
          code[q].term.op = "br" => F \notin {code[q].term.T, code[q].term.F}
    BY <2>1, <2>2 DEF Structured, IsBr, F
  <2> QED BY <2>3, <2>4, <2>5 DEF F, IsExit
<1> QED BY <1>1, InsInvHolds, PTL

\* run() returns true iff the function is another one (AbcInserter.cpp:16, 34).
THEOREM ChangeIsReported == Spec => []ChangeReported
<1>1. InsInv => ChangeReported
  <2> SUFFICES ASSUME InsInv PROVE modified = (code # Original)
    BY DEF ChangeReported, Original
  <2>1. source \in Programs /\ ReportInv
    BY DEF InsInv, CodeInv
  <2>2. ASSUME modified PROVE code # Original
    <3> SUFFICES ASSUME code = Original PROVE FALSE
      OBVIOUS
    <3>1. /\ Len(code) = Len(source) /\ Len(source) \in Nat
          /\ \A b \in 1 .. Len(source) : code[b].body = source[b].body
      BY <2>1, OriginalParts, SourceParts
    <3>2. \A b \in 1 .. Len(source) : Len(code[b].body) \in Nat
      BY <3>1, BlockParts, BodyParts
    <3>3. ~(Len(code) > Len(source))
      BY <3>1
    <3>4. PICK b \in 1 .. Len(source) : Len(code[b].body) > Len(source[b].body)
      BY <2>1, <2>2, <3>3 DEF ReportInv
    <3>5. Len(code[b].body) = Len(source[b].body) /\ Len(code[b].body) \in Nat
      BY <3>1, <3>2
    <3> QED BY <3>4, <3>5
  <2> QED BY <2>1, <2>2 DEF ReportInv
<1> QED BY <1>1, InsInvHolds, PTL

(***************************************************************************)
(* What the run knows: it came into a block of a check by the branch, so   *)
(* the comparison held, and still does where nothing was read since.       *)
(***************************************************************************)
LeadsTo(b1, b) == b1 \in 1 .. Len(code) /\ IsBr(code, b1) /\ code[b1].term.T = b

Entered(b) == \A b1 : LeadsTo(b1, b) => Evaluates(Last(code[b1].body))

\* A block with a comparison only, which the check of an upper bound is.
Lone(b) == Len(code[b].body) = 1 /\ code[b].body[1].op = "icmp"

RunInv ==
  Running =>
    /\ at[2] = 1 => /\ Entered(at[1])
                    /\ \A b1 : LeadsTo(b1, at[1]) /\ Lone(b1) => Entered(b1)
    /\ Lone(at[1]) => Entered(at[1])

\* Only one comparison leads to a block, none to a block of the source or to an
\* exit of a check.
LEMMA OneWayIn ==
  ASSUME InsInv, NEW b, NEW b1, LeadsTo(b1, b)
  PROVE  /\ b \notin 1 .. Len(source)
         /\ \A b2 : LeadsTo(b2, b) => b2 = b1
         /\ \A b2 \in 1 .. Len(code) : IsBr(code, b2) => b # code[b2].term.F
<1>1. source \in Programs /\ Structured(code) /\ Len(source) \in Nat /\ Len(code) \in Nat
  BY SourceParts, BodyParts, LenProperties DEF InsInv, CodeInv
<1>2. b1 \in 1 .. Len(code) /\ IsBr(code, b1) /\ code[b1].term.T = b
  BY DEF LeadsTo
<1>3. b \in Len(source) + 1 .. Len(code)
  BY <1>1, <1>2, BranchParts
<1>4. b \notin 1 .. Len(source)
  BY <1>1, <1>3
<1>5. ASSUME NEW b2, LeadsTo(b2, b) PROVE b2 = b1
  BY <1>1, <1>2, <1>5 DEF LeadsTo, Structured
<1>6. ASSUME NEW b2 \in 1 .. Len(code), IsBr(code, b2) PROVE b # code[b2].term.F
  <2>1. CASE b2 = b1
    BY <1>1, <1>2, <2>1, BranchParts
  <2>2. CASE b2 # b1
    BY <1>1, <1>2, <1>6, <2>2 DEF Structured
  <2> QED BY <2>1, <2>2
<1> QED BY <1>4, <1>5, <1>6

\* A step that leaves the code and the values alone keeps what is known of a
\* block.
LEMMA EnteredKept ==
  ASSUME UNCHANGED <<passVars, val>>
  PROVE  /\ \A b, b1 : LeadsTo(b1, b)' <=> LeadsTo(b1, b)
         /\ \A b : Entered(b)' <=> Entered(b)
         /\ \A b : Lone(b)' <=> Lone(b)
<1>1. code' = code /\ val' = val
  BY DEF passVars
<1> QED BY <1>1 DEF LeadsTo, Entered, Lone, Evaluates

LEMMA RunInvExecute == InsInv /\ RunInv /\ Execute => RunInv'
<1> SUFFICES ASSUME InsInv, RunInv, Execute, Running' PROVE RunInv'
  BY DEF RunInv
<1>1. /\ Running /\ UNCHANGED passVars /\ code' = code /\ at' = <<at[1], at[2] + 1>>
      /\ at[2] <= Len(Body)
  BY DEF Execute, passVars
<1>2. at'[1] = at[1] /\ at'[2] = at[2] + 1 /\ at'[2] # 1
  BY <1>1, BodyParts
<1>3. ASSUME Lone(at[1])' PROVE Entered(at[1])'
  <2>1. Lone(at[1])
    BY <1>1, <1>2, <1>3 DEF Lone
  <2>2. at[2] = 1 /\ Body[at[2]].op = "icmp"
    <3>1. Body = code[at[1]].body /\ Len(Body) = 1 /\ Body[1].op = "icmp"
      BY <2>1, BodyParts DEF Lone
    <3>2. at[2] \in Int /\ at[2] >= 1 /\ at[2] <= 1
      BY <1>1, <3>1, BodyParts
    <3>3. at[2] = 1
      BY <3>2
    <3> QED BY <3>1, <3>3
  <2>3. UNCHANGED val
    BY <2>2 DEF Execute
  <2>4. Entered(at[1])
    BY <1>1, <2>1 DEF RunInv
  <2> QED BY <1>1, <1>2, <2>3, <2>4 DEF Entered, LeadsTo, Evaluates
<1> QED BY <1>2, <1>3 DEF RunInv

LEMMA RunInvCheck == InsInv /\ RunInv /\ TakeCheck => RunInv'
<1> SUFFICES ASSUME InsInv, RunInv, TakeCheck PROVE RunInv'
  OBVIOUS
<1>1. /\ Running /\ Term.op = "br" /\ UNCHANGED <<passVars, val>>
      /\ at' = <<IF Evaluates(Last(Body)) THEN Term.T ELSE Term.F, 1>>
  BY DEF TakeCheck, AtTerm, Running
<1>2. LeadsTo(at[1], Term.T)
  BY <1>1, CheckTargets, BodyParts DEF LeadsTo
<1>3. CASE Evaluates(Last(Body))
  <2>1. at'[1] = Term.T
    BY <1>1, <1>3
  <2>2. Entered(Term.T)
    BY <1>2, <1>3, OneWayIn, BodyParts DEF Entered
  <2>3. ASSUME NEW b1, LeadsTo(b1, Term.T), Lone(b1) PROVE Entered(b1)
    <3>1. b1 = at[1]
      BY <1>2, <2>3, OneWayIn
    <3> QED BY <1>1, <2>3, <3>1 DEF RunInv
  <2> QED BY <1>1, <2>1, <2>2, <2>3, EnteredKept DEF RunInv
<1>4. CASE ~Evaluates(Last(Body))
  <2>1. at'[1] = Term.F
    BY <1>1, <1>4
  <2>2. \A b1 : ~LeadsTo(b1, Term.F)
    BY <1>1, CheckTargets, OneWayIn, BodyParts
  <2> QED BY <1>1, <2>1, <2>2, EnteredKept DEF RunInv, Entered
<1> QED BY <1>3, <1>4

LEMMA RunInvGoto == InsInv /\ RunInv /\ TakeGoto => RunInv'
<1> SUFFICES ASSUME InsInv, RunInv, TakeGoto, Running' PROVE RunInv'
  BY DEF RunInv
<1>1. Term.op = "goto" /\ UNCHANGED <<passVars, val>>
  BY DEF TakeGoto, AtTerm, Running
<1>2. Term.succ # {}
  BY DEF TakeGoto, Running
<1>3. PICK b \in Term.succ : at' = <<b, 1>>
  BY <1>2 DEF TakeGoto
<1>4. \A b1 : ~LeadsTo(b1, b)
  BY <1>1, GotoTargets, OneWayIn
<1>5. at'[1] = b
  BY <1>3
<1> QED BY <1>1, <1>4, <1>5, EnteredKept DEF RunInv, Entered

LEMMA RunInvHolds == Spec => []RunInv
<1>1. Init => RunInv
  BY DEF Init, RunInv, Running
<1>2. InsInv /\ InsInv' /\ RunInv /\ [Next]_vars => RunInv'
  <2> SUFFICES ASSUME InsInv, InsInv', RunInv, [Next]_vars PROVE RunInv'
    OBVIOUS
  <2>1. CASE Split
    BY <2>1 DEF Split, RunInv, Running, runVars
  <2>2. CASE Collect
    BY <2>2 DEF Collect, RunInv, Running, runVars
  <2>3. CASE \E g \in geps : Visit(g)
    BY <2>3 DEF Visit, RunInv, Running, runVars
  <2>4. CASE Inserted
    <3>1. at = <<1, 1>> /\ UNCHANGED <<source, code, runVars>>
      BY <2>4 DEF Inserted, InsInv, AtInv
    <3>2. 1 \in 1 .. Len(source)
      BY SourceParts DEF InsInv, CodeInv
    <3>3. \A b1 : ~LeadsTo(b1, 1)
      BY <3>2, OneWayIn
    <3>4. at' = <<1, 1>> /\ at'[1] = 1 /\ code' = code
      BY <3>1 DEF runVars
    <3>5. \A b1 : ~LeadsTo(b1, 1)'
      BY <3>3, <3>4 DEF LeadsTo
    <3>6. Entered(1)'
      BY <3>5 DEF Entered
    <3> QED BY <3>4, <3>5, <3>6 DEF RunInv
  <2>5. CASE Execute BY <2>5, RunInvExecute
  <2>6. CASE TakeCheck BY <2>6, RunInvCheck
  <2>7. CASE TakeGoto BY <2>7, RunInvGoto
  <2>8. CASE UNCHANGED vars
    BY <2>8 DEF vars, passVars, runVars, RunInv, Running, Entered, Lone, LeadsTo, Evaluates
  <2> QED BY <2>1, <2>2, <2>3, <2>4, <2>5, <2>6, <2>7, <2>8 DEF Next
<1> QED BY <1>1, <1>2, InsInvHolds, PTL DEF Spec

(***************************************************************************)
(* The result: the geps keep the guards they were given, so whoever reaches*)
(* one has passed both comparisons with the values it has now.             *)
(***************************************************************************)

LEMMA AccessGuarded == InsInv /\ RunInv => AccessesChecked
<1> SUFFICES ASSUME InsInv, RunInv, Running, at[2] <= Len(Body), Body[at[2]].op = "gep",
                    NEW u \in Upper(Body[at[2]])
             PROVE  LET i == EvalIn(val, Last(Body[at[2]].idx))
                    IN  0 <= i /\ i < EvalIn(val, u)
  BY DEF AccessesChecked
<1> DEFINE g == Body[at[2]]
           v == Last(g.idx)
<1>1. IsGep(code, at[1], at[2]) /\ code[at[1]].body[at[2]] = g
  BY BodyParts DEF IsGep
<1>2. g \in GepsOf(code)
  BY <1>1, BodyParts, GepsHere
<1>3. Guarded(code, g)
  BY <1>2 DEF InsInv, CodeInv, VisitedInv, Running
<1>4. PICK b, b1, b0 : Guard(code, g, u, b, b1, b0)
  BY <1>3 DEF Guarded
<1> HIDE DEF g
<1>5. <<at[1], at[2]>> = <<b, 1>>
  <2>1. IsGep(code, b, 1) /\ code[b].body[1] = g
    BY <1>4 DEF Guard
  <2>2. Distinct(code)
    BY DEF InsInv, CodeInv
  <2> QED BY <1>1, <2>1, <2>2 DEF Distinct
<1>6. at[2] = 1 /\ at[1] = b
  BY <1>5
<1>7. LeadsTo(b1, b) /\ LeadsTo(b0, b1)
  BY <1>4 DEF Guard, LeadsTo
<1>8. /\ Last(code[b1].body) = Cmp(g.home, "SLT", v, u)
      /\ Last(code[b0].body) = Cmp(g.home, "SLE", Const(0), v)
      /\ Lone(b1)
  BY <1>4 DEF Guard, Last, Lone, Cmp
<1>9. Evaluates(Last(code[b1].body)) /\ Evaluates(Last(code[b0].body))
  BY <1>6, <1>7, <1>8 DEF RunInv, Entered
<1>10. EvalIn(val, v) < EvalIn(val, u)
  BY <1>8, <1>9 DEF Evaluates, Cmp
<1>11. EvalIn(val, Const(0)) = 0
  BY DEF EvalIn, Const, IsConst
<1>12. 0 <= EvalIn(val, v)
  BY <1>8, <1>9, <1>11 DEF Evaluates, Cmp
<1> QED BY <1>10, <1>12 DEF g

\* No access is reached with an index outside of the bound found for it, in any
\* function and with any values (AbcInserter.cpp:20-158).
THEOREM AccessesAreChecked == Spec => []AccessesChecked
BY AccessGuarded, InsInvHolds, RunInvHolds, PTL

(***************************************************************************)
(* Where the code came from.  A position of the source is a place in it    *)
(* and, at a gep, the number of one of the geps it is split into.          *)
(***************************************************************************)
Pieces(g) == IF IsSimple(g) THEN <<g>> ELSE SplitGep(g)

SourceItem(s, h) == s[h[1]].body[h[2]]

InSource(s, h) == h[1] \in 1 .. Len(s) /\ h[2] \in 1 .. Len(s[h[1]].body)

SourceGep(s, h) == InSource(s, h) /\ SourceItem(s, h).op = "gep"

Item(c, x, j) == IF j <= Len(c[x].body) THEN c[x].body[j] ELSE c[x].term

\* The place j of block x is at position p, if lab has the numbers.
Has(c, lab, x, j, p) ==
  /\ x \in 1 .. Len(c) /\ j \in 1 .. Len(c[x].body) + 1
  /\ <<Item(c, x, j).home, lab[x][j]>> = p

\* A comparison is one of the two checks of a gep.
CheckOf(g, cmp) ==
  \E u \in Upper(g) : cmp \in {Cmp(g.home, "SLT", Last(g.idx), u),
                               Cmp(g.home, "SLE", Const(0), Last(g.idx))}

\* What t is to the source, at position p.
Stands(s, t, p) ==
  LET g == SourceItem(s, p[1])
  IN  /\ t.op = "load" => InSource(s, p[1]) /\ t = g
      /\ t.op = "gep"  => /\ SourceGep(s, p[1])
                          /\ \/ t = g /\ p[2] = 1
                             \/ ~IsSimple(g) /\ p[2] \in 1 .. Len(SplitGep(g))
                                /\ t = SplitGep(g)[p[2]]
      /\ t.op = "icmp" => /\ SourceGep(s, p[1])
                          /\ p[2] \in 1 .. Len(Pieces(g)) /\ CheckOf(Pieces(g)[p[2]], t)
      /\ t.op = "exit" => SourceGep(s, p[1])
      /\ t.op = "goto" => /\ p[1][1] \in 1 .. Len(s)
                          /\ p[1] = <<p[1][1], Len(s[p[1][1]].body) + 1>>
                          /\ t.succ = s[p[1][1]].succ

\* The position after t.
Following(s, t, p) ==
  LET g == SourceItem(s, p[1])
      next == <<<<p[1][1], p[1][2] + 1>>, 1>>
  IN  CASE t.op = "load" -> next
        [] t.op = "gep"  -> IF t = g \/ p[2] = Len(SplitGep(g)) THEN next
                            ELSE <<p[1], p[2] + 1>>
        [] OTHER         -> p

\* Place j of block x stands where it should and leads where it should.
Placed(s, c, lab, x, j) ==
  LET t == Item(c, x, j)
      p == <<t.home, lab[x][j]>>
  IN  /\ Stands(s, t, p)
      /\ j <= Len(c[x].body) => Has(c, lab, x, j + 1, Following(s, t, p))
      /\ t.op = "exit" => IsExit(c, x)
      /\ t.op = "br" => Has(c, lab, t.T, 1, p) /\ Has(c, lab, t.F, 1, p) /\ ~IsExit(c, t.T)

Starts(s, c, lab) ==
  \A x \in 1 .. Len(s) : Has(c, lab, x, 1, <<<<x, 1>>, 1>>) /\ ~IsExit(c, x)

Traced(s, c, lab) ==
  /\ lab \in [Nat -> [Nat -> Nat]]
  /\ Starts(s, c, lab)
  /\ \A x \in 1 .. Len(c) : \A j \in 1 .. Len(c[x].body) + 1 : Placed(s, c, lab, x, j)

\* The numbers when a check was put in front of place k of block b.
LabAfter(n, b, k, lab) ==
  [x \in Nat |-> [j \in Nat |->
     IF x = n + 1 \/ (x = b /\ j > k) THEN lab[b][k]
     ELSE IF x = n + 2 THEN lab[b][k + j - 1] ELSE lab[x][j]]]

LabelsIn(n, b, k, lab, l) ==
  /\ l \in [Nat -> [Nat -> Nat]]
  /\ \A j \in Nat : l[n + 1][j] = lab[b][k] /\ (j > k => l[b][j] = lab[b][k])
  /\ \A j \in Nat : l[n + 2][j] = lab[b][k + j - 1]
  /\ \A x \in 1 .. n, j \in Nat : x # b \/ j <= k => l[x][j] = lab[x][j]

LEMMA LabelsAfter ==
  ASSUME NEW n \in Nat, NEW b \in 1 .. n, NEW k \in Nat \ {0}, NEW lab \in [Nat -> [Nat -> Nat]]
  PROVE  LabelsIn(n, b, k, lab, LabAfter(n, b, k, lab))
<1> DEFINE l == LabAfter(n, b, k, lab)
<1>1. \A j \in Nat : k + j - 1 \in Nat
  OBVIOUS
<1>2. \A x \in Nat, j \in Nat : lab[x][j] \in Nat
  OBVIOUS
<1>3. b \in Nat /\ n + 1 \in Nat /\ n + 2 \in Nat /\ n + 1 # n + 2
      /\ \A x \in 1 .. n : x \in Nat /\ x # n + 1 /\ x # n + 2
  OBVIOUS
<1>4. l \in [Nat -> [Nat -> Nat]]
  BY <1>1, <1>2, <1>3 DEF LabAfter
<1>5. ASSUME NEW x \in Nat, NEW j \in Nat
      PROVE  l[x][j] = IF x = n + 1 \/ (x = b /\ j > k) THEN lab[b][k]
                       ELSE IF x = n + 2 THEN lab[b][k + j - 1] ELSE lab[x][j]
  BY DEF LabAfter
<1> HIDE DEF l
<1>6. \A j \in Nat : l[n + 1][j] = lab[b][k] /\ (j > k => l[b][j] = lab[b][k])
  BY <1>3, <1>5
<1>7. \A j \in Nat : l[n + 2][j] = lab[b][k + j - 1]
  <2>1. n + 2 # n + 1 /\ n + 2 # b
    OBVIOUS
  <2> QED BY <1>3, <1>5, <2>1
<1>8. ASSUME NEW x \in 1 .. n, NEW j \in Nat, x # b \/ j <= k PROVE l[x][j] = lab[x][j]
  <2>1. ~(x = b /\ j > k)
    BY <1>8
  <2> QED BY <1>3, <1>5, <2>1
<1> QED BY <1>4, <1>6, <1>7, <1>8 DEF l, LabelsIn

\* The places of the rest of a block are those from k on.
LEMMA RestPlaces ==
  \A m \in Nat : \A k \in 1 .. m : \A j \in 1 .. m - k + 1 + 1 :
    LET e == k + j - 1
    IN  /\ e \in 1 .. m + 1 /\ e >= k /\ e + 1 >= k /\ e - k + 1 = j /\ j \in Nat
        /\ e + 1 - k + 1 = j + 1 /\ (j <= m - k + 1 <=> e <= m)
        /\ j \in 1 .. m - k + 1 + 1
OBVIOUS

\* A check in front of a gep or of a comparison keeps every place at its position.
LEMMA AssertionTraced ==
  ASSUME NEW s, Len(s) \in Nat, NEW c \in Seq(CodeBlocks), Len(s) <= Len(c),
         NEW lab, Traced(s, c, lab),
         NEW b \in 1 .. Len(c), NEW k \in 1 .. Len(c[b].body), ~IsExit(c, b),
         NEW cmp \in Cmps, Stands(s, cmp, <<cmp.home, lab[b][k]>>),
         cmp.home = c[b].body[k].home
  PROVE  Traced(s, InsertAssertion(c, b, k, cmp), LabAfter(Len(c), b, k, lab))
<1> DEFINE d == InsertAssertion(c, b, k, cmp)
           l == LabAfter(Len(c), b, k, lab)
           n == Len(c)
           m == Len(c[b].body)
           i == lab[b][k]
           h == cmp.home
<1>1. /\ n \in Nat /\ m \in Nat /\ k \in Nat \ {0}
      /\ \A x \in 1 .. n : Len(c[x].body) \in Nat
  BY BlockParts
<1>2. AssertionIn(c, b, k, cmp, d)
  BY AssertionParts
<1>3. /\ l \in [Nat -> [Nat -> Nat]]
      /\ \A j \in Nat : l[n + 1][j] = i /\ (j > k => l[b][j] = i)
      /\ \A j \in Nat : l[n + 2][j] = lab[b][k + j - 1]
      /\ \A x \in 1 .. n, j \in Nat : x # b \/ j <= k => l[x][j] = lab[x][j]
  <2>1. lab \in [Nat -> [Nat -> Nat]]
    BY DEF Traced
  <2> HIDE DEF l, i
  <2>2. LabelsIn(n, b, k, lab, LabAfter(n, b, k, lab))
    BY <1>1, <2>1, LabelsAfter
  <2> QED BY <2>2 DEF LabelsIn, l, i
<1> HIDE DEF d, l
<1>4. /\ Len(d) = n + 2 /\ \A x \in 1 .. n : x # b => d[x] = c[x]
      /\ Len(d[b].body) = k /\ d[b].body[k] = cmp
      /\ \A j \in 1 .. k - 1 : d[b].body[j] = c[b].body[j]
      /\ d[b].term = OnCmp(h, n + 2, n + 1)
      /\ d[n + 1] = Block(<<ExitCall(h)>>, Unreachable(h))
      /\ d[n + 2].term = c[b].term /\ Len(d[n + 2].body) = m - k + 1
      /\ \A j \in 1 .. m - k + 1 : d[n + 2].body[j] = c[b].body[k + j - 1]
  BY <1>2 DEF AssertionIn
<1> HIDE DEF n, m, i, h
<1>5. b \in 1 .. n /\ k \in 1 .. m /\ 1 .. n \subseteq 1 .. n + 2
      /\ n + 1 \in 1 .. n + 2 /\ n + 2 \in 1 .. n + 2 /\ b # n + 1 /\ b # n + 2
  BY <1>1 DEF n, m
\* What stands up to the gep is where it was, the check for the gep.
<1>6. ASSUME NEW x \in 1 .. n, NEW j, x = b => j <= k, NEW p, Has(c, lab, x, j, p)
      PROVE  Has(d, l, x, j, p)
  <2>1. j \in 1 .. Len(c[x].body) + 1 /\ <<Item(c, x, j).home, lab[x][j]>> = p /\ j \in Nat
    BY <1>1, <1>6 DEF Has
  <2>2. x \in 1 .. Len(d) /\ l[x][j] = lab[x][j]
    BY <1>3, <1>4, <1>5, <1>6, <2>1
  <2>3. CASE x # b
    <3>1. d[x] = c[x]
      BY <1>4, <2>3
    <3> QED BY <2>1, <2>2, <3>1 DEF Has, Item
  <2>4. CASE x = b
    <3>1. j \in 1 .. k /\ j <= k /\ j <= m /\ k <= k /\ k <= m /\ j \in 1 .. k + 1
      BY <1>1, <1>5, <1>6, <2>1, <2>4
    <3>2. Item(d, b, j).home = Item(c, b, j).home
      <4>1. Item(d, b, j) = d[b].body[j] /\ Item(c, b, j) = c[b].body[j]
        BY <1>4, <3>1 DEF Item, m
      <4>2. CASE j = k
        BY <1>4, <4>1, <4>2 DEF h
      <4>3. CASE j # k
        <5>1. j \in 1 .. k - 1
          BY <1>1, <3>1, <4>3
        <5> QED BY <1>4, <4>1, <5>1
      <4> QED BY <4>2, <4>3
    <3> QED BY <1>4, <2>1, <2>2, <2>4, <3>1, <3>2 DEF Has
  <2> QED BY <2>3, <2>4
\* The rest of the block is behind it.
<1>7. ASSUME NEW j, j >= k, NEW p, Has(c, lab, b, j, p)
      PROVE  Has(d, l, n + 2, j - k + 1, p)
  <2>1. j \in 1 .. m + 1 /\ <<Item(c, b, j).home, lab[b][j]>> = p /\ j \in Nat
    BY <1>1, <1>7 DEF Has, m
  <2>2. /\ j - k + 1 \in 1 .. (m - k + 1) + 1 /\ j - k + 1 \in Nat
        /\ k + (j - k + 1) - 1 = j /\ (j - k + 1 <= m - k + 1 <=> j <= m)
    BY <1>1, <1>5, <1>7, <2>1
  <2>3. l[n + 2][j - k + 1] = lab[b][j]
    BY <1>3, <2>2
  <2>4. Item(d, n + 2, j - k + 1) = Item(c, b, j)
    <3>1. CASE j <= m
      <4>1. j - k + 1 \in 1 .. m - k + 1
        BY <1>1, <2>2, <3>1
      <4> QED BY <1>4, <2>2, <3>1, <4>1 DEF Item, m
    <3>2. CASE ~(j <= m)
      BY <1>4, <2>2, <3>2 DEF Item, m
    <3> QED BY <3>1, <3>2
  <2> QED BY <1>4, <1>5, <2>1, <2>2, <2>3, <2>4 DEF Has
<1>8. /\ \A x \in 1 .. n : IsExit(d, x) <=> IsExit(c, x)
      /\ ~IsExit(d, n + 2) /\ IsExit(d, n + 1) /\ ~IsExit(c, b)
  <2>1. IsExit(d, n + 1) /\ ~IsExit(d, n + 2) /\ ~IsExit(d, b) /\ ~IsExit(c, b)
    BY <1>4 DEF IsExit, Block, Unreachable, OnCmp
  <2> QED BY <1>4, <2>1 DEF IsExit
\* So whatever stays the same leads where it did.
<1>9. ASSUME NEW y \in 1 .. n, NEW e \in 1 .. Len(c[y].body) + 1, NEW x, NEW j,
             Item(d, x, j) = Item(c, y, e), l[x][j] = lab[y][e],
             j <= Len(d[x].body) => e <= Len(c[y].body),
             \A q : Has(c, lab, y, e + 1, q) => Has(d, l, x, j + 1, q),
             IsExit(c, y) => IsExit(d, x)
      PROVE  Placed(s, d, l, x, j)
  <2> DEFINE t == Item(c, y, e)
             q == <<t.home, lab[y][e]>>
  <2>1. Placed(s, c, lab, y, e)
    BY <1>9 DEF Traced, n
  <2>2. /\ Stands(s, t, q)
        /\ e <= Len(c[y].body) => Has(c, lab, y, e + 1, Following(s, t, q))
        /\ t.op = "exit" => IsExit(c, y)
        /\ t.op = "br" => Has(c, lab, t.T, 1, q) /\ Has(c, lab, t.F, 1, q) /\ ~IsExit(c, t.T)
    BY <2>1 DEF Placed
  <2>3. t = Item(d, x, j) /\ q = <<t.home, l[x][j]>>
    BY <1>9
  <2> HIDE DEF t, q
  <2>4. ASSUME t.op = "br"
        PROVE  Has(d, l, t.T, 1, q) /\ Has(d, l, t.F, 1, q) /\ ~IsExit(d, t.T)
    <3>1. 1 <= k
      BY <1>1
    <3>2. t.T \in 1 .. n /\ t.F \in 1 .. n
      BY <2>2, <2>4 DEF Has, n
    <3> QED BY <1>6, <1>8, <2>2, <2>4, <3>1, <3>2
  <2>5. j <= Len(d[x].body) => Has(d, l, x, j + 1, Following(s, t, q))
    BY <1>9, <2>2
  <2>6. t.op = "exit" => IsExit(d, x)
    BY <1>9, <2>2
  <2> QED BY <2>2, <2>3, <2>4, <2>5, <2>6 DEF Placed
<1>10. ASSUME NEW x \in 1 .. n + 2, NEW j \in 1 .. Len(d[x].body) + 1
       PROVE  Placed(s, d, l, x, j)
  <2>1. CASE x \in 1 .. n /\ x # b
    <3>1. d[x] = c[x] /\ j \in 1 .. Len(c[x].body) + 1 /\ j \in Nat
      <4>1. d[x] = c[x] /\ Len(c[x].body) \in Nat
        BY <1>1, <1>4, <2>1 DEF n
      <4>2. j \in 1 .. Len(c[x].body) + 1
        BY <1>10, <4>1
      <4> QED BY <4>1, <4>2
    <3>2. Item(d, x, j) = Item(c, x, j) /\ l[x][j] = lab[x][j]
      BY <1>3, <2>1, <3>1 DEF Item
    <3>3. \A q : Has(c, lab, x, j + 1, q) => Has(d, l, x, j + 1, q)
      BY <1>6, <2>1
    <3> QED BY <1>8, <1>9, <2>1, <3>1, <3>2, <3>3
  <2>2. CASE x = b /\ j < k
    <3>1. /\ j \in 1 .. k - 1 /\ j \in 1 .. m + 1 /\ j <= m /\ j <= k /\ j + 1 <= k
          /\ j \in Nat /\ 1 .. m + 1 = 1 .. Len(c[b].body) + 1
      <4>1. j \in 1 .. k + 1 /\ j < k /\ m \in Nat /\ k \in 1 .. m
        BY <1>1, <1>4, <1>5, <1>10, <2>2
      <4>2. /\ j \in 1 .. k - 1 /\ j \in 1 .. m + 1 /\ j <= m /\ j <= k /\ j + 1 <= k
            /\ j \in Nat
        BY <4>1
      <4> QED BY <4>2 DEF m
    <3>2. Item(d, b, j) = Item(c, b, j) /\ l[b][j] = lab[b][j]
      BY <1>3, <1>4, <1>5, <3>1 DEF Item, m
    <3>3. \A q : Has(c, lab, b, j + 1, q) => Has(d, l, b, j + 1, q)
      BY <1>5, <1>6, <3>1
    <3> QED BY <1>5, <1>8, <1>9, <2>2, <3>1, <3>2, <3>3 DEF m
  <2>3. CASE x = b /\ j = k
    <3>1. Item(d, b, k) = cmp /\ l[b][k] = i /\ cmp.op = "icmp"
      <4>1. k <= k
        BY <1>1
      <4> QED BY <1>1, <1>3, <1>4, <1>5, <4>1 DEF Item, i, Cmps
    <3>2. Item(d, b, k + 1) = OnCmp(h, n + 2, n + 1) /\ l[b][k + 1] = i
      <4>1. k + 1 \in Nat /\ k + 1 > k /\ ~(k + 1 <= k)
        BY <1>1
      <4> QED BY <1>3, <1>4, <4>1 DEF Item
    <3>3. Has(d, l, b, k + 1, <<h, i>>)
      <4>1. k + 1 \in 1 .. k + 1
        BY <1>1
      <4> QED BY <1>4, <1>5, <3>2, <4>1 DEF Has, OnCmp
    <3>4. Following(s, cmp, <<h, i>>) = <<h, i>>
      BY <3>1 DEF Following
    <3> QED BY <2>3, <3>1, <3>3, <3>4 DEF Placed, i, h
  <2>4. CASE x = b /\ j = k + 1
    <3> DEFINE t == OnCmp(h, n + 2, n + 1)
    <3>1. Item(d, b, k + 1) = t /\ l[b][k + 1] = i /\ ~(k + 1 <= Len(d[b].body))
      <4>1. k + 1 \in Nat /\ k + 1 > k /\ ~(k + 1 <= k)
        BY <1>1
      <4> QED BY <1>3, <1>4, <4>1 DEF Item
    <3>2. t.op = "br" /\ t.T = n + 2 /\ t.F = n + 1 /\ t.home = h
      BY DEF OnCmp
    <3>3. Has(d, l, n + 2, 1, <<h, i>>)
      <4>1. k >= k /\ k - k + 1 = 1 /\ k <= m /\ k \in 1 .. m + 1
        BY <1>1, <1>5
      <4>2. Has(c, lab, b, k, <<h, i>>)
        BY <1>5, <4>1 DEF Has, Item, h, i, m, n
      <4>3. Has(d, l, n + 2, k - k + 1, <<h, i>>)
        BY <1>7, <4>1, <4>2
      <4> QED BY <4>1, <4>3
    <3>4. Has(d, l, n + 1, 1, <<h, i>>)
      <4>1. Item(d, n + 1, 1) = ExitCall(h) /\ 1 \in 1 .. Len(d[n + 1].body) + 1
        BY <1>4 DEF Item, Block
      <4> QED BY <1>3, <1>4, <1>5, <4>1 DEF Has, ExitCall
    <3>5. Stands(s, t, <<h, i>>)
      BY <3>2 DEF Stands
    <3> HIDE DEF t
    <3> QED BY <1>8, <2>4, <3>1, <3>2, <3>3, <3>4, <3>5 DEF Placed
  <2>5. CASE x = n + 1
    <3>1. /\ d[n + 1].body = <<ExitCall(h)>> /\ d[n + 1].term = Unreachable(h)
          /\ Len(d[n + 1].body) = 1
      BY <1>4 DEF Block
    <3>2. j = 1 \/ j = 2
      BY <2>5, <3>1
    <3>3. Item(d, n + 1, 1) = ExitCall(h) /\ Item(d, n + 1, 2) = Unreachable(h)
          /\ l[n + 1][1] = i /\ l[n + 1][2] = i
      <4>1. /\ d[n + 1].body[1] = ExitCall(h) /\ 1 <= Len(d[n + 1].body)
            /\ ~(2 <= Len(d[n + 1].body))
        BY <3>1
      <4> QED BY <1>3, <3>1, <4>1 DEF Item
    <3>4. SourceGep(s, h)
      BY DEF Stands, Cmps, h
    <3>5. CASE j = 1
      <4>1. Has(d, l, n + 1, 1 + 1, <<h, i>>)
        <5>1. 1 + 1 = 2 /\ 2 \in 1 .. Len(d[n + 1].body) + 1 /\ n + 1 \in 1 .. Len(d)
          <6>1. 1 + 1 = 2 /\ 2 \in 1 .. 1 + 1
            OBVIOUS
          <6> QED BY <1>4, <1>5, <3>1, <6>1
        <5> QED BY <3>3, <5>1 DEF Has, Unreachable
      <4>2. Stands(s, ExitCall(h), <<h, i>>) /\ Following(s, ExitCall(h), <<h, i>>) = <<h, i>>
        BY <3>4 DEF Stands, Following, ExitCall
      <4>3. ExitCall(h).op = "exit" /\ ExitCall(h).home = h
        BY DEF ExitCall
      <4> QED BY <1>8, <2>5, <3>3, <3>5, <4>1, <4>2, <4>3 DEF Placed
    <3>6. CASE j = 2
      <4>1. Unreachable(h).op = "unreachable" /\ ~(2 <= Len(d[n + 1].body))
        BY <3>1 DEF Unreachable
      <4> QED BY <2>5, <3>3, <3>6, <4>1 DEF Placed, Stands
    <3> QED BY <3>2, <3>5, <3>6
  <2>6. CASE x = n + 2
    <3> DEFINE e == k + j - 1
    <3>1. /\ e \in 1 .. m + 1 /\ e >= k /\ e + 1 >= k /\ e - k + 1 = j /\ j \in Nat
          /\ e + 1 - k + 1 = j + 1 /\ (j <= m - k + 1 <=> e <= m)
          /\ j \in 1 .. m - k + 1 + 1
      <4>1. m \in Nat /\ k \in 1 .. m
        BY <1>1, <1>5 DEF m
      <4>2. j \in 1 .. m - k + 1 + 1
        BY <1>10, <1>4, <2>6
      <4> QED BY <4>1, <4>2, RestPlaces
    <3>2. l[n + 2][j] = lab[b][e]
      BY <1>3, <3>1
    <3>3. Item(d, n + 2, j) = Item(c, b, e)
      <4>1. CASE j <= m - k + 1
        <5>1. j \in 1 .. m - k + 1
          BY <1>1, <3>1, <4>1
        <5> QED BY <1>4, <3>1, <4>1, <5>1 DEF Item, m
      <4>2. CASE ~(j <= m - k + 1)
        BY <1>4, <3>1, <4>2 DEF Item, m
      <4> QED BY <4>1, <4>2
    <3> HIDE DEF e
    <3>4. \A q : Has(c, lab, b, e + 1, q) => Has(d, l, n + 2, j + 1, q)
      <4> SUFFICES ASSUME NEW q, Has(c, lab, b, e + 1, q) PROVE Has(d, l, n + 2, j + 1, q)
        OBVIOUS
      <4> DEFINE f == e + 1
      <4>1. f >= k /\ f - k + 1 = j + 1 /\ Has(c, lab, b, f, q)
        BY <3>1
      <4> HIDE DEF f
      <4>2. Has(d, l, n + 2, f - k + 1, q)
        BY <1>7, <4>1
      <4> QED BY <4>1, <4>2
    <3> QED BY <1>4, <1>5, <1>8, <1>9, <2>6, <3>1, <3>2, <3>3, <3>4 DEF m
  <2>7. x \in 1 .. n \/ x = n + 1 \/ x = n + 2
    BY <1>1
  <2>8. x = b => j < k \/ j = k \/ j = k + 1
    <3>1. x = b => j \in 1 .. k + 1
      BY <1>4, <1>10
    <3> QED BY <1>1, <3>1
  <2> QED BY <2>1, <2>2, <2>3, <2>4, <2>5, <2>6, <2>7, <2>8
<1>11. Starts(s, d, l)
  <2> SUFFICES ASSUME NEW x \in 1 .. Len(s)
               PROVE  Has(d, l, x, 1, <<<<x, 1>>, 1>>) /\ ~IsExit(d, x)
    BY Zenon DEF Starts
  <2>1. Has(c, lab, x, 1, <<<<x, 1>>, 1>>) /\ ~IsExit(c, x) /\ x \in 1 .. n /\ 1 <= k
    <3>1. Starts(s, c, lab)
      BY DEF Traced
    <3>2. x \in 1 .. n /\ 1 <= k
      BY <1>1 DEF n
    <3> QED BY <3>1, <3>2 DEF Starts
  <2> QED BY <1>6, <1>8, <2>1
<1> QED BY <1>3, <1>4, <1>10, <1>11 DEF Traced, d, l, n

LEMMA SourceGepParts ==
  ASSUME NEW s \in Programs, NEW h, SourceGep(s, h)
  PROVE  LET g == SourceItem(s, h)
         IN  g \in Geps /\ Len(g.idx) > 0 /\ Len(g.types) = Len(g.idx)
<1> DEFINE body == s[h[1]].body
           g == body[h[2]]
<1>1. IsFunction(s) /\ h[1] \in 1 .. Len(s) /\ h[2] \in 1 .. Len(body) /\ g.op = "gep"
  BY ProgramsAssumption DEF SourceGep, InSource, SourceItem
<1>2. s \in Seq([body : Seq(Loads \cup Geps), succ : SUBSET Nat]) /\ DOMAIN s = 1 .. Len(s)
  BY <1>1, LenProperties DEF IsFunction
<1>3. s[h[1]] \in [body : Seq(Loads \cup Geps), succ : SUBSET Nat]
  BY <1>1, <1>2, ElementOfSeq
<1>4. body \in Seq(Loads \cup Geps)
  BY <1>3
<1>5. DOMAIN body = 1 .. Len(body) /\ g \in Loads \cup Geps
  BY <1>1, <1>4, LenProperties, ElementOfSeq
<1>6. g \in Geps
  BY <1>1, <1>5 DEF Loads
<1>7. g.idx # << >> /\ Len(g.types) = Len(g.idx)
  BY <1>1, <1>2, <1>5 DEF IsFunction
<1>8. g.idx \in Seq(Operands)
  BY <1>6 DEF Geps
<1>9. SourceItem(s, h) = g
  BY DEF SourceItem
<1> HIDE DEF g
<1>10. Len(g.idx) > 0
  BY <1>7, <1>8, LenProperties, EmptySeq
<1> QED BY <1>6, <1>7, <1>9, <1>10

\* The numbers when the gep at place k of block b was split in p.
LabSplit(b, k, p, lab) ==
  [x \in Nat |-> [j \in Nat |->
     IF x = b /\ j >= k THEN IF j < k + p THEN j - k + 1 ELSE lab[b][j - p + 1]
     ELSE lab[x][j]]]

SplitLabels(b, k, p, lab, l) ==
  /\ l \in [Nat -> [Nat -> Nat]]
  /\ \A e \in 1 .. p : l[b][k + e - 1] = e
  /\ \A j \in Nat : j > k => l[b][j + p - 1] = lab[b][j]
  /\ \A x \in Nat, j \in Nat : ~(x = b /\ j >= k) => l[x][j] = lab[x][j]

LEMMA LabelsSplit ==
  ASSUME NEW b \in Nat, NEW k \in Nat \ {0}, NEW p \in Nat \ {0},
         NEW lab \in [Nat -> [Nat -> Nat]]
  PROVE  SplitLabels(b, k, p, lab, LabSplit(b, k, p, lab))
<1> DEFINE l == LabSplit(b, k, p, lab)
<1>1. \A x \in Nat, j \in Nat : lab[x][j] \in Nat
  OBVIOUS
<1>2. \A j \in Nat : /\ j >= k => j - k + 1 \in Nat
                     /\ j >= k /\ ~(j < k + p) => j - p + 1 \in Nat
  OBVIOUS
<1>3. ASSUME NEW x \in Nat, NEW j \in Nat
      PROVE  (IF x = b /\ j >= k THEN IF j < k + p THEN j - k + 1 ELSE lab[b][j - p + 1]
              ELSE lab[x][j]) \in Nat
  BY <1>1, <1>2
<1>4. l \in [Nat -> [Nat -> Nat]]
  BY <1>3 DEF LabSplit
<1>5. ASSUME NEW x \in Nat, NEW j \in Nat
      PROVE  l[x][j] = IF x = b /\ j >= k
                       THEN IF j < k + p THEN j - k + 1 ELSE lab[b][j - p + 1]
                       ELSE lab[x][j]
  BY DEF LabSplit
<1> HIDE DEF l
<1>6. ASSUME NEW e \in 1 .. p PROVE l[b][k + e - 1] = e
  <2>1. k + e - 1 \in Nat /\ k + e - 1 >= k /\ k + e - 1 < k + p /\ (k + e - 1) - k + 1 = e
    OBVIOUS
  <2> QED BY <1>5, <2>1
<1>7. ASSUME NEW j \in Nat, j > k PROVE l[b][j + p - 1] = lab[b][j]
  <2>1. /\ j + p - 1 \in Nat /\ j + p - 1 >= k /\ ~(j + p - 1 < k + p)
        /\ (j + p - 1) - p + 1 = j
    BY <1>7
  <2> QED BY <1>5, <2>1
<1>8. \A x \in Nat, j \in Nat : ~(x = b /\ j >= k) => l[x][j] = lab[x][j]
  BY <1>5
<1> QED BY <1>4, <1>6, <1>7, <1>8 DEF l, SplitLabels

\* A gep that is not simple is still the gep of the source.
LEMMA WholeGep ==
  ASSUME NEW s \in Programs, NEW t, NEW p, Stands(s, t, p), t.op = "gep", ~IsSimple(t)
  PROVE  SourceGep(s, p[1]) /\ t = SourceItem(s, p[1]) /\ p[2] = 1
<1> DEFINE g == SourceItem(s, p[1])
<1>1. /\ SourceGep(s, p[1])
      /\ \/ t = g /\ p[2] = 1
         \/ ~IsSimple(g) /\ p[2] \in 1 .. Len(SplitGep(g)) /\ t = SplitGep(g)[p[2]]
  BY DEF Stands
<1>2. ~IsSimple(g) => PartsOfSplit(g, SplitGep(g))
  BY <1>1, SourceGepParts, SplitGepParts
<1> HIDE DEF g
<1>3. ~(~IsSimple(g) /\ p[2] \in 1 .. Len(SplitGep(g)) /\ t = SplitGep(g)[p[2]])
  BY <1>2 DEF PartsOfSplit
<1> QED BY <1>1, <1>3 DEF g

\* The parts of a gep are at the positions between its own and the next.
LEMMA SplitTraced ==
  ASSUME NEW s \in Programs, Len(s) \in Nat, NEW c \in Seq(CodeBlocks), Len(s) <= Len(c),
         NEW lab, Traced(s, c, lab), NEW b, NEW k, IsGep(c, b, k), ~IsSimple(c[b].body[k])
  PROVE  Traced(s, SplitAt(c, b, k), LabSplit(b, k, Len(SplitGep(c[b].body[k])), lab))
<1> DEFINE g == c[b].body[k]
           t == SplitGep(g)
           p == Len(t)
           d == SplitAt(c, b, k)
           l == LabSplit(b, k, p, lab)
           m == Len(c[b].body)
           h == g.home
<1>1. /\ b \in 1 .. Len(c) /\ k \in 1 .. m /\ m \in Nat /\ Len(c) \in Nat /\ b \in Nat
      /\ k \in Nat \ {0} /\ g.op = "gep" /\ \A x \in 1 .. Len(c) : Len(c[x].body) \in Nat
  BY BlockParts DEF IsGep
<1>2. Item(c, b, k) = g /\ Placed(s, c, lab, b, k)
  <2>1. k <= m /\ k \in 1 .. m + 1
    BY <1>1
  <2> QED BY <1>1, <2>1 DEF Item, Traced
<1>3. /\ SourceGep(s, h) /\ g = SourceItem(s, h) /\ lab[b][k] = 1
      /\ Has(c, lab, b, k + 1, <<<<h[1], h[2] + 1>>, 1>>)
  <2>1. Stands(s, g, <<h, lab[b][k]>>) /\ k <= m
    BY <1>1, <1>2 DEF Placed
  <2>2. SourceGep(s, h) /\ g = SourceItem(s, h) /\ lab[b][k] = 1
    <3> DEFINE q == <<h, lab[b][k]>>
    <3>1. q[1] = h /\ q[2] = lab[b][k] /\ Stands(s, g, q)
      BY <2>1
    <3> HIDE DEF q, g, h
    <3>2. SourceGep(s, q[1]) /\ g = SourceItem(s, q[1]) /\ q[2] = 1
      BY <1>1, <3>1, WholeGep DEF g
    <3> QED BY <3>1, <3>2
  <2>3. Following(s, g, <<h, lab[b][k]>>) = <<<<h[1], h[2] + 1>>, 1>>
    BY <1>1, <2>2 DEF Following
  <2>4. Has(c, lab, b, k + 1, Following(s, g, <<h, lab[b][k]>>))
    BY <1>2, <2>1 DEF Placed
  <2> QED BY <2>2, <2>3, <2>4
<1>4. PartsOfSplit(g, t)
  BY <1>3, SourceGepParts, SplitGepParts
<1>5. SplitIn(c, b, k, t, d)
  <2>1. t \in Seq(Geps)
    BY <1>4 DEF PartsOfSplit
  <2> QED BY <1>1, <2>1, SplitParts
<1>6. p \in Nat /\ p >= 2 /\ p \in Nat \ {0}
  <2>1. p \in Nat /\ p >= 2
    BY <1>4 DEF PartsOfSplit
  <2> HIDE DEF p
  <2> QED BY <2>1
<1>7. SplitLabels(b, k, p, lab, l)
  <2>1. lab \in [Nat -> [Nat -> Nat]]
    BY DEF Traced
  <2> HIDE DEF p
  <2> QED BY <1>1, <1>6, <2>1, LabelsSplit
<1> HIDE DEF g, t, d, l, h
<1>8. /\ l \in [Nat -> [Nat -> Nat]]
      /\ \A e \in 1 .. p : l[b][k + e - 1] = e
      /\ \A j \in Nat : j > k => l[b][j + p - 1] = lab[b][j]
      /\ \A x \in Nat, j \in Nat : ~(x = b /\ j >= k) => l[x][j] = lab[x][j]
  BY <1>7 DEF SplitLabels
<1>9. /\ Len(d) = Len(c) /\ d[b].term = c[b].term
      /\ \A x \in 1 .. Len(c) : x # b => d[x] = c[x]
      /\ Len(d[b].body) = m + p - 1
      /\ \A j \in 1 .. m + p - 1 :
           d[b].body[j] = IF j < k THEN c[b].body[j]
                          ELSE IF j < k + p THEN t[j - k + 1] ELSE c[b].body[j - p + 1]
  BY <1>5 DEF SplitIn
<1>10. \A e \in 1 .. p : t[e].op = "gep" /\ t[e].home = h /\ IsSimple(t[e])
  BY <1>4 DEF PartsOfSplit, h
<1>11. ~IsSimple(g)
  BY DEF g
<1> HIDE DEF p, m
<1>12. \A e \in 1 .. p : Item(d, b, k + e - 1) = t[e] /\ k + e - 1 \in 1 .. m + p - 1
  <2> SUFFICES ASSUME NEW e \in 1 .. p
               PROVE  Item(d, b, k + e - 1) = t[e] /\ k + e - 1 \in 1 .. m + p - 1
    OBVIOUS
  <2>1. /\ k + e - 1 \in 1 .. m + p - 1 /\ k + e - 1 <= m + p - 1 /\ ~(k + e - 1 < k)
        /\ k + e - 1 < k + p /\ (k + e - 1) - k + 1 = e
    BY <1>1, <1>6
  <2> QED BY <1>9, <2>1 DEF Item
\* What stands up to the gep is where it was, its first part for the gep.
<1>13. ASSUME NEW x \in 1 .. Len(c), NEW j, x = b => j <= k, NEW q, Has(c, lab, x, j, q)
       PROVE  Has(d, l, x, j, q)
  <2>1. /\ j \in 1 .. Len(c[x].body) + 1 /\ <<Item(c, x, j).home, lab[x][j]>> = q
        /\ j \in Nat /\ x \in Nat
    BY <1>1, <1>13 DEF Has
  <2>2. CASE x # b
    <3>1. d[x] = c[x] /\ l[x][j] = lab[x][j]
      BY <1>8, <1>9, <2>1, <2>2
    <3> QED BY <1>9, <2>1, <3>1 DEF Has, Item
  <2>3. CASE x = b /\ j = k
    <3>1. /\ k + 1 - 1 = k /\ 1 \in 1 .. p /\ k \in 1 .. (m + p - 1) + 1
      BY <1>1, <1>6
    <3>2. Item(d, b, k) = t[1] /\ t[1].home = h /\ l[b][k] = 1
      BY <1>8, <1>10, <1>12, <3>1
    <3> QED BY <1>2, <1>3, <1>9, <2>1, <2>3, <3>1, <3>2 DEF Has, h
  <2>4. CASE x = b /\ j < k
    <3>1. /\ j \in 1 .. m + p - 1 /\ j <= m + p - 1 /\ j <= m /\ ~(j >= k)
          /\ j \in 1 .. (m + p - 1) + 1
      BY <1>1, <1>6, <2>1, <2>4
    <3>2. Item(d, b, j) = Item(c, b, j) /\ l[b][j] = lab[b][j]
      BY <1>1, <1>8, <1>9, <2>1, <2>4, <3>1 DEF Item, m
    <3> QED BY <1>1, <1>9, <2>1, <2>4, <3>1, <3>2 DEF Has
  <2>5. x = b => j = k \/ j < k
    BY <1>1, <1>13, <2>1
  <2> QED BY <2>2, <2>3, <2>4, <2>5
\* What stands behind it has moved.
<1>14. ASSUME NEW j \in 1 .. m + 1, j > k
       PROVE  /\ j + p - 1 \in 1 .. (m + p - 1) + 1 /\ j \in Nat
              /\ (j + p - 1 <= m + p - 1 <=> j <= m)
              /\ Item(d, b, j + p - 1) = Item(c, b, j) /\ l[b][j + p - 1] = lab[b][j]
  <2>1. /\ j + p - 1 \in 1 .. (m + p - 1) + 1 /\ j \in Nat
        /\ (j + p - 1 <= m + p - 1 <=> j <= m)
        /\ ~(j + p - 1 < k) /\ ~(j + p - 1 < k + p) /\ (j + p - 1) - p + 1 = j
        /\ (j <= m => j + p - 1 \in 1 .. m + p - 1)
    BY <1>1, <1>6, <1>14
  <2>2. Item(d, b, j + p - 1) = Item(c, b, j)
    <3>1. CASE j <= m
      BY <1>9, <2>1, <3>1 DEF Item, m
    <3>2. CASE ~(j <= m)
      BY <1>9, <2>1, <3>2 DEF Item, m
    <3> QED BY <3>1, <3>2
  <2> QED BY <1>8, <1>14, <2>1, <2>2
<1>15. ASSUME NEW j, j > k, NEW q, Has(c, lab, b, j, q) PROVE Has(d, l, b, j + p - 1, q)
  <2>1. j \in 1 .. m + 1 /\ <<Item(c, b, j).home, lab[b][j]>> = q
    BY <1>15 DEF Has, m
  <2> QED BY <1>1, <1>9, <1>14, <1>15, <2>1 DEF Has
<1>16. \A x \in 1 .. Len(c) : IsExit(d, x) <=> IsExit(c, x)
  BY <1>9 DEF IsExit
\* So whatever stays the same leads where it did.
<1>17. ASSUME NEW y \in 1 .. Len(c), NEW e \in 1 .. Len(c[y].body) + 1, NEW j,
              Item(d, y, j) = Item(c, y, e), l[y][j] = lab[y][e],
              j <= Len(d[y].body) => e <= Len(c[y].body),
              \A q : Has(c, lab, y, e + 1, q) => Has(d, l, y, j + 1, q)
       PROVE  Placed(s, d, l, y, j)
  <2> DEFINE u == Item(c, y, e)
             q == <<u.home, lab[y][e]>>
  <2>1. Placed(s, c, lab, y, e)
    BY <1>17 DEF Traced
  <2>2. /\ Stands(s, u, q)
        /\ e <= Len(c[y].body) => Has(c, lab, y, e + 1, Following(s, u, q))
        /\ u.op = "exit" => IsExit(c, y)
        /\ u.op = "br" => Has(c, lab, u.T, 1, q) /\ Has(c, lab, u.F, 1, q) /\ ~IsExit(c, u.T)
    BY <2>1 DEF Placed
  <2>3. u = Item(d, y, j) /\ q = <<u.home, l[y][j]>>
    BY <1>17
  <2> HIDE DEF u, q
  <2>4. ASSUME u.op = "br"
        PROVE  Has(d, l, u.T, 1, q) /\ Has(d, l, u.F, 1, q) /\ ~IsExit(d, u.T)
    <3>1. 1 <= k
      BY <1>1
    <3>2. u.T \in 1 .. Len(c) /\ u.F \in 1 .. Len(c)
      BY <2>2, <2>4 DEF Has
    <3> QED BY <1>13, <1>16, <2>2, <2>4, <3>1, <3>2
  <2>5. j <= Len(d[y].body) => Has(d, l, y, j + 1, Following(s, u, q))
    BY <1>17, <2>2
  <2>6. u.op = "exit" => IsExit(d, y)
    BY <1>16, <2>2
  <2> QED BY <2>2, <2>3, <2>4, <2>5, <2>6 DEF Placed
<1>18. ASSUME NEW x \in 1 .. Len(c), NEW j \in 1 .. Len(d[x].body) + 1
       PROVE  Placed(s, d, l, x, j)
  <2>1. CASE x # b
    <3>1. d[x] = c[x] /\ j \in 1 .. Len(c[x].body) + 1 /\ j \in Nat /\ x \in Nat
      BY <1>1, <1>9, <1>18, <2>1
    <3>2. Item(d, x, j) = Item(c, x, j) /\ l[x][j] = lab[x][j]
      BY <1>8, <2>1, <3>1 DEF Item
    <3>3. \A q : Has(c, lab, x, j + 1, q) => Has(d, l, x, j + 1, q)
      BY <1>13, <2>1
    <3> QED BY <1>17, <2>1, <3>1, <3>2, <3>3
  <2>2. CASE x = b
    <3>0. j \in 1 .. (m + p - 1) + 1 /\ j \in Nat
      BY <1>1, <1>6, <1>9, <1>18, <2>2
    <3>1. CASE j < k
      <4>1. /\ j \in 1 .. m + p - 1 /\ j \in 1 .. m + 1 /\ j <= m /\ j <= m + p - 1
            /\ j + 1 <= k /\ ~(j >= k)
        <5>1. j \in Nat /\ j >= 1 /\ k \in Nat /\ k <= m /\ m \in Nat /\ p \in Nat /\ p >= 2
          BY <1>1, <1>6, <3>0
        <5> QED BY <3>1, <5>1
      <4>2. Item(d, b, j) = Item(c, b, j) /\ l[b][j] = lab[b][j]
        BY <1>1, <1>8, <1>9, <3>0, <3>1, <4>1 DEF Item, m
      <4>3. \A q : Has(c, lab, b, j + 1, q) => Has(d, l, b, j + 1, q)
        BY <1>1, <1>13, <4>1
      <4> QED BY <1>1, <1>17, <2>2, <4>1, <4>2, <4>3 DEF m
    <3>2. CASE ~(j < k) /\ j < k + p
      <4> DEFINE e == j - k + 1
      <4>1. /\ e \in 1 .. p /\ k + e - 1 = j /\ e \in Nat
            /\ (e # p => e + 1 \in 1 .. p /\ k + (e + 1) - 1 = j + 1)
            /\ (e = p => j + 1 = (k + 1) + p - 1)
        BY <1>1, <1>6, <3>0, <3>2
      <4> HIDE DEF e
      <4>2. Item(d, b, j) = t[e] /\ l[b][j] = e /\ t[e].op = "gep" /\ t[e].home = h
            /\ t[e] # g
        BY <1>8, <1>10, <1>11, <1>12, <4>1
      <4>3. Stands(s, t[e], <<h, e>>)
        <5>1. t = SplitGep(SourceItem(s, h)) /\ ~IsSimple(SourceItem(s, h))
          BY <1>3, <1>11 DEF t
        <5>2. e \in 1 .. Len(t)
          BY <4>1 DEF p
        <5> QED BY <1>3, <4>2, <5>1, <5>2 DEF Stands
      <4>4. Following(s, t[e], <<h, e>>) =
              IF e = p THEN <<<<h[1], h[2] + 1>>, 1>> ELSE <<h, e + 1>>
        <5>1. p = Len(SplitGep(SourceItem(s, h))) /\ t[e] # SourceItem(s, h)
          BY <1>3, <4>2 DEF t, p
        <5> QED BY <4>2, <5>1 DEF Following
      <4>5. CASE e = p
        <5> DEFINE next == <<<<h[1], h[2] + 1>>, 1>>
                   k1 == k + 1
        <5>1. Has(c, lab, b, k1, next) /\ k1 > k /\ k1 + p - 1 = j + 1
          <6>1. k1 > k
            BY <1>1
          <6>2. k1 + p - 1 = j + 1
            BY <4>1, <4>5
          <6> QED BY <1>3, <6>1, <6>2
        <5> HIDE DEF next, k1
        <5>2. Has(d, l, b, k1 + p - 1, next)
          BY <1>15, <5>1
        <5>3. Has(d, l, b, j + 1, Following(s, t[e], <<h, e>>))
          BY <4>4, <4>5, <5>1, <5>2 DEF next
        <5> QED BY <2>2, <4>2, <4>3, <5>3 DEF Placed
      <4>6. CASE e # p
        <5> DEFINE e1 == e + 1
        <5>1. e1 \in 1 .. p /\ k + e1 - 1 = j + 1
          BY <4>1, <4>6
        <5> HIDE DEF e1
        <5>2. /\ Item(d, b, j + 1) = t[e1] /\ t[e1].home = h /\ l[b][j + 1] = e1
              /\ j + 1 \in 1 .. m + p - 1
          BY <1>8, <1>10, <1>12, <5>1
        <5>3. j + 1 \in 1 .. (m + p - 1) + 1
          <6>1. m + p - 1 \in Int
            BY <1>1, <1>6
          <6> QED BY <5>2, <6>1
        <5>4. Has(d, l, b, j + 1, <<h, e1>>)
          BY <1>1, <1>9, <5>2, <5>3 DEF Has
        <5>5. Has(d, l, b, j + 1, Following(s, t[e], <<h, e>>))
          BY <4>4, <4>6, <5>4 DEF e1
        <5> QED BY <2>2, <4>2, <4>3, <5>5 DEF Placed
      <4> QED BY <4>5, <4>6
    <3>3. CASE ~(j < k) /\ ~(j < k + p)
      <4> DEFINE e == j - p + 1
                 e1 == e + 1
      <4>1. e \in 1 .. m + 1 /\ e > k /\ e1 > k /\ e + p - 1 = j /\ e1 + p - 1 = j + 1
        BY <1>1, <1>6, <3>0, <3>3
      <4> HIDE DEF e, e1
      <4>2. Item(d, b, j) = Item(c, b, e) /\ l[b][j] = lab[b][e]
            /\ (j <= m + p - 1 => e <= m)
        BY <1>14, <4>1
      <4>3. \A q : Has(c, lab, b, e + 1, q) => Has(d, l, b, j + 1, q)
        <5> SUFFICES ASSUME NEW q, Has(c, lab, b, e1, q) PROVE Has(d, l, b, j + 1, q)
          BY DEF e1
        <5>1. Has(d, l, b, e1 + p - 1, q)
          BY <1>15, <4>1
        <5> QED BY <4>1, <5>1
      <4> QED BY <1>1, <1>9, <1>17, <2>2, <4>1, <4>2, <4>3 DEF m
    <3> QED BY <3>1, <3>2, <3>3
  <2> QED BY <2>1, <2>2
<1>19. Starts(s, d, l)
  <2> SUFFICES ASSUME NEW x \in 1 .. Len(s)
               PROVE  Has(d, l, x, 1, <<<<x, 1>>, 1>>) /\ ~IsExit(d, x)
    BY Zenon DEF Starts
  <2>1. Has(c, lab, x, 1, <<<<x, 1>>, 1>>) /\ ~IsExit(c, x) /\ x \in 1 .. Len(c) /\ 1 <= k
    <3>1. Starts(s, c, lab)
      BY DEF Traced
    <3>2. x \in 1 .. Len(c) /\ 1 <= k
      BY <1>1
    <3> QED BY <3>1, <3>2 DEF Starts
  <2> QED BY <1>13, <1>16, <2>1
<1> QED BY <1>8, <1>9, <1>18, <1>19 DEF Traced, d, l, p, t, g

Ones == [x \in Nat |-> [j \in Nat |-> 1]]

\* Before the pass every place is its own.
LEMMA OriginalTraced ==
  ASSUME source \in Programs
  PROVE  Traced(source, Original, Ones)
<1> DEFINE s == source
           n == Len(source)
           o == Original
<1>1. /\ IsFunction(s) /\ n \in Nat \ {0} /\ DOMAIN s = 1 .. n
      /\ o \in Seq(CodeBlocks) /\ Len(o) = n
  BY SourceParts, OriginalParts DEF Structured
<1>2. ASSUME NEW b \in 1 .. n
      PROVE  /\ s[b].body \in Seq(Loads \cup Geps) /\ Len(s[b].body) \in Nat
             /\ DOMAIN s[b].body = 1 .. Len(s[b].body)
             /\ o[b].body = s[b].body
             /\ o[b].term = Goto(<<b, Len(s[b].body) + 1>>, s[b].succ)
  <2>1. s \in Seq([body : Seq(Loads \cup Geps), succ : SUBSET Nat])
    BY <1>1 DEF IsFunction
  <2>2. s[b] \in [body : Seq(Loads \cup Geps), succ : SUBSET Nat]
    BY <2>1, ElementOfSeq
  <2>3. s[b].body \in Seq(Loads \cup Geps)
    BY <2>2
  <2>4. o[b] = Block(s[b].body, Goto(<<b, Len(s[b].body) + 1>>, s[b].succ))
    BY <1>1 DEF Original
  <2> DEFINE body == s[b].body
             term == Goto(<<b, Len(s[b].body) + 1>>, s[b].succ)
  <2>5. o[b].body = body /\ o[b].term = term
    <3> HIDE DEF body, term
    <3>1. o[b] = Block(body, term)
      BY <2>4 DEF body, term
    <3> QED BY <3>1 DEF Block
  <2> QED BY <2>3, <2>5, LenProperties
<1> HIDE DEF o
<1>3. ASSUME NEW b \in 1 .. n, NEW j \in 1 .. Len(s[b].body)
      PROVE  /\ Item(o, b, j) = s[b].body[j] /\ s[b].body[j].home = <<b, j>>
             /\ s[b].body[j].op \in {"load", "gep"}
  <2>1. s[b].body[j].home = <<b, j>>
    BY <1>1, <1>2 DEF IsFunction
  <2>2. s[b].body[j] \in Loads \cup Geps
    BY <1>2, ElementOfSeq
  <2>3. j <= Len(o[b].body)
    <3>1. Len(o[b].body) = Len(s[b].body) /\ Len(s[b].body) \in Nat
      BY <1>2
    <3> QED BY <1>3, <3>1
  <2> QED BY <1>2, <2>1, <2>2, <2>3 DEF Item, Loads, Geps
<1>4. ASSUME NEW b \in 1 .. n
      PROVE  Item(o, b, Len(s[b].body) + 1) = Goto(<<b, Len(s[b].body) + 1>>, s[b].succ)
  <2>1. ~(Len(s[b].body) + 1 <= Len(s[b].body))
    BY <1>2
  <2> QED BY <1>2, <2>1 DEF Item
<1>5. ASSUME NEW b \in 1 .. n, NEW j \in 1 .. Len(s[b].body) + 1
      PROVE  Has(o, Ones, b, j, <<<<b, j>>, 1>>)
  <2>1. Ones[b][j] = 1
    <3>1. b \in Nat /\ j \in Nat
      BY <1>1, <1>2
    <3> QED BY <3>1 DEF Ones
  <2>2. Item(o, b, j).home = <<b, j>>
    <3>1. CASE j \in 1 .. Len(s[b].body)
      BY <1>3, <3>1
    <3>2. CASE j = Len(s[b].body) + 1
      <4> DEFINE t == Goto(<<b, Len(s[b].body) + 1>>, s[b].succ)
      <4>1. Item(o, b, j) = t
        BY <1>4, <3>2
      <4>2. t.home = <<b, j>>
        BY <3>2 DEF Goto
      <4> QED BY <4>1, <4>2
    <3> QED BY <1>2, <3>1, <3>2
  <2> QED BY <1>1, <1>2, <2>1, <2>2 DEF Has
<1>6. ASSUME NEW b \in 1 .. n, NEW j \in 1 .. Len(s[b].body) + 1
      PROVE  Placed(s, o, Ones, b, j)
  <2> DEFINE p == <<<<b, j>>, 1>>
  <2>0. <<Item(o, b, j).home, Ones[b][j]>> = p
    BY <1>5 DEF Has
  <2>1. CASE j \in 1 .. Len(s[b].body)
    <3> DEFINE t == s[b].body[j]
    <3>1. t = Item(o, b, j) /\ t.op \in {"load", "gep"} /\ t = SourceItem(s, <<b, j>>)
      BY <1>3, <2>1 DEF SourceItem
    <3>2. InSource(s, <<b, j>>)
      BY <2>1 DEF InSource
    <3> HIDE DEF t
    <3>3. Stands(s, t, p) /\ Following(s, t, p) = <<<<b, j + 1>>, 1>>
      BY <3>1, <3>2 DEF Stands, Following, SourceGep
    <3>4. Has(o, Ones, b, j + 1, <<<<b, j + 1>>, 1>>)
      <4>1. j + 1 \in 1 .. Len(s[b].body) + 1
        BY <1>2, <2>1
      <4> QED BY <1>5, <4>1
    <3> QED BY <2>0, <3>1, <3>3, <3>4 DEF Placed
  <2>2. CASE j = Len(s[b].body) + 1
    <3> DEFINE t == Goto(<<b, Len(s[b].body) + 1>>, s[b].succ)
    <3>1. Item(o, b, j) = t /\ ~(j <= Len(o[b].body))
      BY <1>2, <1>4, <2>2
    <3>2. t.op = "goto" /\ t.succ = s[b].succ
      BY DEF Goto
    <3> HIDE DEF t
    <3>3. Stands(s, t, p)
      BY <2>2, <3>2 DEF Stands
    <3> QED BY <2>0, <3>1, <3>2, <3>3 DEF Placed
  <2> QED BY <1>2, <2>1, <2>2
<1>7. Starts(s, o, Ones)
  <2> SUFFICES ASSUME NEW x \in 1 .. n
               PROVE  Has(o, Ones, x, 1, <<<<x, 1>>, 1>>) /\ ~IsExit(o, x)
    BY Zenon DEF Starts
  <2>1. 1 \in 1 .. Len(s[x].body) + 1
    BY <1>2
  <2>2. ~IsExit(o, x)
    <3> DEFINE t == Goto(<<x, Len(s[x].body) + 1>>, s[x].succ)
    <3>1. o[x].term = t
      BY <1>2
    <3>2. t.op = "goto"
      BY DEF Goto
    <3> HIDE DEF t
    <3> QED BY <3>1, <3>2 DEF IsExit
  <2> QED BY <1>5, <2>1, <2>2
<1>8. Ones \in [Nat -> [Nat -> Nat]]
  BY DEF Ones
<1>9. \A x \in 1 .. Len(o) : \A j \in 1 .. Len(o[x].body) + 1 : Placed(s, o, Ones, x, j)
  BY <1>1, <1>2, <1>6
<1> QED BY <1>7, <1>8, <1>9 DEF Traced, o

\* Both comparisons of a check stand at the position of their gep.
LEMMA CheckTraced ==
  ASSUME NEW s \in Programs, Len(s) \in Nat, NEW c \in Seq(CodeBlocks), Len(s) <= Len(c),
         Indexed(c), NEW lab, Traced(s, c, lab), NEW b, NEW k, IsGep(c, b, k), ~IsExit(c, b),
         IsSimple(c[b].body[k]), NEW u \in Upper(c[b].body[k])
  PROVE  \E l : Traced(s, InsertBoundCheck(c, b, k, c[b].body[k], Const(0), u), l)
<1> DEFINE g == c[b].body[k]
           lt == Cmp(g.home, "SLT", Last(g.idx), u)
           le == Cmp(g.home, "SLE", Const(0), Last(g.idx))
           once == InsertAssertion(c, b, k, lt)
           d == InsertAssertion(once, b, k, le)
           l1 == LabAfter(Len(c), b, k, lab)
           l2 == LabAfter(Len(once), b, k, l1)
           h == g.home
           i == lab[b][k]
<1>1. /\ b \in 1 .. Len(c) /\ k \in 1 .. Len(c[b].body) /\ g.op = "gep"
      /\ Len(c) \in Nat /\ Len(c[b].body) \in Nat
  BY BlockParts DEF IsGep
<1>2. lt \in Cmps /\ le \in Cmps /\ lt.home = h /\ le.home = h
      /\ lt.op = "icmp" /\ le.op = "icmp"
  BY CheckCmps DEF Cmp
<1>3. Stands(s, g, <<h, i>>)
  <2>1. k <= Len(c[b].body) /\ k \in 1 .. Len(c[b].body) + 1
    BY <1>1
  <2>2. Placed(s, c, lab, b, k) /\ Item(c, b, k) = g
    BY <1>1, <2>1 DEF Traced, Item
  <2> QED BY <2>2 DEF Placed
<1>4. /\ SourceGep(s, h) /\ i \in 1 .. Len(Pieces(SourceItem(s, h)))
      /\ Pieces(SourceItem(s, h))[i] = g
  <2> DEFINE G == SourceItem(s, h)
  <2>1. /\ SourceGep(s, h)
        /\ \/ g = G /\ i = 1
           \/ ~IsSimple(G) /\ i \in 1 .. Len(SplitGep(G)) /\ g = SplitGep(G)[i]
    BY <1>1, <1>3 DEF Stands
  <2> HIDE DEF G, h, i
  <2>2. CASE g = G /\ i = 1
    <3>1. IsSimple(G)
      BY <2>2
    <3>2. Pieces(G) = <<G>>
      BY <3>1 DEF Pieces
    <3> HIDE DEF g
    <3> QED BY <2>1, <2>2, <3>2 DEF G
  <2>3. CASE ~IsSimple(G) /\ i \in 1 .. Len(SplitGep(G)) /\ g = SplitGep(G)[i]
    BY <2>1, <2>3 DEF Pieces, G
  <2> QED BY <2>1, <2>2, <2>3
<1>5. Stands(s, lt, <<h, i>>) /\ Stands(s, le, <<h, i>>)
  <2>1. CheckOf(g, lt) /\ CheckOf(g, le)
    BY DEF CheckOf
  <2> HIDE DEF lt, le, h, i, g
  <2> QED BY <1>2, <1>4, <2>1 DEF Stands
<1> HIDE DEF lt, le, once, d
<1>6. AssertionIn(c, b, k, lt, once)
  BY <1>1, <1>2, AssertionParts DEF once
<1>7. Traced(s, once, l1)
  BY <1>1, <1>2, <1>5, AssertionTraced DEF once
<1>8. /\ once \in Seq(CodeBlocks) /\ Len(once) = Len(c) + 2 /\ Len(s) <= Len(once)
      /\ b \in 1 .. Len(once) /\ k \in 1 .. Len(once[b].body)
      /\ once[b].body[k].home = h /\ ~IsExit(once, b)
  <2>1. /\ once \in Seq(CodeBlocks) /\ Len(once) = Len(c) + 2
        /\ Len(once[b].body) = k /\ once[b].body[k] = lt /\ ~IsExit(once, b)
    BY <1>6 DEF AssertionIn, IsExit, OnCmp
  <2>2. /\ Len(s) <= Len(c) + 2 /\ b \in 1 .. Len(c) + 2 /\ k \in 1 .. k
    BY <1>1
  <2> QED BY <1>2, <2>1, <2>2
<1>9. l1[b][k] = i
  <2>1. lab \in [Nat -> [Nat -> Nat]] /\ k \in Nat \ {0} /\ k <= k
    <3>1. lab \in [Nat -> [Nat -> Nat]]
      BY DEF Traced
    <3>2. k \in Nat \ {0} /\ k <= k
      BY <1>1
    <3> QED BY <3>1, <3>2
  <2>2. LabelsIn(Len(c), b, k, lab, l1)
    BY <1>1, <2>1, LabelsAfter
  <2> HIDE DEF l1
  <2> QED BY <1>1, <2>1, <2>2 DEF LabelsIn
<1> HIDE DEF l1
<1>10. Traced(s, d, l2)
  <2>1. Stands(s, le, <<le.home, l1[b][k]>>)
    BY <1>2, <1>5, <1>9
  <2>2. le.home = once[b].body[k].home
    BY <1>2, <1>8
  <2> QED BY <1>2, <1>7, <1>8, <2>1, <2>2, AssertionTraced DEF d
<1>11. InsertBoundCheck(c, b, k, g, Const(0), u) = d
  BY DEF InsertBoundCheck, d, once, lt, le
<1> QED BY <1>10, <1>11

(***************************************************************************)
(* The bounds that are checked and the bounds that are declared.           *)
(***************************************************************************)
Within(v, g) ==
  \A u \in Upper(g) : 0 <= EvalIn(v, Last(g.idx)) /\ EvalIn(v, Last(g.idx)) < EvalIn(v, u)

\* The geps for the first index and for index j + 1.
ForFirst(g) == Gep(g.home, 1, g.base, <<g.idx[1]>>, <<g.types[1]>>)
ForNext(g, j) ==
  Gep(g.home, j + 1, Plain, <<Const(0), g.idx[j + 1]>>, <<g.types[j], g.types[j + 1]>>)

LEMMA SplitGepItems ==
  ASSUME NEW g, Len(g.idx) \in Nat, Len(g.idx) >= 1
  PROVE  LET m == Len(g.idx)
             t == SplitGep(g)
         IN  /\ FirstIndexIsZero(g) =>
                  Len(t) = m - 1 /\ \A j \in 1 .. m - 1 : t[j] = ForNext(g, j)
             /\ ~FirstIndexIsZero(g) =>
                  /\ Len(t) = m /\ t[1] = ForFirst(g)
                  /\ \A j \in 1 .. m - 1 : t[j + 1] = ForNext(g, j)
<1> DEFINE m == Len(g.idx)
           t == SplitGep(g)
           rest == [j \in 1 .. m - 1 |-> ForNext(g, j)]
           S == {ForNext(g, j) : j \in 1 .. m - 1} \cup {ForFirst(g)}
           first == IF FirstIndexIsZero(g) THEN << >> ELSE <<ForFirst(g)>>
<1>1. t = first \o rest
  BY DEF SplitGep, ForNext, ForFirst
<1>2. m \in Nat /\ m - 1 \in Nat
  OBVIOUS
<1>3. rest \in [1 .. m - 1 -> S] /\ \A j \in 1 .. m - 1 : rest[j] = ForNext(g, j)
  OBVIOUS
<1>4. ForFirst(g) \in S
  OBVIOUS
<1> HIDE DEF rest, S, t, m
<1>5. rest \in Seq(S) /\ Len(rest) = m - 1
  BY <1>2, <1>3
<1>6. CASE FirstIndexIsZero(g)
  <2>1. t = rest
    BY <1>1, <1>5, <1>6, ConcatEmptySeq
  <2> QED BY <1>3, <1>5, <1>6, <2>1 DEF t, m
<1>7. CASE ~FirstIndexIsZero(g)
  <2>1. first \in Seq(S) /\ Len(first) = 1 /\ first[1] = ForFirst(g)
    BY <1>4, <1>7
  <2> HIDE DEF first
  <2>2. Joined(S, first, 1, rest, m - 1, t)
    <3>1. Joined(S, first, Len(first), rest, Len(rest), first \o rest)
      BY <1>5, <2>1, ConcatJoins
    <3> QED BY <1>1, <1>5, <2>1, <3>1
  <2>3. Len(t) = m
    BY <1>2, <2>2 DEF Joined
  <2>4. t[1] = ForFirst(g)
    BY <1>2, <2>1, <2>2 DEF Joined
  <2>5. ASSUME NEW j \in 1 .. m - 1 PROVE t[j + 1] = ForNext(g, j)
    <3>1. /\ j + 1 \in 1 .. 1 + (m - 1) /\ ~(j + 1 <= 1) /\ (j + 1) - 1 = j
      BY <1>2
    <3> QED BY <1>3, <2>2, <3>1 DEF Joined
  <2> QED BY <1>7, <2>3, <2>4, <2>5 DEF t, m
<1> QED BY <1>6, <1>7

LEMMA WithinNext ==
  ASSUME NEW g, NEW j, NEW v
  PROVE  Within(v, ForNext(g, j)) <=>
           (g.types[j].kind = "array" =>
              /\ 0 <= EvalIn(v, g.idx[j + 1])
              /\ EvalIn(v, g.idx[j + 1]) < EvalIn(v, Const(g.types[j].n)))
<1> DEFINE h == ForNext(g, j)
<1>1. /\ h.base = Plain /\ h.idx = <<Const(0), g.idx[j + 1]>>
      /\ h.types = <<g.types[j], g.types[j + 1]>>
  BY DEF ForNext, Gep
<1> HIDE DEF h
<1>2. h.types[1] = g.types[j] /\ Last(h.idx) = g.idx[j + 1] /\ FindDynArrayLength(h) = {}
  BY <1>1 DEF Last, FindDynArrayLength, Plain
<1>3. Upper(h) = IF g.types[j].kind = "array" THEN {Const(g.types[j].n)} ELSE {}
  BY <1>2 DEF Upper
<1> QED BY <1>2, <1>3 DEF Within, h

\* Where the pass finds the bounds, an access is in bounds iff all of its parts
\* are within what they are checked against.
LEMMA BoundsAgree ==
  ASSUME NEW g, g.idx \in Seq(Operands), Len(g.idx) > 0, BoundsFound(g), NEW v
  PROVE  InBounds(v, g) <=> \A i \in 1 .. Len(Pieces(g)) : Within(v, Pieces(g)[i])
<1> DEFINE m == Len(g.idx)
           In(j) == g.types[j].kind = "array" =>
                      /\ 0 <= EvalIn(v, g.idx[j + 1])
                      /\ EvalIn(v, g.idx[j + 1]) < EvalIn(v, Const(g.types[j].n))
           vla == g.base.kind = "vla" /\ g.base.same
<1>1. m \in Nat /\ m >= 1
  BY LenProperties
<1>2. InBounds(v, g) <=>
        /\ \A j \in 1 .. m - 1 : In(j)
        /\ vla => /\ 0 <= EvalIn(v, g.idx[1])
                  /\ EvalIn(v, g.idx[1]) < EvalIn(v, g.base.length)
  <2> DEFINE ins(d) == 0 <= EvalIn(v, d.index) /\ EvalIn(v, d.index) < EvalIn(v, d.length)
             at1(j) == [index |-> g.idx[j + 1], length |-> Const(g.types[j].n)]
             J == {j \in 1 .. m - 1 : g.types[j].kind = "array"}
             base == [index |-> g.idx[1], length |-> g.base.length]
             D == {at1(j) : j \in J} \cup (IF vla THEN {base} ELSE {})
  <2>1. Declared(g) = D
    BY DEF Declared
  <2>2. InBounds(v, g) <=> \A d \in D : ins(d)
    BY <2>1 DEF InBounds
  <2>3. (\A d \in D : ins(d)) <=> (\A j \in J : ins(at1(j))) /\ (vla => ins(base))
    <3> HIDE DEF ins, J, base, at1, vla
    <3> QED OBVIOUS
  <2>4. (\A j \in J : ins(at1(j))) <=> \A j \in 1 .. m - 1 : In(j)
    OBVIOUS
  <2> QED BY <2>2, <2>3, <2>4
<1>3. CASE IsSimple(g) /\ m = 1
  <2>1. Pieces(g) = <<g>> /\ Last(g.idx) = g.idx[1]
    BY <1>3 DEF Pieces, Last
  <2>2. Upper(g) = IF vla THEN {g.base.length} ELSE {}
    <3>1. g.types[1].kind # "array"
      BY <1>3 DEF BoundsFound
    <3>2. CASE vla
      <4>1. /\ g.types[1].kind = "int" /\ g.base.length = g.base.ops[2]
            /\ ~IsConst(g.base.ops[2]) /\ g.base.kind = "vla" /\ g.base.same
        BY <3>2 DEF BoundsFound
      <4>2. FindDynArrayLength(g) = {g.base.length}
        BY <4>1 DEF FindDynArrayLength
      <4> QED BY <3>1, <3>2, <4>1, <4>2 DEF Upper
    <3>3. CASE ~vla
      <4>1. FindDynArrayLength(g) = {}
        BY <3>3 DEF FindDynArrayLength
      <4>2. Upper(g) = {}
        BY <3>1, <4>1 DEF Upper
      <4> QED BY <3>3, <4>2
    <3> QED BY <3>2, <3>3
  <2>3. Within(v, g) <=> (vla => /\ 0 <= EvalIn(v, g.idx[1])
                                 /\ EvalIn(v, g.idx[1]) < EvalIn(v, g.base.length))
    BY <2>1, <2>2 DEF Within
  <2>4. 1 .. m - 1 = {}
    BY <1>3
  <2>5. (\A i \in 1 .. Len(Pieces(g)) : Within(v, Pieces(g)[i])) <=> Within(v, g)
    <3> HIDE DEF vla
    <3> QED BY <2>1
  <2> QED BY <1>2, <2>3, <2>4, <2>5
<1>4. CASE m # 1
  <2>1. g.types[1].kind # "int" /\ ~vla
    BY <1>4 DEF BoundsFound
  <2>2. CASE IsSimple(g)
    <3>1. m = 2 /\ Pieces(g) = <<g>>
      BY <1>4, <2>2 DEF IsSimple, Pieces
    <3>2. Last(g.idx) = g.idx[2]
      BY <3>1 DEF Last
    <3>3. Upper(g) = IF g.types[1].kind = "array" THEN {Const(g.types[1].n)} ELSE {}
      BY <2>1 DEF Upper
    <3>4. Within(v, g) <=> In(1)
      BY <3>2, <3>3 DEF Within
    <3>5. (\A i \in 1 .. Len(Pieces(g)) : Within(v, Pieces(g)[i])) <=> Within(v, g)
      BY <3>1
    <3>6. (\A j \in 1 .. m - 1 : In(j)) <=> In(1)
      <4> HIDE DEF In
      <4> QED BY <3>1
    <3> QED BY <1>2, <2>1, <3>4, <3>5, <3>6
  <2>3. CASE ~IsSimple(g)
    <3> DEFINE t == SplitGep(g)
               W(i) == Within(v, t[i])
    <3>1. Pieces(g) = t
      BY <2>3 DEF Pieces
    <3>2. \A j \in 1 .. m - 1 : Within(v, ForNext(g, j)) <=> In(j)
      BY WithinNext
    <3>3. CASE FirstIndexIsZero(g)
      <4>1. Len(t) = m - 1 /\ \A j \in 1 .. m - 1 : t[j] = ForNext(g, j)
        BY <1>1, <3>3, SplitGepItems
      <4>2. (\A i \in 1 .. Len(t) : W(i)) <=> \A j \in 1 .. m - 1 : In(j)
        <5> HIDE DEF t, In, m
        <5> QED BY <3>2, <4>1
      <4> QED BY <1>2, <2>1, <3>1, <4>2
    <3>4. CASE ~FirstIndexIsZero(g)
      <4>1. /\ Len(t) = m /\ t[1] = ForFirst(g)
            /\ \A j \in 1 .. m - 1 : t[j + 1] = ForNext(g, j)
        BY <1>1, <3>4, SplitGepItems
      <4>2. W(1)
        <5>1. g.types[1].kind # "array"
          BY <3>4 DEF BoundsFound
        <5>2. ForFirst(g).types[1] = g.types[1]
          BY DEF ForFirst, Gep
        <5>3. Upper(t[1]) = {}
          <6> HIDE DEF t
          <6> QED BY <2>1, <4>1, <5>1, <5>2 DEF Upper
        <5> QED BY <5>3 DEF Within
      <4>3. (\A i \in 1 .. m : W(i)) <=> \A j \in 1 .. m - 1 : W(j + 1)
        <5> HIDE DEF W, m
        <5>1. \A j \in 1 .. m - 1 : j + 1 \in 1 .. m
          BY <1>1
        <5>2. \A i \in 1 .. m : i = 1 \/ (i - 1 \in 1 .. m - 1 /\ (i - 1) + 1 = i)
          BY <1>1
        <5> QED BY <4>2, <5>1, <5>2
      <4>4. \A j \in 1 .. m - 1 : W(j + 1) <=> In(j)
        <5> HIDE DEF t, In, m
        <5> QED BY <3>2, <4>1
      <4>5. (\A i \in 1 .. m : W(i)) <=> \A j \in 1 .. m - 1 : In(j)
        <5> HIDE DEF W, In, m
        <5> QED BY <4>3, <4>4
      <4> QED BY <1>2, <2>1, <3>1, <4>1, <4>5
    <3> QED BY <3>3, <3>4
  <2> QED BY <2>2, <2>3
<1>5. m = 1 => IsSimple(g)
  BY DEF IsSimple
<1> QED BY <1>3, <1>4, <1>5

(***************************************************************************)
(* What the run knows of the source: the parts of an access that are       *)
(* behind it were within their bounds, and still are since nothing was     *)
(* read; and who is about to exit has failed the check of one.             *)
(***************************************************************************)
Behind(s, p, v) ==
  SourceGep(s, p[1]) =>
    \A e \in 1 .. p[2] - 1 : Within(v, Pieces(SourceItem(s, p[1]))[e])

Fails(s, p, v) ==
  LET t == Pieces(SourceItem(s, p[1])) IN \E e \in 1 .. Len(t) : ~Within(v, t[e])

Knows(s, c, lab, a, v) ==
  LET p == <<Item(c, a[1], a[2]).home, lab[a[1]][a[2]]>>
  IN  Behind(s, p, v) /\ (IsExit(c, a[1]) => Fails(s, p, v))

TraceInv ==
  /\ stage # "split" => \A g \in GepsOf(code) : IsSimple(g)
  /\ \E lab : /\ Traced(source, code, lab)
              /\ Running => Knows(source, code, lab, at, val)

\* A simple gep is the part of its source gep that its position says.
LEMMA PieceHere ==
  ASSUME NEW s, NEW t, NEW p, Stands(s, t, p), t.op = "gep", IsSimple(t)
  PROVE  LET h == p[1]
             i == p[2]
             q == Pieces(SourceItem(s, h))
         IN  /\ SourceGep(s, h) /\ i \in 1 .. Len(q) /\ t = q[i]
             /\ Following(s, t, p) =
                  IF i = Len(q) THEN <<<<h[1], h[2] + 1>>, 1>> ELSE <<h, i + 1>>
<1> DEFINE h == p[1]
           i == p[2]
           g == SourceItem(s, h)
<1>1. /\ SourceGep(s, h)
      /\ \/ t = g /\ i = 1
         \/ ~IsSimple(g) /\ i \in 1 .. Len(SplitGep(g)) /\ t = SplitGep(g)[i]
  BY DEF Stands
<1>2. Following(s, t, p) =
        IF t = g \/ i = Len(SplitGep(g)) THEN <<<<h[1], h[2] + 1>>, 1>> ELSE <<h, i + 1>>
  BY DEF Following
<1> HIDE DEF g
<1>3. CASE t = g /\ i = 1
  <2>1. Pieces(g) = <<g>>
    BY <1>3 DEF Pieces
  <2> QED BY <1>1, <1>2, <1>3, <2>1 DEF g
<1>4. CASE ~IsSimple(g) /\ i \in 1 .. Len(SplitGep(g)) /\ t = SplitGep(g)[i]
  <2>1. Pieces(g) = SplitGep(g) /\ t # g
    BY <1>4 DEF Pieces
  <2> QED BY <1>1, <1>2, <1>4, <2>1 DEF g
<1> QED BY <1>1, <1>3, <1>4

\* Where the run is.
LEMMA RunPlaced ==
  ASSUME InsInv, NEW lab, Traced(source, code, lab)
  PROVE  /\ Placed(source, code, lab, at[1], at[2]) /\ at = <<at[1], at[2]>>
         /\ stage = "run" => AtSource = Item(code, at[1], at[2]).home
         /\ at[2] <= Len(Body) => Item(code, at[1], at[2]) = Body[at[2]]
         /\ ~(at[2] <= Len(Body)) => Item(code, at[1], at[2]) = Term
<1>1. at[1] \in 1 .. Len(code) /\ at[2] \in 1 .. Len(code[at[1]].body) + 1
      /\ at = <<at[1], at[2]>>
  BY DEF InsInv, AtInv, Body
<1>2. Placed(source, code, lab, at[1], at[2])
  BY <1>1 DEF Traced
<1> QED BY <1>1, <1>2 DEF AtSource, Item, Body, Term

\* Where it goes.
LEMMA RunGoes ==
  ASSUME stage' = "run", source' = source, code' = code,
         NEW lab, NEW x, NEW j, NEW p, Has(code, lab, x, j, p), at' = <<x, j>>
  PROVE  /\ AtSource' = p[1]
         /\ \A v : Behind(source, p, v) /\ (IsExit(code, x) => Fails(source, p, v))
                   => Knows(source', code', lab, at', v)
<1>1. at'[1] = x /\ at'[2] = j /\ <<Item(code, x, j).home, lab[x][j]>> = p
  BY DEF Has
<1>2. AtSource' = Item(code, x, j).home
  BY <1>1 DEF AtSource, Body, Term, Item
<1> QED BY <1>1, <1>2 DEF Knows

\* An instruction of the code that stays in its place of the source.
LEMMA Stutters ==
  ASSUME source' = source, AtSource' = AtSource, val' = val, outcome' = outcome
  PROVE  [Checked!Next]_(Checked!vars)
BY DEF Checked!vars

\* An access is in bounds in the source iff all of its parts are.
LEMMA AccessInBounds ==
  ASSUME AllBoundsFound, source \in Programs, NEW h, SourceGep(source, h)
  PROVE  InBounds(val, SourceItem(source, h)) <=> ~Fails(source, <<h, 1>>, val)
<1> DEFINE g == SourceItem(source, h)
<1>1. g \in Geps /\ Len(g.idx) > 0
  BY SourceGepParts
<1>2. g.idx \in Seq(Operands)
  BY <1>1 DEF Geps
<1>3. BoundsFound(g)
  <2>1. IsFunction(source) /\ h[1] \in DOMAIN source
    BY SourceParts DEF SourceGep, InSource
  <2>2. h[2] \in DOMAIN source[h[1]].body
    <3>1. source \in Seq([body : Seq(Loads \cup Geps), succ : SUBSET Nat])
          /\ h[1] \in 1 .. Len(source)
      BY <2>1 DEF IsFunction, SourceGep, InSource
    <3>2. source[h[1]] \in [body : Seq(Loads \cup Geps), succ : SUBSET Nat]
      BY <3>1, ElementOfSeq
    <3>3. source[h[1]].body \in Seq(Loads \cup Geps)
      BY <3>2
    <3> QED BY <3>3, LenProperties DEF SourceGep, InSource
  <2>3. source[h[1]].body[h[2]].op = "gep"
    BY DEF SourceGep, SourceItem
  <2> QED BY <2>1, <2>2, <2>3 DEF AllBoundsFound, SourceItem
<1> HIDE DEF g
<1>4. InBounds(val, g) <=> \A i \in 1 .. Len(Pieces(g)) : Within(val, Pieces(g)[i])
  BY <1>1, <1>2, <1>3, BoundsAgree
<1> QED BY <1>4 DEF Fails, g

\* The specification's own bounds are those of the program.
LEMMA SameBounds == \A v, g : Checked!InBounds(v, g) <=> InBounds(v, g)
BY DEF Checked!InBounds, InBounds, Checked!Declared, Declared, Checked!EvalIn, EvalIn,
       Checked!IsConst, IsConst, Checked!Const, Const

\* The block of an exit has nothing else.
LEMMA NotExit ==
  ASSUME NEW c, Structured(c), NEW b \in 1 .. Len(c), NEW k \in 1 .. Len(c[b].body),
         c[b].body[k].op # "exit"
  PROVE  ~IsExit(c, b)
<1>1. IsExit(c, b) => \A j \in 1 .. Len(c[b].body) : c[b].body[j].op = "exit"
  BY DEF Structured
<1> QED BY <1>1

\* An instruction that the run executes.
LEMMA ExecuteTraced ==
  ASSUME InsInv, RunInv, AllBoundsFound,
         stage # "split" => \A g \in GepsOf(code) : IsSimple(g),
         NEW lab, Traced(source, code, lab), Knows(source, code, lab, at, val), Execute
  PROVE  /\ Running' => Knows(source', code', lab, at', val')
         /\ [Checked!Next]_(Checked!vars)
<1> DEFINE t == Body[at[2]]
           h == t.home
           i == lab[at[1]][at[2]]
           q == Following(source, t, <<h, i>>)
<1>1. /\ code \in Seq(CodeBlocks) /\ Body \in Seq(Parts) /\ Len(Body) \in Nat
      /\ Body = code[at[1]].body /\ at[1] \in 1 .. Len(code) /\ at[2] \in 1 .. Len(Body)
      /\ source \in Programs /\ stage = "run" /\ outcome = "running"
  <2>1. at[2] \in 1 .. Len(Body) + 1 /\ source \in Programs
    BY DEF InsInv, AtInv, CodeInv
  <2> QED BY <2>1, BodyParts DEF Execute, Running
<1>2. /\ Item(code, at[1], at[2]) = t /\ AtSource = h
      /\ Stands(source, t, <<h, i>>) /\ Has(code, lab, at[1], at[2] + 1, q)
      /\ t.op = "exit" => IsExit(code, at[1])
  <2>1. at[2] <= Len(Body) /\ stage = "run"
    BY <1>1
  <2>2. Placed(source, code, lab, at[1], at[2]) /\ AtSource = Item(code, at[1], at[2]).home
        /\ Item(code, at[1], at[2]) = t
    BY <2>1, RunPlaced
  <2> QED BY <1>1, <2>1, <2>2 DEF Placed
<1>3. t.op # "exit" => ~IsExit(code, at[1])
  <2>1. Structured(code)
    BY DEF InsInv, CodeInv
  <2> QED BY <1>1, <2>1, NotExit
<1>4. t.op \in {"load", "gep", "icmp", "exit"}
  <2>1. t \in Parts
    BY <1>1, ElementOfSeq
  <2> QED BY <2>1 DEF Parts, Loads, Geps, Cmps, Exits
<1>5. /\ stage' = "run" /\ source' = source /\ code' = code /\ at' = <<at[1], at[2] + 1>>
      /\ t.op # "exit" => outcome' = outcome
      /\ t.op = "exit" => outcome' = "exited"
      /\ t.op = "load" => \E n \in Ints : val' = [val EXCEPT ![t.var] = n]
      /\ t.op # "load" => val' = val
  BY <1>1 DEF Execute, passVars
<1>6. /\ AtSource' = q[1]
      /\ \A v : Behind(source, q, v) /\ (IsExit(code, at[1]) => Fails(source, q, v))
                => Knows(source', code', lab, at', v)
  <2> HIDE DEF q
  <2> DEFINE e == at[2] + 1
  <2>1. Has(code, lab, at[1], e, q) /\ at' = <<at[1], e>>
    BY <1>2, <1>5
  <2> HIDE DEF e
  <2> QED BY <1>5, <2>1, RunGoes
<1>7. Behind(source, <<h, i>>, val) /\ (IsExit(code, at[1]) => Fails(source, <<h, i>>, val))
  BY <1>2 DEF Knows
<1> HIDE DEF t
<1>8. CASE t.op = "load"
  <2>1. InSource(source, h) /\ t = SourceItem(source, h) /\ q = <<<<h[1], h[2] + 1>>, 1>>
    BY <1>2, <1>8 DEF Stands, Following
  <2>2. Behind(source, q, val')
    BY <2>1 DEF Behind
  <2>3. Checked!Read
    <3>1. Checked!Body = source[h[1]].body /\ h[2] <= Len(source[h[1]].body)
      BY <1>2, <2>1 DEF Checked!Body, InSource
    <3>2. t = Checked!Body[AtSource[2]]
      BY <1>2, <2>1, <3>1 DEF SourceItem
    <3>3. \E n \in Ints : val' = [val EXCEPT ![t.var] = n]
      BY <1>5, <1>8
    <3>4. AtSource' = <<AtSource[1], AtSource[2] + 1>> /\ UNCHANGED <<source, outcome>>
      BY <1>2, <1>5, <1>6, <1>8, <2>1
    <3>5. Checked!Running
      BY <1>1, <1>2, <3>1 DEF Checked!Running
    <3> QED BY <1>8, <3>2, <3>3, <3>4, <3>5 DEF Checked!Read
  <2> QED BY <1>3, <1>6, <1>8, <2>2, <2>3 DEF Checked!Next
<1>9. CASE t.op = "gep"
  <2> DEFINE g == SourceItem(source, h)
             P == Pieces(g)
  <2>1. IsSimple(t)
    <3>1. t \in GepsOf(code)
      BY <1>1, <1>9, GepsHere DEF IsGep, t
    <3> QED BY <1>1, <3>1
  <2>2. /\ SourceGep(source, h) /\ i \in 1 .. Len(P) /\ t = P[i]
        /\ q = IF i = Len(P) THEN <<<<h[1], h[2] + 1>>, 1>> ELSE <<h, i + 1>>
    <3>1. Stands(source, t, <<h, i>>)
      BY <1>2
    <3> HIDE DEF h, i
    <3> DEFINE p == <<h, i>>
    <3>2. Stands(source, t, p) /\ p[1] = h /\ p[2] = i
      BY <3>1
    <3> HIDE DEF p
    <3>3. LET r == Pieces(SourceItem(source, p[1]))
          IN  /\ SourceGep(source, p[1]) /\ p[2] \in 1 .. Len(r) /\ t = r[p[2]]
              /\ Following(source, t, p) =
                   IF p[2] = Len(r) THEN <<<<p[1][1], p[1][2] + 1>>, 1>> ELSE <<p[1], p[2] + 1>>
      BY <1>9, <2>1, <3>2, PieceHere
    <3> QED BY <3>2, <3>3 DEF q, p
  <2>3. Within(val, t)
    <3>1. AccessesChecked
      BY AccessGuarded
    <3>2. Running /\ at[2] <= Len(Body)
      BY <1>1 DEF Running
    <3> QED BY <1>9, <3>1, <3>2 DEF AccessesChecked, Within, t
  <2>4. \A e \in 1 .. i - 1 : Within(val, P[e])
    BY <1>7, <2>2 DEF Behind
  <2>5. \A e \in 1 .. i : Within(val, P[e])
    <3>1. \A e \in 1 .. i : e = i \/ e \in 1 .. i - 1
      BY <2>2
    <3> HIDE DEF P, i
    <3> QED BY <2>2, <2>3, <2>4, <3>1
  <2>6. val' = val /\ outcome' = outcome
    BY <1>5, <1>9
  <2>7. CASE i = Len(P)
    <3>1. q = <<<<h[1], h[2] + 1>>, 1>>
      BY <2>2, <2>7
    <3>2. Behind(source, q, val')
      BY <3>1 DEF Behind
    <3>3. InBounds(val, g)
      <4>1. ~Fails(source, <<h, 1>>, val)
        BY <2>5, <2>7 DEF Fails
      <4> QED BY <1>1, <2>2, <4>1, AccessInBounds
    <3>4. Checked!Access
      <4>1. Checked!Body = source[h[1]].body /\ h[2] <= Len(source[h[1]].body)
        BY <1>2, <2>2 DEF Checked!Body, SourceGep, InSource
      <4>2. g = Checked!Body[AtSource[2]] /\ g.op = "gep"
        BY <1>2, <2>2, <4>1 DEF SourceItem, SourceGep
      <4>3. AtSource' = <<AtSource[1], AtSource[2] + 1>> /\ UNCHANGED <<source, val, outcome>>
        BY <1>2, <1>5, <1>6, <2>6, <3>1
      <4>4. Checked!Running
        BY <1>1, <1>2, <4>1 DEF Checked!Running
      <4> HIDE DEF g
      <4> QED BY <3>3, <4>2, <4>3, <4>4, SameBounds DEF Checked!Access
    <3> QED BY <1>3, <1>6, <1>9, <3>2, <3>4 DEF Checked!Next
  <2>8. CASE i # Len(P)
    <3>1. q = <<h, i + 1>>
      BY <2>2, <2>8
    <3>2. Behind(source, q, val')
      <4>1. (i + 1) - 1 = i
        BY <2>2
      <4> HIDE DEF i, h
      <4> QED BY <2>5, <2>6, <3>1, <4>1 DEF Behind, P, g
    <3>3. AtSource' = AtSource
      BY <1>2, <1>6, <3>1
    <3> QED BY <1>3, <1>5, <1>6, <1>9, <2>6, <3>2, <3>3, Stutters
  <2> QED BY <2>7, <2>8
<1>10. CASE t.op = "icmp"
  <2>1. q = <<h, i>> /\ val' = val /\ outcome' = outcome
    BY <1>5, <1>10 DEF Following
  <2>2. AtSource' = AtSource
    BY <1>2, <1>6, <2>1
  <2> QED BY <1>3, <1>5, <1>6, <1>7, <1>10, <2>1, <2>2, Stutters
<1>11. CASE t.op = "exit"
  <2>1. q = <<h, i>> /\ val' = val /\ outcome' = "exited"
    BY <1>5, <1>11 DEF Following
  <2>2. ~Running'
    BY <2>1 DEF Running
  <2>3. SourceGep(source, h) /\ ~InBounds(val, SourceItem(source, h))
    <3>1. SourceGep(source, h)
      BY <1>2, <1>11 DEF Stands
    <3>2. Fails(source, <<h, 1>>, val)
      BY <1>2, <1>7, <1>11 DEF Fails
    <3> QED BY <1>1, <3>1, <3>2, AccessInBounds
  <2>4. AtSource' = AtSource
    BY <1>2, <1>6, <2>1
  <2>5. Checked!Stop
    <3>1. Checked!Body = source[h[1]].body /\ h[2] <= Len(source[h[1]].body)
      BY <1>2, <2>3 DEF Checked!Body, SourceGep, InSource
    <3>2. SourceItem(source, h) = Checked!Body[AtSource[2]]
          /\ SourceItem(source, h).op = "gep"
      BY <1>2, <2>3, <3>1 DEF SourceItem, SourceGep
    <3>3. Checked!Running
      BY <1>1, <1>2, <3>1 DEF Checked!Running
    <3> QED BY <1>5, <2>1, <2>3, <2>4, <3>2, <3>3, SameBounds DEF Checked!Stop
  <2> QED BY <2>2, <2>5 DEF Checked!Next
<1> QED BY <1>4, <1>8, <1>9, <1>10, <1>11

\* A check that fails is one of a part that is not within its bound.
LEMMA CheckFails ==
  ASSUME NEW g, NEW cmp, CheckOf(g, cmp), ~Evaluates(cmp)
  PROVE  ~Within(val, g)
<1>1. PICK u \in Upper(g) : cmp \in {Cmp(g.home, "SLT", Last(g.idx), u),
                                     Cmp(g.home, "SLE", Const(0), Last(g.idx))}
  BY DEF CheckOf
<1>2. EvalIn(val, Const(0)) = 0
  BY DEF EvalIn, IsConst, Const
<1>3. CASE cmp = Cmp(g.home, "SLT", Last(g.idx), u)
  <2>1. Evaluates(cmp) <=> EvalIn(val, Last(g.idx)) < EvalIn(val, u)
    BY <1>3 DEF Evaluates, Cmp
  <2> QED BY <2>1 DEF Within
<1>4. CASE cmp = Cmp(g.home, "SLE", Const(0), Last(g.idx))
  <2>1. Evaluates(cmp) <=> 0 <= EvalIn(val, Last(g.idx))
    BY <1>2, <1>4 DEF Evaluates, Cmp
  <2> QED BY <2>1 DEF Within
<1> QED BY <1>1, <1>3, <1>4

\* A branch on a check.
LEMMA CheckTakenTraced ==
  ASSUME InsInv, NEW lab, Traced(source, code, lab), Knows(source, code, lab, at, val), TakeCheck
  PROVE  Knows(source', code', lab, at', val') /\ [Checked!Next]_(Checked!vars)
<1> DEFINE h == Term.home
           i == lab[at[1]][at[2]]
           p == <<h, i>>
           m == Len(Body)
           cmp == Body[m]
           e == m + 1
<1>1. /\ Term.op = "br" /\ stage = "run" /\ at[2] = e
      /\ stage' = "run" /\ source' = source /\ code' = code
      /\ val' = val /\ outcome' = outcome
      /\ at' = <<IF Evaluates(Last(Body)) THEN Term.T ELSE Term.F, 1>>
  BY DEF TakeCheck, AtTerm, Running, passVars
<1>2. /\ code \in Seq(CodeBlocks) /\ Body \in Seq(Parts) /\ m \in Nat
      /\ Body = code[at[1]].body /\ at[1] \in 1 .. Len(code) /\ Term = code[at[1]].term
  BY BodyParts
<1>3. m > 0 /\ cmp.op = "icmp"
  <2>1. Structured(code) /\ IsBr(code, at[1])
    BY <1>1, CheckTargets DEF InsInv, CodeInv
  <2> QED BY <1>2, <2>1 DEF Structured
<1>4. m \in 1 .. m /\ m \in 1 .. m + 1 /\ m <= m /\ ~(e <= m) /\ Last(Body) = cmp
  <2>1. Last(Body) = cmp
    BY DEF Last
  <2> HIDE DEF m
  <2> QED BY <1>2, <1>3, <2>1
<1>5. Item(code, at[1], m) = cmp /\ Item(code, at[1], e) = Term
  BY <1>2, <1>4 DEF Item
<1>6. /\ AtSource = h /\ Has(code, lab, Term.T, 1, p) /\ Has(code, lab, Term.F, 1, p)
      /\ ~IsExit(code, Term.T)
  <2>1. Placed(source, code, lab, at[1], at[2]) /\ AtSource = Item(code, at[1], at[2]).home
    BY <1>1, RunPlaced
  <2> QED BY <1>1, <1>5, <2>1 DEF Placed
<1>7. Stands(source, cmp, p)
  <2> DEFINE r == <<cmp.home, lab[at[1]][m]>>
  <2>1. Placed(source, code, lab, at[1], m)
    BY <1>2, <1>4 DEF Traced
  <2>2. Stands(source, cmp, r) /\ Has(code, lab, at[1], e, Following(source, cmp, r))
    BY <1>2, <1>4, <1>5, <2>1 DEF Placed
  <2>3. Following(source, cmp, r) = r
    BY <1>3 DEF Following
  <2>4. r = p
    BY <1>1, <1>5, <2>2, <2>3 DEF Has
  <2> QED BY <2>2, <2>4
<1>8. Behind(source, p, val)
  BY <1>1, <1>5 DEF Knows
<1>9. ~Evaluates(cmp) => Fails(source, p, val)
  <2>1. SourceGep(source, h) /\ i \in 1 .. Len(Pieces(SourceItem(source, h)))
        /\ CheckOf(Pieces(SourceItem(source, h))[i], cmp)
    BY <1>3, <1>7 DEF Stands
  <2> HIDE DEF cmp, h, i
  <2> QED BY <2>1, CheckFails DEF Fails
<1> HIDE DEF cmp, h, i, e, m
<1>10. CASE Evaluates(cmp)
  <2>1. at' = <<Term.T, 1>>
    BY <1>1, <1>4, <1>10
  <2>2. AtSource' = h /\ Knows(source', code', lab, at', val)
    <3> HIDE DEF p
    <3>1. /\ AtSource' = p[1]
          /\ \A v : Behind(source, p, v) /\ (IsExit(code, Term.T) => Fails(source, p, v))
                    => Knows(source', code', lab, at', v)
      BY <1>1, <1>6, <2>1, RunGoes
    <3> QED BY <1>6, <1>8, <3>1 DEF p
  <2> QED BY <1>1, <1>6, <2>2, Stutters
<1>11. CASE ~Evaluates(cmp)
  <2>1. at' = <<Term.F, 1>>
    BY <1>1, <1>4, <1>11
  <2>2. AtSource' = h /\ Knows(source', code', lab, at', val)
    <3> HIDE DEF p
    <3>1. /\ AtSource' = p[1]
          /\ \A v : Behind(source, p, v) /\ (IsExit(code, Term.F) => Fails(source, p, v))
                    => Knows(source', code', lab, at', v)
      BY <1>1, <1>6, <2>1, RunGoes
    <3> QED BY <1>8, <1>9, <1>11, <3>1 DEF p
  <2> QED BY <1>1, <1>6, <2>2, Stutters
<1> QED BY <1>10, <1>11

\* A branch of the source.
LEMMA GotoTakenTraced ==
  ASSUME InsInv, NEW lab, Traced(source, code, lab), TakeGoto
  PROVE  /\ Running' => Knows(source', code', lab, at', val')
         /\ [Checked!Next]_(Checked!vars)
<1> DEFINE h == Term.home
<1>1. /\ Term.op = "goto" /\ stage = "run" /\ outcome = "running" /\ at[2] = Len(Body) + 1
      /\ stage' = "run" /\ source' = source /\ code' = code /\ val' = val
  BY DEF TakeGoto, AtTerm, Running, passVars
<1>2. Len(Body) \in Nat /\ ~(Len(Body) + 1 <= Len(Body))
  BY BodyParts
<1>3. /\ AtSource = h /\ h = <<h[1], Len(source[h[1]].body) + 1>>
      /\ h[1] \in 1 .. Len(source) /\ Term.succ = source[h[1]].succ
  <2>1. /\ Placed(source, code, lab, at[1], at[2]) /\ AtSource = Item(code, at[1], at[2]).home
        /\ Item(code, at[1], at[2]) = Term
    BY <1>1, <1>2, RunPlaced
  <2>2. Stands(source, Term, <<h, lab[at[1]][at[2]]>>)
    BY <2>1 DEF Placed
  <2> QED BY <1>1, <2>1, <2>2 DEF Stands
<1>4. /\ Checked!Body = source[h[1]].body /\ AtSource[1] = h[1]
      /\ AtSource[2] = Len(Checked!Body) + 1
  BY <1>3 DEF Checked!Body
<1> HIDE DEF h
<1>5. CASE Term.succ = {}
  <2>1. outcome' = "returned" /\ at' = at
    BY <1>5 DEF TakeGoto
  <2>2. AtSource' = AtSource
    BY <1>1, <2>1 DEF AtSource, Body, Term
  <2>3. Checked!Return
    BY <1>1, <1>3, <1>4, <1>5, <2>1, <2>2 DEF Checked!Return
  <2> QED BY <2>1, <2>3 DEF Running, Checked!Next
<1>6. CASE Term.succ # {}
  <2>1. PICK b \in Term.succ : at' = <<b, 1>> /\ outcome' = outcome
    BY <1>6 DEF TakeGoto
  <2>2. b \in 1 .. Len(source)
    BY <1>1, GotoTargets
  <2> DEFINE p == <<<<b, 1>>, 1>>
  <2>3. Has(code, lab, b, 1, p) /\ ~IsExit(code, b)
    BY <2>2, Zenon DEF Traced, Starts
  <2>4. p[1] = <<b, 1>> /\ Behind(source, p, val)
    BY DEF Behind
  <2> HIDE DEF p
  <2>5. AtSource' = <<b, 1>> /\ Knows(source', code', lab, at', val)
    BY <1>1, <2>1, <2>3, <2>4, RunGoes
  <2>6. Checked!Branch
    BY <1>1, <1>3, <1>4, <2>1, <2>5 DEF Checked!Branch
  <2> QED BY <1>1, <2>5, <2>6 DEF Checked!Next
<1> QED BY <1>5, <1>6

\* Before the run, the pass may rewrite the code.
LEMMA RewriteTraced ==
  ASSUME stage # "run", stage' # "run", source' = source, val' = val, outcome' = outcome,
         NEW lab, Traced(source, code', lab),
         stage' = "split" \/ \A g \in GepsOf(code') : IsSimple(g)
  PROVE  TraceInv' /\ [Checked!Next]_(Checked!vars)
<1>1. AtSource' = AtSource
  BY DEF AtSource
<1>2. ~Running'
  BY DEF Running
<1> QED BY <1>1, <1>2, Stutters DEF TraceInv

LEMMA TraceInit == Init => TraceInv /\ Checked!Init
<1> SUFFICES ASSUME Init PROVE TraceInv /\ Checked!Init
  OBVIOUS
<1>1. source \in Programs /\ code = Original /\ stage = "split"
  BY DEF Init, Original
<1>2. Traced(source, code, Ones)
  BY <1>1, OriginalTraced
<1>3. TraceInv
  BY <1>1, <1>2 DEF TraceInv, Running
<1>4. Checked!Init
  BY <1>1 DEF Init, Checked!Init, AtSource
<1> QED BY <1>3, <1>4

LEMMA SplitTracedStep ==
  ASSUME InsInv, TraceInv, Split PROVE TraceInv' /\ [Checked!Next]_(Checked!vars)
<1>1. PICK p \in ToSplit(code) : code' = SplitAt(code, p[1], p[2])
  BY DEF Split
<1> DEFINE b == p[1]
           k == p[2]
<1>2. /\ source \in Programs /\ Len(source) \in Nat /\ code \in Seq(CodeBlocks)
      /\ Len(source) <= Len(code) /\ stage = "split"
  <2>1. source \in Programs /\ code \in Seq(CodeBlocks) /\ Len(code) = Len(source)
        /\ stage = "split"
    BY DEF InsInv, CodeInv, Structured, Split
  <2> QED BY <2>1, SourceParts
<1>3. IsGep(code, b, k) /\ ~IsSimple(code[b].body[k])
  <2>1. p \in Places(code) /\ code[b].body[k].op = "gep" /\ ~IsSimple(code[b].body[k])
    BY DEF ToSplit
  <2>2. b \in DOMAIN code /\ k \in DOMAIN code[b].body
    BY <2>1 DEF Places
  <2>3. b \in 1 .. Len(code)
    BY <1>2, <2>2, LenProperties
  <2>4. DOMAIN code[b].body = 1 .. Len(code[b].body)
    BY <1>2, <2>3, BlockParts
  <2> QED BY <2>1, <2>2, <2>3, <2>4 DEF IsGep
<1>4. PICK lab : Traced(source, code, lab)
  BY DEF TraceInv
<1> HIDE DEF b, k
<1>5. Traced(source, code', LabSplit(b, k, Len(SplitGep(code[b].body[k])), lab))
  <2>1. code' = SplitAt(code, b, k)
    BY <1>1 DEF b, k
  <2> QED BY <1>2, <1>3, <1>4, <2>1, SplitTraced
<1> DEFINE l == LabSplit(b, k, Len(SplitGep(code[b].body[k])), lab)
<1>6. Traced(source, code', l)
  BY <1>5
<1> HIDE DEF l
<1>7. stage' = "split" /\ source' = source /\ val' = val /\ outcome' = outcome
  BY <1>2 DEF Split, runVars
<1> QED BY <1>2, <1>6, <1>7, RewriteTraced

LEMMA CollectTracedStep ==
  ASSUME InsInv, TraceInv, Collect PROVE TraceInv' /\ [Checked!Next]_(Checked!vars)
<1>1. /\ stage = "split" /\ stage' = "insert" /\ ToSplit(code) = {} /\ source' = source
      /\ code' = code /\ val' = val /\ outcome' = outcome
  BY DEF Collect, runVars
<1>2. PICK lab : Traced(source, code, lab)
  BY DEF TraceInv
<1>3. ASSUME NEW g \in GepsOf(code) PROVE IsSimple(g)
  <2>0. PICK b \in DOMAIN code : \E k \in DOMAIN code[b].body : g = code[b].body[k]
    BY DEF GepsOf
  <2>1. PICK k \in DOMAIN code[b].body : b \in DOMAIN code /\ g = code[b].body[k]
    BY <2>0
  <2>2. <<b, k>> \in Places(code) /\ g.op = "gep"
    BY <2>1 DEF Places, GepsOf
  <2>3. <<b, k>>[1] = b /\ <<b, k>>[2] = k
    OBVIOUS
  <2> QED BY <1>1, <2>1, <2>2, <2>3 DEF ToSplit
<1> QED BY <1>1, <1>2, <1>3, RewriteTraced

LEMMA VisitTracedStep ==
  ASSUME InsInv, TraceInv, NEW g \in geps, Visit(g)
  PROVE  TraceInv' /\ [Checked!Next]_(Checked!vars)
<1>1. /\ source' = source /\ stage' = "insert" /\ stage = "insert"
      /\ val' = val /\ outcome' = outcome
  BY DEF Visit, runVars
<1>2. PICK lab : Traced(source, code, lab)
  BY DEF TraceInv
<1>3. \A h \in GepsOf(code) : IsSimple(h)
  BY <1>1 DEF TraceInv
<1>4. CASE Upper(g) = {}
  <2>1. code' = code
    BY <1>4 DEF Visit
  <2> QED BY <1>1, <1>2, <1>3, <2>1, RewriteTraced
<1>5. CASE Upper(g) # {}
  <2>1. PICK u \in Upper(g), b \in DOMAIN code : \E k \in DOMAIN code[b].body :
          code[b].body[k] = g /\ code' = InsertBoundCheck(code, b, k, g, Const(0), u)
    BY <1>5 DEF Visit
  <2>2. PICK k \in DOMAIN code[b].body :
          code[b].body[k] = g /\ code' = InsertBoundCheck(code, b, k, g, Const(0), u)
    BY <2>1
  <2>3. /\ source \in Programs /\ Structured(code) /\ Distinct(code) /\ Indexed(code)
        /\ code \in Seq(CodeBlocks) /\ Len(source) \in Nat /\ Len(source) <= Len(code)
    <3>1. source \in Programs /\ Structured(code) /\ Distinct(code) /\ Indexed(code)
      BY DEF InsInv, CodeInv
    <3>2. Len(code) \in Nat /\ Len(source) \in Nat /\ Len(code) >= Len(source)
      BY <3>1, SourceParts, LenProperties DEF Structured
    <3> QED BY <3>1, <3>2 DEF Structured
  <2>4. g \in GepsOf(code) /\ g.op = "gep"
    BY DEF InsInv, CodeInv, GepsOf
  <2>5. IsGep(code, b, k)
    <3>1. b \in 1 .. Len(code)
      BY <2>2, <2>3, LenProperties
    <3>2. k \in 1 .. Len(code[b].body)
      BY <2>2, <2>3, <3>1, BlockParts
    <3> QED BY <2>2, <2>4, <3>1, <3>2 DEF IsGep
  <2>6. ~IsExit(code, b)
    <3>1. b \in 1 .. Len(code) /\ k \in 1 .. Len(code[b].body) /\ code[b].body[k].op # "exit"
      BY <2>2, <2>4, <2>5 DEF IsGep
    <3> QED BY <2>3, <3>1, NotExit
  <2>7. u \in Upper(code[b].body[k]) /\ IsSimple(code[b].body[k])
    BY <1>3, <2>2, <2>4
  <2>8. \E l : Traced(source, InsertBoundCheck(code, b, k, code[b].body[k], Const(0), u), l)
    BY <1>2, <2>3, <2>5, <2>6, <2>7, CheckTraced
  <2>9. PICK l : Traced(source, code', l)
    BY <2>2, <2>8
  <2>10. GepsOf(code') = GepsOf(code)
    <3>1. LET d == InsertBoundCheck(code, b, k, code[b].body[k], Const(0), u)
          IN  /\ Structured(d) /\ Distinct(d) /\ Indexed(d)
              /\ GepsOf(d) = GepsOf(code) /\ Len(d) > Len(code)
              /\ \A h : h # code[b].body[k] /\ Guarded(code, h) => Guarded(d, h)
      BY <2>3, <2>5, <2>7, CheckKeeps
    <3> QED BY <2>2, <3>1
  <2> QED BY <1>1, <1>3, <2>9, <2>10, RewriteTraced
<1> QED BY <1>4, <1>5

LEMMA InsertedTracedStep ==
  ASSUME InsInv, TraceInv, Inserted PROVE TraceInv' /\ [Checked!Next]_(Checked!vars)
<1>1. /\ stage = "insert" /\ stage' = "run" /\ source' = source /\ code' = code
      /\ at' = at /\ val' = val /\ outcome' = outcome
  BY DEF Inserted, runVars
<1>2. PICK lab : Traced(source, code, lab)
  BY DEF TraceInv
<1>3. at = <<1, 1>> /\ source \in Programs
  BY <1>1 DEF InsInv, AtInv, CodeInv
<1> DEFINE p == <<<<1, 1>>, 1>>
<1>4. 1 \in 1 .. Len(source)
  BY <1>3, SourceParts
<1>5. Has(code, lab, 1, 1, p) /\ ~IsExit(code, 1)
  BY <1>2, <1>4, Zenon DEF Traced, Starts
<1>6. p[1] = <<1, 1>> /\ \A v : Behind(source, p, v)
  BY DEF Behind
<1> HIDE DEF p
<1>7. AtSource' = <<1, 1>> /\ Knows(source', code', lab, at', val')
  BY <1>1, <1>3, <1>5, <1>6, RunGoes
<1>8. AtSource = <<1, 1>>
  BY <1>1 DEF AtSource
<1>9. TraceInv'
  BY <1>1, <1>2, <1>7 DEF TraceInv
<1> QED BY <1>1, <1>7, <1>8, <1>9, Stutters

LEMMA TraceStep ==
  ASSUME InsInv, RunInv, TraceInv, AllBoundsFound, [Next]_vars
  PROVE  TraceInv' /\ [Checked!Next]_(Checked!vars)
<1>1. CASE Split
  BY <1>1, SplitTracedStep
<1>2. CASE Collect
  BY <1>2, CollectTracedStep
<1>3. CASE \E g \in geps : Visit(g)
  BY <1>3, VisitTracedStep
<1>4. CASE Inserted
  BY <1>4, InsertedTracedStep
<1>5. CASE Execute \/ TakeCheck \/ TakeGoto
  <2>1. Running /\ stage = "run" /\ stage' = stage /\ source' = source /\ code' = code
    BY <1>5 DEF Execute, TakeCheck, TakeGoto, AtTerm, Running, passVars
  <2>2. \A g \in GepsOf(code) : IsSimple(g)
    BY <2>1 DEF TraceInv
  <2>3. PICK lab : Traced(source, code, lab) /\ Knows(source, code, lab, at, val)
    BY <2>1 DEF TraceInv
  <2>4. /\ Running' => Knows(source', code', lab, at', val')
        /\ [Checked!Next]_(Checked!vars)
    <3>1. CASE Execute
      BY <2>2, <2>3, <3>1, ExecuteTraced
    <3>2. CASE TakeCheck
      BY <2>3, <3>2, CheckTakenTraced
    <3>3. CASE TakeGoto
      BY <2>3, <3>3, GotoTakenTraced
    <3> QED BY <1>5, <3>1, <3>2, <3>3
  <2> QED BY <2>1, <2>2, <2>3, <2>4 DEF TraceInv
<1>6. CASE UNCHANGED vars
  <2>1. UNCHANGED <<source, stage, code, at, val, outcome>>
    BY <1>6 DEF vars, passVars, runVars
  <2>2. AtSource' = AtSource
    BY <2>1 DEF AtSource, Body, Term
  <2>3. TraceInv'
    BY <2>1 DEF TraceInv, Running
  <2> QED BY <2>1, <2>2, <2>3, Stutters
<1> QED BY <1>1, <1>2, <1>3, <1>4, <1>5, <1>6 DEF Next

\* Where the pass can find the bounds of all accesses, the function runs as its
\* source says and stops before the first access outside of a declared array, in
\* whatever order the geps were split and visited (AbcInserter.cpp:14-158).
THEOREM RunsAreChecked == ASSUME AllBoundsFound PROVE Spec => RunsChecked
<1>1. Init => TraceInv /\ Checked!Init
  BY TraceInit
<1>2. InsInv /\ RunInv /\ TraceInv /\ [Next]_vars => TraceInv' /\ [Checked!Next]_(Checked!vars)
  BY TraceStep
<1> QED
  BY <1>1, <1>2, InsInvHolds, RunInvHolds, PTL DEF Spec, RunsChecked, Checked!Spec

\* The run is at the start of the block of an exit until it exits, which is for
\* an access out of bounds.
ExitInv ==
  /\ Running /\ IsExit(code, at[1]) => at[2] = 1
  /\ outcome = "exited" => ~InBounds(val, SourceItem(source, Body[1].home))

LEMMA ExitStep ==
  ASSUME InsInv, TraceInv, ExitInv, AllBoundsFound, [Next]_vars
  PROVE  ExitInv'
<1>1. CASE stage # "run"
  <2>1. outcome = "running" /\ at = <<1, 1>>
    BY <1>1 DEF InsInv, AtInv
  <2>2. outcome' = outcome /\ at' = at
    BY <1>1 DEF Next, vars, runVars, Split, Collect, Visit, Inserted, Execute,
       TakeCheck, TakeGoto, AtTerm, Running
  <2> QED BY <2>1, <2>2 DEF ExitInv
<1>2. CASE stage = "run" /\ UNCHANGED <<passVars, runVars>>
  BY <1>2 DEF ExitInv, Running, Body, passVars, runVars
<1>3. CASE TakeCheck \/ TakeGoto
  <2>1. outcome = "running" /\ (outcome' = "returned" \/ at'[2] = 1) /\ outcome' # "exited"
    BY <1>3 DEF TakeCheck, TakeGoto, AtTerm, Running
  <2> QED BY <2>1 DEF ExitInv, Running
<1>4. CASE Execute
  <2>1. /\ Running /\ source' = source /\ code' = code /\ at' = <<at[1], at[2] + 1>>
        /\ at[2] \in 1 .. Len(Body) /\ stage = "run"
    BY <1>4, BodyParts DEF Execute, Running, passVars
  <2>2. at'[1] = at[1] /\ Body' = Body
    BY <2>1 DEF Body
  <2>3. CASE Body[at[2]].op = "exit"
    <3>1. outcome' = "exited" /\ val' = val
      BY <1>4, <2>3 DEF Execute
    <3>2. PICK lab : Traced(source, code, lab) /\ Knows(source, code, lab, at, val)
      BY <2>1 DEF TraceInv
    <3> DEFINE h == Body[at[2]].home
               i == lab[at[1]][at[2]]
    <3>3. /\ Item(code, at[1], at[2]) = Body[at[2]] /\ IsExit(code, at[1])
          /\ Stands(source, Body[at[2]], <<h, i>>)
      <4>1. at[2] <= Len(Body)
        BY <2>1
      <4>2. /\ Placed(source, code, lab, at[1], at[2])
            /\ Item(code, at[1], at[2]) = Body[at[2]]
        BY <3>2, <4>1, RunPlaced
      <4> QED BY <2>3, <4>2 DEF Placed
    <3>4. SourceGep(source, h) /\ Fails(source, <<h, 1>>, val)
      BY <2>3, <3>2, <3>3 DEF Stands, Knows, Fails
    <3>5. ~InBounds(val, SourceItem(source, h))
      BY <3>4, AccessInBounds DEF InsInv, CodeInv
    <3>6. at[2] = 1
      BY <2>1, <3>3 DEF ExitInv
    <3> QED BY <2>1, <2>2, <3>1, <3>5, <3>6 DEF ExitInv, Running
  <2>4. CASE Body[at[2]].op # "exit"
    <3>1. outcome' = "running"
      BY <1>4, <2>4 DEF Execute, Running
    <3>2. ~IsExit(code, at[1])
      <4>1. Structured(code)
        BY DEF InsInv, CodeInv
      <4>2. Body = code[at[1]].body /\ at[1] \in 1 .. Len(code)
        BY BodyParts
      <4> QED BY <2>1, <2>4, <4>1, <4>2, NotExit
    <3> QED BY <2>1, <2>2, <3>1, <3>2 DEF ExitInv, IsExit
  <2> QED BY <2>3, <2>4
<1>5. stage = "run" => Execute \/ TakeCheck \/ TakeGoto \/ UNCHANGED <<passVars, runVars>>
  BY DEF Next, vars, Split, Collect, Visit, Inserted
<1> QED BY <1>1, <1>2, <1>3, <1>4, <1>5

\* With those bounds the function exits only if an index is outside of the
\* declared bound of its array, as assignment.md:9 asks; the run inserter_rows shows
\* that it is not so for others (AbcInserter.cpp:20-158).
THEOREM ExitsAreOutOfBounds == ASSUME AllBoundsFound PROVE Spec => []ExitsOnlyOutOfBounds
<1>1. Init => TraceInv /\ ExitInv
  <2>1. Init => ExitInv
    BY DEF Init, ExitInv, Running
  <2> QED BY <2>1, TraceInit
<1>2. /\ InsInv /\ RunInv /\ TraceInv /\ ExitInv /\ [Next]_vars
      => TraceInv' /\ ExitInv'
  BY TraceStep, ExitStep
<1>3. ExitInv => ExitsOnlyOutOfBounds
  BY DEF ExitInv, ExitsOnlyOutOfBounds, SourceItem
<1> QED
  BY <1>1, <1>2, <1>3, InsInvHolds, RunInvHolds, PTL DEF Spec
=============================================================================
