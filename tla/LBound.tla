------------------------------- MODULE LBound -------------------------------
(***************************************************************************)
(* The value layer of the removal pass: LLVM's APInt as the prover uses    *)
(* it, the Integer option type, and LBound, the memo cell that keeps, for  *)
(* one pair (a, b), the bounds c for which "b - a <= c" has been answered. *)
(*                                                                         *)
(* SignBit is 2^(w-1) for the width w of the prover's APInts.  The removal *)
(* pass builds every one of them as APInt(1, ...), so its SignBit is 1 and *)
(* the only representable bounds are 0 and -1.  WideSignBit is 2^(w-1) for *)
(* the width w of the integers of the program under optimisation.          *)
(***************************************************************************)
EXTENDS Integers

CONSTANTS SignBit, WideSignBit

ASSUME SignBitAssumption     == SignBit \in Nat \ {0}
ASSUME WideSignBitAssumption == WideSignBit \in Nat /\ SignBit <= WideSignBit

(***************************************************************************)
(* APInt: two's complement integers, read as signed.                       *)
(***************************************************************************)
APInts   == -SignBit .. SignBit - 1
WideInts == -WideSignBit .. WideSignBit - 1

\* n modulo 2s, in -s .. s-1, for an n that one operation took out of it.
WrapAt(s, n) == IF n < -s THEN n + 2 * s ELSE IF n >= s THEN n - 2 * s ELSE n

\* Mutant of Sub: the machine integers do not wrap.
SubUnbounded(x, y) == x - y

Sub(x, y)     == WrapAt(SignBit, x - y)
WideSub(x, y) == WrapAt(WideSignBit, x - y)

\* APInt::slt sign-extends both raw words at the width of its LEFT operand,
\* and eq compares them raw: a negative bound c of the prover's width, next to
\* a wider constant, is read as the unsigned value of its bits.
Reread(c) == WrapAt(WideSignBit, IF c < 0 THEN c + 2 * SignBit ELSE c)

(***************************************************************************)
(* Integer, an option: {} for none, {v} for some(v).                       *)
(***************************************************************************)
Options == {{}} \cup {{v} : v \in APInts}

(***************************************************************************)
(* LBound: for each kind of answer the extreme bound that received it.     *)
(***************************************************************************)
Proven  == {"TRUE", "REDUCED", "FALSE"}
L       == Proven \cup {"NULL"}
LBounds == [Proven -> Options]

Cleared == [l \in Proven |-> {}]

\* Mutant of BoundGet: the comparison with iTrue is the wrong way round.
BoundGetReversed(bound, c) ==
  IF \E t \in bound["TRUE"] : t >= c THEN "TRUE"
  ELSE IF \E f \in bound["FALSE"] : f >= c THEN "FALSE"
  ELSE IF \E r \in bound["REDUCED"] : r <= c THEN "REDUCED"
  ELSE "NULL"

\* Mutant of BoundGet: iFalse is looked at before iTrue.
BoundGetFalseFirst(bound, c) ==
  IF \E f \in bound["FALSE"] : f >= c THEN "FALSE"
  ELSE IF \E t \in bound["TRUE"] : t <= c THEN "TRUE"
  ELSE IF \E r \in bound["REDUCED"] : r <= c THEN "REDUCED"
  ELSE "NULL"

\* LBound::get(APInt): the answer the cell holds for the bound c.
BoundGet(bound, c) ==
  IF \E t \in bound["TRUE"] : t <= c THEN "TRUE"
  ELSE IF \E f \in bound["FALSE"] : f >= c THEN "FALSE"
  ELSE IF \E r \in bound["REDUCED"] : r <= c THEN "REDUCED"
  ELSE "NULL"

Higher(x, y) == IF x < y THEN y ELSE x
Lower(x, y)  == IF x > y THEN y ELSE x

\* For false the largest bound says most, for true and reduced the smallest.
StrongerBound(l, old, c) ==
  IF old = {} THEN {c}
  ELSE {IF l = "FALSE" THEN Higher(v, c) ELSE Lower(v, c) : v \in old}

\* Mutant of WeakerBound: an unset field takes the new bound.
WeakerBoundOfNone(l, old, c) ==
  IF old = {} THEN {c}
  ELSE {IF l = "FALSE" THEN Lower(v, c) ELSE Higher(v, c) : v \in old}

\* Nothing is weaker than nothing: an unset field stays unset.
WeakerBound(l, old, c) ==
  {IF l = "FALSE" THEN Lower(v, c) ELSE Higher(v, c) : v \in old}

\* Mutant of Strengthen: the newest answer replaces the whole cell.
StrengthenReset(bound, l, c) ==
  IF l = "NULL" THEN bound ELSE [Cleared EXCEPT ![l] = StrongerBound(l, bound[l], c)]

\* LBound::modify: fold the answer l for the bound c into the cell.
Strengthen(bound, l, c) ==
  IF l = "NULL" THEN bound ELSE [bound EXCEPT ![l] = StrongerBound(l, @, c)]

Weaken(bound, l, c) ==
  IF l = "NULL" THEN Cleared ELSE [bound EXCEPT ![l] = WeakerBound(l, @, c)]

Modify(bound, strengthen, l, c) ==
  IF strengthen THEN Strengthen(bound, l, c) ELSE Weaken(bound, l, c)
=============================================================================
