---------------------------- MODULE ArrayProgram ----------------------------
(***************************************************************************)
(* Functions that access arrays, as the insertion pass sees them: blocks   *)
(* of loads and getelementptr instructions.                                *)
(*                                                                         *)
(* An operand is a variable or a constant.  A gep steps from its base      *)
(* through one type for each index: the first index moves the base         *)
(* pointer, and index k + 1 selects within types[k], the type that the     *)
(* first k indices lead to.  The base may be a variable length array: a    *)
(* bitcast of an alloca whose size is a product, of which the code sees    *)
(* the two factors; length is the number of its elements, and same says    *)
(* whether the second factor, if it is a variable, is an instruction (an   *)
(* argument of the function is not) of the type of the index.              *)
(***************************************************************************)
EXTENDS Integers, Sequences

CONSTANTS Vars, Ints

Const(n) == [const |-> n]
Var(v)   == [var |-> v]

Operands == [const : Int] \cup [var : Vars]

IsConst(o) == "const" \in DOMAIN o

Array(n) == [kind |-> "array", n |-> n]
Struct   == [kind |-> "struct"]
IntType  == [kind |-> "int"]
Other    == [kind |-> "other"]

Plain == [kind |-> "plain"]
Vla(ops, length, same) ==
  [kind |-> "vla", ops |-> ops, length |-> length, same |-> same]

\* home is the place of the instruction in the source, n tells apart the geps
\* that one gep of the source is split into.
Load(home, var) == [op |-> "load", home |-> home, var |-> var]
Gep(home, n, base, idx, types) ==
  [op |-> "gep", home |-> home, n |-> n, base |-> base, idx |-> idx, types |-> types]

EvalIn(val, o) == IF IsConst(o) THEN o.const ELSE val[o.var]

Bases == {Plain} \cup [kind : {"vla"}, ops : Operands \X Operands,
                       length : Operands, same : BOOLEAN]
Types == {Struct, IntType, Other} \cup [kind : {"array"}, n : Nat]

Loads == [op : {"load"}, home : Nat \X Nat, var : Vars]
Geps  == [op : {"gep"}, home : Nat \X Nat, n : Nat, base : Bases,
          idx : Seq(Operands), types : Seq(Types)]

\* A function: its blocks, the first of which is the entry.  An instruction is
\* at home; a gep has an index, and a type for each.
IsFunction(p) ==
  /\ p \in Seq([body : Seq(Loads \cup Geps), succ : SUBSET Nat])
  /\ p # << >>
  /\ \A b \in DOMAIN p :
       /\ p[b].succ \subseteq DOMAIN p
       /\ \A k \in DOMAIN p[b].body :
            /\ p[b].body[k].home = <<b, k>>
            /\ p[b].body[k].op = "gep" =>
                 p[b].body[k].idx # << >> /\ Len(p[b].body[k].types) = Len(p[b].body[k].idx)

\* The indices of g that select within an array of declared length, each with
\* that length.  An index of another type than the length of its variable length
\* array is left alone.
Declared(g) ==
  {[index |-> g.idx[k + 1], length |-> Const(g.types[k].n)] :
     k \in {j \in 1 .. Len(g.idx) - 1 : g.types[j].kind = "array"}}
  \cup (IF g.base.kind # "vla" THEN {}
        ELSE IF ~g.base.same THEN {}
        ELSE {[index |-> g.idx[1], length |-> g.base.length]})

InBounds(val, g) ==
  \A d \in Declared(g) : 0 <= EvalIn(val, d.index) /\ EvalIn(val, d.index) < EvalIn(val, d.length)
=============================================================================
