--------------------------- MODULE MCAbcInserter ---------------------------
(***************************************************************************)
(* Functions of two accesses, in a row or in a loop.                       *)
(***************************************************************************)
EXTENDS AbcInserter

CONSTANTS x, y, n

MCInts == -1 .. 2

X == Var(x)
Y == Var(y)

\* An access is [base, idx, types]; At puts it at a place of the source.
Acc(base, idx, types) == [base |-> base, idx |-> idx, types |-> types]
At(home, a) == Gep(home, 1, a.base, a.idx, a.types)

Ptr == Const(0)

V(same) == Vla(<<Const(4), Var(n)>>, Var(n), same)

Accesses ==
  { Acc(Plain, <<Ptr, X>>, <<Array(2), IntType>>),                       \* a[x]
    Acc(Plain, <<Ptr, X, Y>>, <<Array(2), Array(1), IntType>>),          \* a[x][y]
    Acc(Plain, <<Ptr, Const(1), Y>>, <<Struct, Array(2), IntType>>),     \* s.a[y]
    Acc(Plain, <<X, Const(0), Y>>, <<Struct, Array(2), IntType>>),       \* p[x].a[y]
    Acc(Plain, <<X>>, <<IntType>>),                                      \* p[x]
    Acc(Plain, <<X>>, <<Other>>),
    Acc(V(TRUE), <<Y>>, <<IntType>>),                                    \* v[y]
    Acc(V(FALSE), <<Const(1)>>, <<IntType>>) }                           \* v[1]

Straight(first, second) ==
  << [body |-> <<Load(<<1, 1>>, x), At(<<1, 2>>, first), At(<<1, 3>>, second)>>,
      succ |-> {}] >>

Loop(first, second) ==
  << [body |-> << >>, succ |-> {2}],
     [body |-> <<At(<<2, 1>>, first), Load(<<2, 2>>, y), At(<<2, 3>>, second)>>,
      succ |-> {2, 3}],
     [body |-> << >>, succ |-> {}] >>

MCPrograms ==
  {Straight(a1, a2) : a1 \in Accesses, a2 \in Accesses}
    \cup {Loop(a1, a2) : a1 \in Accesses, a2 \in Accesses}

ASSUME MCBoundsFound ==
  \A p \in MCPrograms : \A b \in DOMAIN p : \A k \in DOMAIN p[b].body :
    p[b].body[k].op = "gep" => BoundsFound(p[b].body[k])

\* p[x][y], where p points to an array of two.
RowPrograms ==
  {Straight(a, a) : a \in {Acc(Plain, <<X, Ptr, Y>>, <<Array(2), Array(2), IntType>>),
                           Acc(Plain, <<X, Y>>, <<Array(2), IntType>>)}}
=============================================================================
