--------------------------------- MODULE MCCode -------------------------------
(* Words of four bits and bytes of two; x and y are words at file scope, b *)
(* a byte, a an array of two; F is recursive, with two parameters and a    *)
(* local.  Programs of every shape of statement in every other; every      *)
(* operator but "/" and the shifts on the words at the ends of the range;  *)
(* and "/" of all words neither of which is negative, the divisor not 0.   *)
(* __plsw_div subtracts until a signed compare says the rest is less, so   *)
(* it divides no others: NegativeDividends and NegativeDivisors have some  *)
(* of the rest, and on a divisor of 0 it never ends.                       *)
EXTENDS CodeRun

MCStatics == {"x", "y", "b"}
MCByteVars == {"b"}
MCArrays == {"a"}
MCDim == 2
None == {}
Wide == {"x"}

Lit(v) == [k |-> "lit", v |-> v]
Var(x) == [k |-> "var", x |-> x]
Elem(i) == [k |-> "elem", a |-> "a", i |-> i]
Bin(op, l, r) == [k |-> "bin", op |-> op, l |-> l, r |-> r]
Un(op, e) == [k |-> "un", op |-> op, e |-> e]
F(l, r) == [k |-> "call", p |-> "F", args |-> <<l, r>>]
G == [k |-> "call", p |-> "G", args |-> <<>>]

Set(x, e) == [k |-> "assign", l |-> Var(x), e |-> e]
SetElem(i, e) == [k |-> "assign", l |-> Elem(i), e |-> e]
If(c, t, e) == [k |-> "if", c |-> c, t |-> t, e |-> e]
When(c, b) == [c |-> c, b |-> b]
Select2(whens, o) == [k |-> "select", whens |-> whens, o |-> o]
While(c, b) == [k |-> "while", c |-> c, b |-> b]
DoTo(x, from, to, b) == [k |-> "count", x |-> x, from |-> from, to |-> to, b |-> b]
Block(ss) == [k |-> "block", ss |-> ss]
Return(e) == [k |-> "return", e |-> e]

(* F(p, q) = p + q, by recursion; G sets y and returns without a value.    *)
BodyF == Block(<<If(Bin("<=", Var("q"), Lit(0)), Return(Var("p")), Nothing),
                 Set("l", Bin("-", Var("q"), Lit(1))),
                 Set("p", Bin("+", Lit(1), F(Var("p"), Var("l")))),
                 Return(Var("p"))>>)
BodyG == Block(<<Set("y", Bin("+", Var("y"), Lit(3))), Return(Nothing), Set("y", Lit(0))>>)
Program(body) ==
  [P |-> [MAIN |-> [params |-> <<>>, locals |-> <<"i">>, body |-> body],
          F |-> [params |-> <<"p", "q">>, locals |-> <<"l">>, body |-> BodyF],
          G |-> [params |-> <<>>, locals |-> <<>>, body |-> BodyG]],
   order |-> <<"MAIN", "F", "G">>]

Ends4 == {0 - 8, 0 - 1, 0, 1, 2, 7}
Operators == {"+", "-", "*", "&", "|", "^", "=", "!=", "<", ">", "<=", ">="}
Operands == {<<u, v>> \in Ends4 \X Ends4 : TRUE}
Calc(u, v, e) == Program(Block(<<Set("x", Lit(u)), Set("b", Lit(v)), Set("y", Lit(v)), Set("x", e)>>))
(* The divisor is simple, the result of an expression, or a byte.          *)
Quotients ==
  {Calc(u, v, Bin("/", Var("x"), Var("y"))) : u \in 0..7, v \in 1..7}
  \cup {Calc(u, v, Bin("/", Var("x"), Bin("-", Var("y"), Lit(1)))) : u \in 0..7, v \in {2, 3, 7}}
  \cup {Calc(u, v, Bin("/", Var("x"), Var("b"))) : u \in 0..7, v \in {0 - 1, 1, 2, 7}}
Sums ==
  {Calc(u[1], u[2], Bin(op, Var("x"), r)) :
     u \in Operands, op \in Operators, r \in {Var("y"), Bin("-", Var("y"), Lit(1)), Var("b")}}
  \cup {Calc(u[1], u[2], Un(op, Var("x"))) : u \in Operands, op \in {"-", "~"}}
  \cup Quotients

Conds == {Bin("<", Var("x"), Lit(2)), Bin("=", Var("b"), Lit(1)), Bin("AND", Bin(">", F(Var("x"), Var("b")), Lit(1)), Lit(1)),
          Lit(0), Lit(5)}
Simples == {Set("x", Bin("+", Var("x"), Lit(1))), Set("b", Bin("-", F(Var("b"), Lit(1)), Bin("*", Var("x"), Lit(2)))), G,
          SetElem(Bin("&", Var("x"), Lit(1)), Bin("+", Elem(Lit(0)), Lit(1))), Return(Nothing)}
Few == {Set("x", Bin("+", Var("x"), Lit(1))), Set("b", F(Var("b"), Lit(1))), Return(Nothing)}
Inner ==
  Simples
  \cup {If(c, s, t) : c \in Conds, s \in Few, t \in Few \cup {Nothing}}
  \cup {If(Bin("=", Var("x"), Lit(7)), s, If(c, s, t)) : c \in Conds, s \in Few, t \in {G, Nothing}}
  \cup {Select2(<<When(Bin("=", Var("x"), Lit(0)), s), When(c, t)>>, o) : c \in Conds, s \in Few, t \in Few, o \in {G, Nothing}}
  \cup {Select2(<<>>, Nothing)}
  \cup {DoTo("i", Lit(u), Lit(v), s) : u \in {0, 5}, v \in {1, 6}, s \in Few}
Around(s) ==
  {Block(<<s, Set("x", Bin("+", Var("x"), Lit(2))), s>>),
   If(Bin("!=", Var("x"), Lit(0)), G, s),
   Block(<<If(Lit(1), s, Nothing), G>>),
   While(Bin("<", Var("x"), Lit(3)), Block(<<s, Set("x", Bin("+", Var("x"), Lit(1)))>>)),
   DoTo("b", Lit(1), Bin("+", Var("x"), Lit(2)), s),
   DoTo("i", Lit(6), Lit(5), s)}
Shapes == UNION {{Program(Block(<<Set("y", Lit(1)), s>>)) : s \in Around(t)} : t \in Inner}

MCPrograms == Sums \cup Shapes
NegativeDividends ==
  {Calc(u, v, Bin("/", Var("x"), Var("y"))) : u \in {0 - 8, 0 - 7, 0 - 2, 0 - 1}, v \in {1, 2, 7}}
NegativeDivisors ==
  {Calc(u, v, Bin("/", Var("x"), Var("y"))) : u \in {0, 1, 7}, v \in {0 - 8, 0 - 2, 0 - 1}}
Negations == {Program(Block(<<If(Un("NOT", Bin("=", Var("x"), Lit(0))), G, Nothing)>>))}
Conjunctions == {Program(Block(<<If(Bin("AND", Lit(1), Lit(2)), G, Nothing)>>))}
Unsigneds == {Program(Block(<<Set("x", Lit(0 - 1)), If(Bin(">", Var("x"), Lit(1)), G, Nothing)>>))}
UnsignedQuotients == {Calc(0 - 1, 2, Bin("/", Var("x"), Var("y")))}
=============================================================================
