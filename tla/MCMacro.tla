-------------------------------- MODULE MCMacro -------------------------------
(* One macro of every small shape, and macros that invoke others, at every *)
(* kind of place in a procedure, with and without its clause.              *)
EXTENDS Macro

MCNesting == 4

S(x) == [k |-> "plain", ts |-> <<W(x)>>]
Use(c) == [k |-> "plain", ts |-> <<W("x"), W("="), W(c)>>]
UseHole(c) == [k |-> "plain", ts |-> <<W("x"), W("="), Hole(c)>>]
Quote(x) == [k |-> "plain", ts |-> <<W("y"), W("="), Str(<<W(x)>>)>>]
If(c, t, e) == [k |-> "if", c |-> <<W(c)>>, t |-> t, e |-> e]
Do(ss) == [k |-> "do", ss |-> ss]
Sel(c, ss) == [k |-> "select", c |-> <<W(c)>>, ss |-> ss]
Inv(m, args) == [k |-> "inv", m |-> m, args |-> args]
Def(name, clauses, gen, body) == [name |-> name, clauses |-> clauses, gen |-> gen, body |-> body]
Program(defs, body) == [defs |-> defs, body |-> body]

Ld(c) == <<W("lc"), Hole(c)>>
Nop == <<W("nop"), W("V")>>

ClauseLists == {<<>>, <<<<"REQUIRED", "V">>>>, <<<<"OPTIONAL", "V">>>>, <<<<"REQUIRED", "V">>, <<"OPTIONAL", "U">>>>}
Gens == {<<>>, <<<<Ld("V")>>>>, <<<<Nop, Ld("U")>>, <<Ld("V")>>>>}
Bodies == {<<>>, <<S("a")>>, <<Use("V")>>, <<S("a"), UseHole("V"), Use("U")>>,
           <<Do(<<S("a"), Do(<<Use("V")>>), S("b")>>)>>,
           <<If("V", Do(<<S("a"), S("b")>>), S("e")), S("f")>>,
           <<If("V", S("a"), If("d", S("b"), S("e")))>>}
ArgLists == {<<>>, <<<<"V", <<W("7")>>>>>>, <<<<"V", <<W("p"), W("+"), W("q")>>>>>>,
             <<<<"V", <<W("ADDR"), W("("), W("p"), W(")")>>>>>>,
             <<<<"U", <<W("U")>>>>, <<"V", <<W("U")>>>>>>, <<<<"T", <<W("7")>>>>>>}

(* A macro whose expansion is one statement may stand after THEN or ELSE.  *)
Single(d) == Len(FlattenSeq(d.gen)) + Len(d.body) = 1
Blocks(i) ==
  {<<i>>, <<S("r"), i, S("s")>>, <<Do(<<i, S("r")>>), S("s")>>, <<If("c", Do(<<i>>), Do(<<S("r"), i>>)), S("s")>>,
   <<Sel("c", <<i, S("r")>>), i>>}
Branches(i) == {<<If("c", i, S("r")), S("s")>>, <<If("c", S("r"), If("d", i, i)), S("s")>>, <<If("c", If("d", S("r"), i), i)>>}
Places(d, i) == Blocks(i) \cup (IF Single(d) THEN Branches(i) ELSE {})

OneMacro ==
  UNION {{Program(<<d>>, b) : b \in Places(d, Inv("M", a))} :
           d \in {Def("M", c, g, b) : c \in ClauseLists, g \in Gens, b \in Bodies}, a \in ArgLists}

(* M's clause is V; N, whose own is P, ends with an invocation of M; R     *)
(* invokes itself; C1 to C4 are a chain as deep as the include stack.      *)
M == Def("M", <<<<"REQUIRED", "V">>>>, <<<<Ld("V")>>>>, <<Use("V"), S("a")>>)
N(body) == Def("N", <<<<"REQUIRED", "P">>>>, <<>>, body)
ToM == Inv("M", <<<<"V", <<W("P")>>>>>>)
R(body) == Def("R", <<>>, <<>>, body)
Chain(j, last) == Def("C" \o ToString(j), <<>>, <<>>, IF j = 4 THEN last ELSE <<S("a"), Inv("C" \o ToString(j + 1), <<>>)>>)
TwoMacros ==
  UNION {{Program(<<N(b), M>>, p), Program(<<M, N(b)>>, p)} :
           b \in {<<ToM>>, <<S("b"), ToM>>, <<If("P", S("b"), S("e")), ToM>>},
           p \in Blocks(Inv("N", <<<<"P", <<W("7")>>>>>>)) \cup {<<Inv("N", <<<<"P", <<W("7")>>>>>>), Inv("L", <<>>)>>}}
Recursions == UNION {{Program(<<R(b)>>, p) : p \in Blocks(Inv("R", <<>>))} : b \in {<<Inv("R", <<>>)>>, <<S("a"), Inv("R", <<>>)>>}}
Chains == {Program([j \in 1 .. 4 |-> Chain(j, last)], <<Inv("C1", <<>>), S("s")>>) : last \in {<<S("b")>>, <<Inv("C4", <<>>)>>}}
Limits ==
  {Program(<<M, N(<<ToM>>), R(<<>>), Def("L", <<>>, <<>>, <<>>)>> \o more, <<S("a")>>) : more \in {<<>>, <<Def("K", <<>>, <<>>, <<>>)>>}}
  \cup {Program(<<Def("M", c, g, <<>>)>>, <<S("a")>>) :
          c \in {[j \in 1 .. n |-> <<"OPTIONAL", <<"V", "U", "T", "S">>[j]>>] : n \in 3 .. 4},
          g \in {[j \in 1 .. n |-> [i \in 1 .. l |-> Ld("V")]] : n \in 2 .. 3, l \in 3 .. 4}}
  \cup {Program(<<Def("M", <<>>, <<>>, <<S("a"), [k |-> "plain", ts |-> <<>>]>>)>>, b) :
          b \in Blocks(Inv("M", <<>>)) \cup {<<If("c", [k |-> "plain", ts |-> <<>>], S("a"))>>}}

MCPrograms == OneMacro \cup TwoMacros \cup Recursions \cup Chains \cup Limits

Call(p) == [k |-> "plain", ts |-> <<W("CALL"), W(p)>>]
NestedPrograms == {Program(<<Def("N", <<>>, <<>>, <<Inv("M", <<>>), Call("K")>>),
                             Def("M", <<>>, <<>>, <<Call("G"), Call("H")>>)>>, <<Inv("N", <<>>)>>)}
SelectPrograms == {Program(<<Def("M", <<>>, <<>>, <<Sel("c", <<S("a")>>), S("b")>>)>>, <<Inv("M", <<>>)>>)}
LinePrograms == {Program(<<Def("M", <<>>, <<<<Nop, Ld("V")>>>>, <<>>)>>, <<If("c", Inv("M", <<>>), None)>>)}
StringPrograms == {Program(<<Def("M", <<>>, <<>>, <<Quote("a")>>)>>, <<Inv("M", <<>>)>>)}
LongPrograms == {Program(<<Def("M", <<>>, <<>>, [j \in 1 .. 20 |-> S("a")])>>, <<Inv("M", <<>>)>>)}
=============================================================================
