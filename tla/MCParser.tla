------------------------------- MODULE MCParser ------------------------------
(***************************************************************************)
(* Every pair of operators, every statement in every other, every part of  *)
(* a declaration and of a procedure's head; and every short sequence of    *)
(* tokens, or of phrases, where a statement, an expression, a declaration  *)
(* or a procedure may stand.                                               *)
(***************************************************************************)
EXTENDS Parser

Lit(v) == [k |-> "lit", v |-> v]
Var(x) == [k |-> "var", x |-> x]
Un(op, e) == [k |-> "un", op |-> op, e |-> e]
Bin(op, l, r) == [k |-> "bin", op |-> op, l |-> l, r |-> r]
Dot(e, f) == [k |-> "field", op |-> ".", e |-> e, f |-> f]
Arrow(e, f) == [k |-> "field", op |-> "->", e |-> e, f |-> f]
Call(p, args) == [k |-> "call", p |-> p, args |-> args]
Elem(p, args) == [k |-> "elem", p |-> p, args |-> args]
Set(l, e) == [k |-> "assign", l |-> l, e |-> e]
Blk(ss) == [k |-> "block", ss |-> ss]
IfElse(c, t, e) == [k |-> "if", c |-> c, t |-> t, e |-> e]

Ops == UNION ToSet(Levels)
x == Var("X")  y == Var("Y")  one == Lit(1)

Expressions2 ==
  UNION {{Bin(p, Bin(q, x, one), y), Bin(p, x, Bin(q, one, y))} : p \in Ops, q \in Ops}
    \cup UNION {{Un(u, Bin(p, x, y)), Bin(p, Un(u, x), y), Bin(p, x, Un(u, Un("-", y)))} : u \in {"-", "~", "NOT"}, p \in Ops}
    \cup {Bin(p, Arrow(Dot(x, "F"), "G"), Call("F", <<Bin(p, x, y), Bin(p, y, one)>>)) : p \in Ops}
    \cup {Arrow(Un("NOT", x), "F"), Dot(Bin("+", x, y), "F"), Dot(Call("F", <<>>), "G"), [k |-> "str", s |-> "TEXT"],
          [k |-> "sizeof", x |-> "X"], [k |-> "addr", e |-> Dot(x, "F")], [k |-> "addr", e |-> Bin("+", x, y)]}

Simple == {Set(x, Bin("=", x, y)), Set(Elem("A", <<x>>), one), Set(Dot(x, "F"), one), Set(Arrow(Call("F", <<x>>), "F"), one),
           Call("F", <<x, Un("-", one)>>), x, [k |-> "return", e |-> Nothing], [k |-> "return", e |-> x]}
s1 == Set(x, one)
Inner ==
  Simple
  \cup {IfElse(x, s, e) : s \in {s1, Blk(<<>>), Blk(<<s1, x>>)}, e \in {Nothing, s1, Blk(<<s1>>), IfElse(y, s1, Nothing), IfElse(y, s1, s1)}}
  \cup {IfElse(x, IfElse(y, s1, s1), e) : e \in {Nothing, s1, IfElse(x, s1, IfElse(y, s1, x))}}
  \cup {[k |-> "while", c |-> Bin("<", x, y), b |-> Blk(<<s1>>)], [k |-> "count", x |-> "I", from |-> one, to |-> Bin("+", x, y), b |-> Blk(<<s1, s1>>)]}
  \cup {[k |-> "select", whens |-> w, o |-> o] :
          w \in {<<>>, <<[c |-> x, b |-> Blk(<<s1>>)], [c |-> y, b |-> Blk(<<>>)]>>}, o \in {Nothing, Blk(<<>>), Blk(<<s1, s1>>)}}
  \cup {[k |-> "asm", lines |-> l] : l \in {<<>>, <<"NOP", "NOP">>}}
  \cup {[k |-> "dcl", x |-> "X", dim |-> 0, level |-> 0, type |-> "INT24", class |-> "AUTOMATIC", init |-> Nothing]}
Branch1(s) == IF s.k \in {"while", "count"} THEN Blk(<<s>>) ELSE s    \* LoopAsBranch
Around(s) == {Blk(<<s1, s, s1>>), IfElse(x, Blk(<<s>>), Branch1(s)), IfElse(x, s1, Branch1(s)), [k |-> "while", c |-> x, b |-> Blk(<<s, s>>)],
  [k |-> "select", whens |-> <<[c |-> x, b |-> Blk(<<s, s1>>)], [c |-> y, b |-> Blk(<<s>>)]>>, o |-> Blk(<<s1, s>>)]}

Routine(ss) ==
  [k |-> "proc", x |-> "P", params |-> <<>>, opts |-> {}, ret |-> "NONE", body |-> Blk(ss)]
Programs(items) == [k |-> "program", items |-> items]
One(s) == Programs(<<Routine(<<s>>)>>)

Variable(x_, dim, type, class, init) ==
  [k |-> "dcl", x |-> x_, dim |-> dim, level |-> 0, type |-> type, class |-> class, init |-> init]
Types == {"NONE", "INT8", "INT16", "INT24", "BYTE", "CHAR", "PTR", "WORD", "BIT"}
Dcls == {Variable("X", d, t, c, i) : d \in {0, 3}, t \in Types, c \in Classes, i \in {Nothing, one, [k |-> "str", s |-> "TEXT"]}}
AtLevel(n, d) == [d EXCEPT !.level = n]
Records == {[k |-> "record", x |-> "R", level |-> 1, class |-> c, fields |-> f] : c \in Classes,
  f \in {<<>>, <<AtLevel(3, Variable("X", 4, "CHAR", "AUTOMATIC", Nothing)), AtLevel(5, Variable("Y", 0, "PTR", "AUTOMATIC", Nothing))>>}}
Par(a, t) == [k |-> "param", x |-> a, type |-> t]
Procs == {[Routine(<<s1>>) EXCEPT !.params = ps, !.opts = o, !.ret = t] : o \in SUBSET OptionWords, t \in {"NONE", "INT16", "PTR"},
  ps \in {<<>>, <<Par("A", "INT8")>>, <<Par("A", "NONE"), Par("B", "PTR")>>}}

MCTrees ==
  UNION {{One(Set(x, e)), One(IfElse(e, [k |-> "return", e |-> e], Nothing))} : e \in Expressions2}
    \cup UNION {{One(t) : t \in {s} \cup Around(s)} : s \in Inner}
    \cup {Programs(<<d, Routine(<<d>>), d>>) : d \in Dcls \cup Records} \cup {Programs(<<p, p>>) : p \in Procs} \cup {Programs(<<>>)}

-----------------------------------------------------------------------------
Strings(S, n) == UNION {[1 .. i -> S] : i \in 0 .. n}
Phrases(S, n) == {FlattenSeq(ps) : ps \in Strings(S, n)}
X == <<Id("X")>>
One1 == <<Num(1)>>
S1 == X \o W("=") \o One1 \o W(";")
Ending == Words(<<"END", ";">>)
AsStatement(ts) == <<Id("P")>> \o Words(<<":", "PROC", ";">>) \o ts \o Ending
AsHead(ts) == Words(<<"PROC">>) \o ts \o W(";") \o S1 \o Ending

InExpression == {X, One1, W("("), W(")"), W("+"), W("NOT"), W("->"), W(","), W("ADDR"), W("SIZEOF")}
InStatement == {S1, W("IF") \o X \o W("THEN"), W("ELSE"), Words(<<"DO", ";">>), Ending, Words(<<"SELECT", ";">>),
                W("WHEN") \o W("(") \o X \o W(")"), W("OTHERWISE")}
Openers == {W("IF"), W("DO"), W("CALL"), W("RETURN"), W("ASM"), Words(<<"DO", "WHILE">>), Words(<<"ASM", "DO", ";">>)}
AfterOpener == {W("DO"), W("("), X, W("="), W("TO"), W("THEN"), W(";"), <<Str("NOP")>>}
InDcl == {One1, X, W("("), W(")"), W("INT"), W("STATIC"), W("INIT"), W(","), W(";")}
InRecord == {One1 \o X \o W(","), One1 \o X \o W(",") \o One1 \o X \o W("(") \o One1}
InHead == {X, W(":"), W("("), W(")"), W(","), W("OPTIONS") \o W("("), W("LEAF"), W("RETURNS") \o W("("), W("INT")}

MCTexts == UNION {
  {AsStatement(X \o W("=") \o ts \o W(";")) : ts \in Phrases(InExpression, 3)},
  {AsStatement(ts) : ts \in Phrases(InStatement, 3)},
  {AsStatement(o \o ts \o S1) : o \in Openers, ts \in Phrases(AfterOpener, 2)},
  {W("DCL") \o ts \o W(";") : ts \in Phrases(InDcl, 3)},
  {W("DCL") \o r \o ts \o W(";") : r \in InRecord, ts \in Phrases(InDcl, 2)},
  {AsHead(ts) : ts \in Phrases(InHead, 3)}}

NoTrees == {}
NoTexts == {}
(* A sign the lexer does not know, between two procedures. *)
UnknownSign == {AsStatement(S1) \o <<Token("EOF", "#", 0)>> \o AsStatement(S1)}
(* What is dropped, and what has another spelling: the names of a procedure *)
(* after END and behind a label; DECLARE, AUTOMATIC, and other widths.      *)
Respelled ==
  {<<Id("P")>> \o Words(<<":", "PROC", ";">>) \o S1 \o W("END") \o <<Id("P")>> \o W(";"),
   <<Id("P")>> \o Words(<<":", "PROC">>) \o X \o W(";") \o S1 \o Ending,
   W("DECLARE") \o X \o Words(<<"INT", ";">>), W("DCL") \o X \o Words(<<"INT", "AUTOMATIC", ";">>)}
    \cup {W("DCL") \o X \o Words(<<"INT", "(">>) \o <<Num(n)>> \o Words(<<")", ";">>) : n \in {12, 24}}
(* A loop as the branch of an IF, without a group around it. *)
LoopAsBranch == {One(IfElse(x, [k |-> "while", c |-> x, b |-> Blk(<<s1>>)], Nothing))}
(* NOT before a field. *)
NegatedField == {One(Set(x, Un("NOT", Arrow(x, "F"))))}
=============================================================================
