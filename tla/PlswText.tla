------------------------------- MODULE PlswText ------------------------------
(***************************************************************************)
(* How a tree is written in PL/SW: docs/usage.md and the table of operator *)
(* precedences of parser.h, with parentheses only where the table asks for *)
(* them.  A token is its type, its text and its number, as the lexer       *)
(* leaves them in cur_type, cur_text and cur_ival.                         *)
(***************************************************************************)
EXTENDS Integers, SequencesExt

Token(t, v, n) == [t |-> t, v |-> v, n |-> n]
Id(x) == Token("IDENT", x, 0)
Num(n) == Token("NUM", ToString(n), n)
Str(s) == Token("STRING", s, 0)
Words(ts) == [i \in DOMAIN ts |-> Token(ts[i], ts[i], 0)]    \* keywords and signs
W(t) == Words(<<t>>)

Nothing == [k |-> "null"]

(* Low to high, all of them left-associative. *)
Levels == <<{"OR"}, {"AND"}, {"|"}, {"^"}, {"&"}, {"=", "!="}, {"<", ">", "<=", ">="},
            {"<<", ">>"}, {"+", "-"}, {"*", "/"}>>
Level(op) == CHOOSE i \in DOMAIN Levels : op \in Levels[i]
Lowest == 1
Prefix == Len(Levels) + 1
Atom == Len(Levels) + 2

Wrapped(ts) == W("(") \o ts \o W(")")
Bracket(ts, level, min) == IF level < min THEN Wrapped(ts) ELSE ts

Joined(parts) ==    \* with commas between
  FoldLeft(LAMBDA ts, i : ts \o (IF i > 1 THEN W(",") ELSE <<>>) \o parts[i], <<>>, [i \in DOMAIN parts |-> i])

TypeText(type) == CASE type = "NONE" -> <<>>
                    [] type = "INT24" -> W("INT")
                    [] type = "INT16" -> W("INT") \o Wrapped(<<Num(16)>>)
                    [] type = "INT8" -> W("INT") \o Wrapped(<<Num(8)>>)
                    [] OTHER -> W(type)
StorageText(class) == IF class = "AUTOMATIC" THEN <<>> ELSE W(class)
DimText(dim) == IF dim = 0 THEN <<>> ELSE Wrapped(<<Num(dim)>>)
LeafText(e) == CASE e.k = "lit" -> <<Num(e.v)>>
                 [] e.k = "str" -> <<Str(e.s)>>
                 [] e.k = "var" -> <<Id(e.x)>>
                 [] e.k = "sizeof" -> W("SIZEOF") \o Wrapped(<<Id(e.x)>>)
InitText(e) == IF e = Nothing THEN <<>> ELSE W("INIT") \o Wrapped(LeafText(e))
FieldText(d) == <<Id(d.x)>> \o DimText(d.dim) \o TypeText(d.type) \o StorageText(d.class) \o InitText(d.init)
ParamText(p) == <<Id(p.x)>> \o TypeText(p.type)
OptionText(opts) ==
  IF opts = {} THEN <<>> ELSE W("OPTIONS") \o Wrapped(Joined(SetToSeq({W(o) : o \in opts})))

Expressions == {"lit", "str", "var", "sizeof", "un", "bin", "field", "addr", "call", "elem"}

(* Expressions in a place that takes operators of level min and above,     *)
(* statements, declarations and procedures.                                *)
RECURSIVE Text(_, _)
Text(e, min) ==
  LET Stmt(s) == IF s.k \in Expressions THEN Text(s, Atom) \o W(";") ELSE Text(s, Lowest)
      All(ss) == FoldLeft(LAMBDA ts, s : ts \o Stmt(s), <<>>, ss)
      Args(es) == Wrapped(Joined([i \in DOMAIN es |-> Text(es[i], Lowest)]))
      Inside(s) == All(s.ss)    \* of a block
      Grouped(b) == W("DO") \o W(";") \o Inside(b) \o Words(<<"END", ";">>)
      WhenText(w) == W("WHEN") \o Wrapped(Text(w.c, Lowest)) \o Inside(w.b)
  IN
  CASE e.k \in {"lit", "str", "var", "sizeof"} -> LeafText(e)
    [] e.k = "un" -> Bracket(W(e.op) \o Text(e.e, Prefix), Prefix, min)
    [] e.k = "bin" -> Bracket(Text(e.l, Level(e.op)) \o W(e.op) \o Text(e.r, Level(e.op) + 1), Level(e.op), min)
    [] e.k = "field" -> Text(e.e, Atom) \o W(e.op) \o <<Id(e.f)>>
    [] e.k = "addr" -> W("ADDR") \o Wrapped(Text(e.e, Lowest))
    [] e.k \in {"call", "elem"} -> <<Id(e.p)>> \o Args(e.args)
    [] e.k = "assign" -> Text(e.l, Atom) \o W("=") \o Text(e.e, Lowest) \o W(";")
    [] e.k = "if" -> W("IF") \o Text(e.c, Lowest) \o W("THEN") \o Stmt(e.t)
                       \o (IF e.e = Nothing THEN <<>> ELSE W("ELSE") \o Stmt(e.e))
    [] e.k = "block" -> Grouped(e)
    [] e.k = "while" -> Words(<<"DO", "WHILE">>) \o Wrapped(Text(e.c, Lowest)) \o W(";") \o Inside(e.b) \o Words(<<"END", ";">>)
    [] e.k = "count" -> W("DO") \o <<Id(e.x)>> \o W("=") \o Text(e.from, Lowest) \o W("TO") \o Text(e.to, Lowest)
                          \o W(";") \o Inside(e.b) \o Words(<<"END", ";">>)
    [] e.k = "select" -> Words(<<"SELECT", ";">>)
                           \o FoldLeft(LAMBDA ts, w : ts \o WhenText(w), <<>>, e.whens)
                           \o (IF e.o = Nothing THEN <<>> ELSE W("OTHERWISE") \o Inside(e.o)) \o Words(<<"END", ";">>)
    [] e.k = "return" -> W("RETURN") \o (IF e.e = Nothing THEN <<>> ELSE Wrapped(Text(e.e, Lowest))) \o W(";")
    [] e.k = "asm" -> Words(<<"ASM", "DO", ";">>)
                        \o FoldLeft(LAMBDA ts, s : ts \o <<Str(s)>> \o W(";"), <<>>, e.lines) \o Words(<<"END", ";">>)
    [] e.k = "dcl" -> W("DCL") \o FieldText(e) \o W(";")
    [] e.k = "record" ->
         W("DCL") \o <<Num(e.level), Id(e.x)>> \o StorageText(e.class)
           \o FoldLeft(LAMBDA ts, d : ts \o W(",") \o <<Num(d.level)>> \o FieldText(d), <<>>, e.fields) \o W(";")
    [] e.k = "proc" ->
         (IF e.x = "" THEN <<>> ELSE <<Id(e.x)>> \o W(":")) \o W("PROC")
           \o (IF e.params = <<>> THEN <<>> ELSE Wrapped(Joined([i \in DOMAIN e.params |-> ParamText(e.params[i])])))
           \o OptionText(e.opts) \o (IF e.ret = "NONE" THEN <<>> ELSE W("RETURNS") \o Wrapped(TypeText(e.ret)))
           \o W(";") \o Inside(e.body) \o Words(<<"END", ";">>)
    [] e.k = "program" -> All(e.items)
=============================================================================
