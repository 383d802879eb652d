------------------------------ MODULE MacroMeaning ----------------------------
(***************************************************************************)
(* Macros as macro.h documents them, on programs that are trees: what text *)
(* a program has, and which statements it stands for once every invocation *)
(* is replaced by the lines and the body of its macro.  Macro.tla runs the *)
(* compiler on the text.                                                   *)
(*                                                                         *)
(* A statement is a record with a kind k:                                  *)
(*   plain ts, if c t e, do ss, select c ss, inv m args                    *)
(* with tokens ts and c, and pairs of a clause and its tokens as args.  A  *)
(* macro has a name, clauses (<<"REQUIRED", c>> or <<"OPTIONAL", c>>), gen *)
(* (GEN DO blocks of lines, a line being the tokens of its string) and a   *)
(* body of statements.                                                     *)
(***************************************************************************)
EXTENDS Integers, Sequences, SequencesExt

CONSTANT MaxNesting     \* a bound: invocations inside invocations

(* Tokens: words, strings of words, and {KEY}.                             *)
W(x) == <<"w", x>>
Str(ts) == <<"str", ts>>
Hole(c) == <<"hole", c>>
Asm(ts) == <<Str(ts)>>          \* a statement of an ASM block
Semi == W(";")
None == [k |-> "none"]

Each(Op(_), s) == FlattenSeq([j \in DOMAIN s |-> Op(s[j])])

RECURSIVE Text(_)
TextAll(ss) == Each(Text, ss)
ArgText(a) == <<W(a[1]), W("(")>> \o a[2] \o <<W(")")>>

Text(s) ==
  CASE s.k = "plain" -> s.ts \o <<Semi>>
    [] s.k = "if" -> <<W("IF")>> \o s.c \o <<W("THEN")>> \o Text(s.t)
                     \o (IF s.e = None THEN <<>> ELSE <<W("ELSE")>> \o Text(s.e))
    [] s.k = "do" -> <<W("DO"), Semi>> \o TextAll(s.ss) \o <<W("END"), Semi>>
    [] s.k = "select" -> <<W("SELECT"), Semi, W("WHEN"), W("(")>> \o s.c \o <<W(")")>>
                         \o TextAll(s.ss) \o <<W("END"), Semi>>
    [] s.k = "inv" -> <<W("?"), W(s.m)>> \o Each(ArgText, s.args) \o <<Semi>>

ClauseText(c) == <<W(c[1]), W(c[2]), W("("), W("expr"), W(")"), Semi>>
LineText(ts) == <<Str(ts), Semi>>
GenText(lines) == <<W("GEN"), W("DO"), Semi>> \o Each(LineText, lines) \o <<W("END"), Semi>>
DefText(d) ==
  <<W("MACRODEF"), W(d.name), Semi>> \o Each(ClauseText, d.clauses) \o Each(GenText, d.gen)
    \o TextAll(d.body) \o <<W("END"), Semi>>

(* A program: its macros, then one procedure.                              *)
ProgramText(p) == Each(DefText, p.defs) \o <<W("PROC")>> \o TextAll(p.body) \o <<W("END"), Semi>>

-----------------------------------------------------------------------------
(* The statements a program stands for, each with the conditions it stands *)
(* under; b binds the clauses of the macro it is in.                       *)

Clauses(d) == {d.clauses[j][2] : j \in DOMAIN d.clauses}
Unset == <<W("0")>>
Bound(b, t) == IF t[1] \in {"w", "hole"} /\ t[2] \in DOMAIN b THEN b[t[2]] ELSE <<t>>
Replaced(b, ts) == FlattenSeq([j \in DOMAIN ts |-> Bound(b, ts[j])])

(* In a GEN line only {KEY} is replaced, an argument left out by nothing,  *)
(* and ADDR(v) by the label of v.                                          *)
Label(ts) == IF Len(ts) = 4 /\ ts[1] = W("ADDR") THEN <<W("_" \o ts[3][2])>> ELSE ts
InLine(b, given, t) ==
  IF t[1] = "hole" /\ t[2] \in DOMAIN b THEN (IF t[2] \in given THEN Label(b[t[2]]) ELSE <<>>) ELSE <<t>>

Not(c) == <<W("not")>> \o c
MacroOf(p, m) == CHOOSE d \in ToSet(p.defs) : d.name = m
Defined(p, m) == \E d \in ToSet(p.defs) : d.name = m
Given(s) == {s.args[j][1] : j \in DOMAIN s.args}

RECURSIVE Means(_, _, _, _, _)
MeansAll(p, ss, b, ctx, n) == FlattenSeq([j \in DOMAIN ss |-> Means(p, ss[j], b, ctx, n)])

Means(p, s, b, ctx, n) ==
  CASE s.k = "plain" -> <<<<Replaced(b, s.ts), ctx>>>>
    [] s.k = "if" -> LET c == Replaced(b, s.c) IN
         Means(p, s.t, b, Append(ctx, c), n)
           \o (IF s.e = None THEN <<>> ELSE Means(p, s.e, b, Append(ctx, Not(c)), n))
    [] s.k = "do" -> MeansAll(p, s.ss, b, ctx, n)
    [] s.k = "select" -> MeansAll(p, s.ss, b, Append(ctx, Replaced(b, s.c)), n)
    [] s.k = "inv" ->
         IF n = 0 \/ ~Defined(p, s.m) THEN <<>>
         ELSE LET d == MacroOf(p, s.m)
                  inner == [c \in Clauses(d) |->
                              IF c \in Given(s)
                              THEN Replaced(b, s.args[CHOOSE j \in DOMAIN s.args : s.args[j][1] = c][2])
                              ELSE Unset]
                  line(ts) == <<<<Asm(FlattenSeq([j \in DOMAIN ts |-> InLine(inner, Given(s), ts[j])])), ctx>>>>
              IN  Each(line, FlattenSeq(d.gen)) \o MeansAll(p, d.body, inner, ctx, n - 1)

Meaning(p) == MeansAll(p, p.body, <<>>, <<>>, MaxNesting)
=============================================================================
