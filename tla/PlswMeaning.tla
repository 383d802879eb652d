------------------------------- MODULE PlswMeaning ----------------------------
(***************************************************************************)
(* What a PL/SW program means: the arithmetic of its words and bytes, and  *)
(* an interpreter of its statements that knows nothing of registers,       *)
(* labels or stacks.  docs/usage.md (Expressions, Control Flow) and the    *)
(* comments of parser.h and codegen.h are its source; the generated code   *)
(* is compared with it in CodeRun.                                         *)
(*                                                                         *)
(* A program maps the name of each procedure to its parameters, locals and *)
(* body.  Expressions and statements are records with a kind k:            *)
(*   lit v, var x, elem a i, bin op l r, un op e, call p args;             *)
(*   assign l e, call, if c t e, select whens o, while c b,                *)
(*   count x from to b, block ss, return e, null                           *)
(***************************************************************************)
EXTENDS Integers, SequencesExt, Bitwise

CONSTANTS Bits, ByteBits,       \* the widths of a word and a byte: 24 and 8
          Statics,              \* the names at file scope
          ByteVars, WordVars,   \* the names declared BYTE, and WORD (unsigned)
          Arrays, Dim           \* the static arrays, of words, of Dim elements

Nothing == [k |-> "null"]
Modulus == 2 ^ Bits
Wrap(n) == n % Modulus
Signed(a) == IF a >= 2 ^ (Bits - 1) THEN a - Modulus ELSE a
Flag(b) == IF b THEN 1 ELSE 0
Fit(x, v) == IF x \in ByteVars THEN v % 2 ^ ByteBits ELSE v

(* A word is signed unless it is read from a WORD.                         *)
Unsigned(e) == e.k = "var" /\ e.x \in WordVars
Less(e, a, b) == IF Unsigned(e.l) \/ Unsigned(e.r) THEN a < b ELSE Signed(a) < Signed(b)

(* The quotient is rounded towards zero; it is defined for b # 0.          *)
Size(n) == IF n < 0 THEN 0 - n ELSE n
Quotient(m, n) ==
  LET q == Size(m) \div Size(n) IN IF m < 0 <=> n < 0 THEN q ELSE 0 - q
Divided(e, a, b) ==
  IF Unsigned(e.l) \/ Unsigned(e.r) THEN a \div b ELSE Quotient(Signed(a), Signed(b))

Binary(e, a, b) ==
  CASE e.op = "+" -> Wrap(a + b)
    [] e.op = "-" -> Wrap(a - b)
    [] e.op = "*" -> Wrap(a * b)
    [] e.op = "/" -> Wrap(Divided(e, a, b))
    [] e.op = "&" -> a & b
    [] e.op = "|" -> a | b
    [] e.op = "^" -> a ^^ b
    [] e.op = "AND" -> Flag(a # 0 /\ b # 0)
    [] e.op = "OR" -> Flag(a # 0 \/ b # 0)
    [] e.op = "=" -> Flag(a = b)
    [] e.op = "!=" -> Flag(a # b)
    [] e.op = "<" -> Flag(Less(e, a, b))
    [] e.op = ">" -> Flag(Less(e, b, a))
    [] e.op = "<=" -> Flag(~Less(e, b, a))
    [] e.op = ">=" -> Flag(~Less(e, a, b))

Unary(op, a) ==
  CASE op = "-" -> Wrap(0 - a)
    [] op = "~" -> Modulus - 1 - a
    [] op = "NOT" -> Flag(a = 0)

(* A world: the statics, the arrays, the locals of the procedure, the      *)
(* assignments to statics so far (what can be observed of a program), the  *)
(* calls and iterations still allowed, whether it is running, has returned *)
(* or is out of them, and the value of the last expression.                *)
Value(w, x) == IF x \in Statics THEN w.mem[x] ELSE w.loc[x]

Assigned(w, x, v) ==
  IF x \in Statics
  THEN [w EXCEPT !.mem[x] = Fit(x, v), !.trace = Append(@, <<x, 0, Fit(x, v)>>)]
  ELSE [w EXCEPT !.loc[x] = Fit(x, v)]

Running(w) == w.st = "run"
Burn(w) ==
  IF ~Running(w) THEN w
  ELSE IF w.fuel = 0 THEN [w EXCEPT !.st = "spent"]
  ELSE [w EXCEPT !.fuel = @ - 1]

RECURSIVE Eval(_, _, _), Invoke(_, _, _), Exec(_, _, _)

Eval(P, e, w) ==
  CASE e.k = "lit" -> [w EXCEPT !.val = Wrap(e.v)]
    [] e.k = "var" -> [w EXCEPT !.val = Value(w, e.x)]
    [] e.k = "elem" -> LET i == Eval(P, e.i, w) IN [i EXCEPT !.val = i.arr[e.a][i.val]]
    [] e.k = "bin" -> LET l == Eval(P, e.l, w)
                          r == Eval(P, e.r, l)
                      IN  IF Running(r) THEN [r EXCEPT !.val = Binary(e, l.val, r.val)] ELSE r
    [] e.k = "un" -> LET a == Eval(P, e.e, w) IN [a EXCEPT !.val = Unary(e.op, a.val)]
    [] e.k = "call" -> Invoke(P, e, w)

(* Arguments are evaluated from the last to the first.                     *)
Arguments(P, es, w) ==
  FoldRight(LAMBDA e, a : LET v == Eval(P, e, a.w) IN [w |-> v, vals |-> <<v.val>> \o a.vals],
            es, [w |-> w, vals |-> <<>>])

Invoke(P, e, w) ==
  LET p     == P[e.p]
      a     == Arguments(P, e.args, w)
      bound == [x \in {p.params[j] : j \in DOMAIN p.params} \cup {p.locals[j] : j \in DOMAIN p.locals} |->
                  IF \E j \in DOMAIN p.params : p.params[j] = x
                  THEN LET j == CHOOSE j \in DOMAIN p.params : p.params[j] = x IN Fit(x, a.vals[j])
                  ELSE 0]
      back  == Exec(P, p.body, Burn([a.w EXCEPT !.loc = bound]))
  IN  IF Running(a.w)
      THEN [back EXCEPT !.loc = w.loc, !.st = IF @ = "returned" THEN "run" ELSE @]
      ELSE a.w

ExecAll(P, ss, w) == FoldLeft(LAMBDA v, s : Exec(P, s, v), w, ss)

(* The first WHEN whose condition holds, else OTHERWISE.                   *)
FirstWhen(s) ==
  [k |-> "if", c |-> Head(s.whens).c, t |-> Head(s.whens).b, e |-> [s EXCEPT !.whens = Tail(@)]]

(* DO x = from TO to is x = from, and WHILE (x <= to) the body and         *)
(* x = x + 1, by the comment on cg_do_count.                               *)
Counting(s) ==
  LET x == [k |-> "var", x |-> s.x]
      next == [k |-> "bin", op |-> "+", l |-> x, r |-> [k |-> "lit", v |-> 1]]
  IN  << [k |-> "assign", l |-> x, e |-> s.from],
         [k |-> "while", c |-> [k |-> "bin", op |-> "<=", l |-> x, r |-> s.to],
          b |-> [k |-> "block", ss |-> <<s.b, [k |-> "assign", l |-> x, e |-> next]>>]] >>

Exec(P, s, w) ==
  IF ~Running(w) THEN w
  ELSE CASE s.k = "null" -> w
         [] s.k = "assign" ->
              LET v == Eval(P, s.e, w) IN
                IF ~Running(v) THEN v
                ELSE IF s.l.k = "var" THEN Assigned(v, s.l.x, v.val)
                ELSE LET i == Eval(P, s.l.i, v) IN
                       [i EXCEPT !.arr[s.l.a][i.val] = v.val,
                                 !.trace = Append(@, <<s.l.a, i.val, v.val>>)]
         [] s.k = "call" -> Invoke(P, s, w)
         [] s.k = "if" -> LET c == Eval(P, s.c, w) IN Exec(P, IF c.val # 0 THEN s.t ELSE s.e, c)
         [] s.k = "select" -> Exec(P, IF s.whens = <<>> THEN s.o ELSE FirstWhen(s), w)
         [] s.k = "while" ->
              LET c == Eval(P, s.c, w) IN
                IF c.val = 0 THEN c ELSE Exec(P, s, Burn(Exec(P, s.b, c)))
         [] s.k = "count" -> ExecAll(P, Counting(s), w)
         [] s.k = "block" -> ExecAll(P, s.ss, w)
         [] s.k = "return" ->
              LET v == IF s.e = Nothing THEN w ELSE Eval(P, s.e, w) IN
                IF Running(v) THEN [v EXCEPT !.st = "returned"] ELSE v

(* A whole program: MAIN, from zeroed statics.                             *)
Meaning(P, fuel) ==
  Invoke(P, [p |-> "MAIN", args |-> <<>>],
         [mem |-> [x \in Statics |-> 0], arr |-> [a \in Arrays |-> [i \in 0 .. Dim - 1 |-> 0]],
          loc |-> <<>>, trace |-> <<>>, fuel |-> fuel, st |-> "run", val |-> 0])
=============================================================================
