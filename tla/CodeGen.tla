-------------------------------- MODULE CodeGen -------------------------------
(***************************************************************************)
(* The code codegen.h emits for a procedure: expressions into r0, control  *)
(* flow into labels and branches, calls with their arguments on the stack. *)
(* An instruction stands for the lines that one emit call writes; a place  *)
(* is a static or a word of the frame (Storage.tla says which).            *)
(***************************************************************************)
EXTENDS PlswMeaning

(* Instructions *)
Const(r, v) == [op |-> "const", r |-> r, v |-> v]
Load(r, at) == [op |-> "load", r |-> r, at |-> at]
Store(at) == [op |-> "store", at |-> at]
Mov(r, from) == [op |-> "mov", r |-> r, from |-> from]
Alu(f, r, s) == [op |-> "alu", f |-> f, r |-> r, s |-> s]
Inc(r) == [op |-> "inc", r |-> r]
Compare(f, r, s) == [op |-> f, r |-> r, s |-> s]
Push(r) == [op |-> "push", r |-> r]
Pop(r) == [op |-> "pop", r |-> r]
AddSp(n) == [op |-> "addsp", n |-> n]       \* n words
Index(a) == [op |-> "index", a |-> a]
LoadElem(a) == [op |-> "loadelem", a |-> a]
StoreElem(a) == [op |-> "storeelem", a |-> a]
Branch(l) == [op |-> "bra", l |-> l]
BranchTrue(l) == [op |-> "brt", l |-> l]
Label(l) == [op |-> "label", l |-> l]
Jal(l) == [op |-> "jal", l |-> l]
Jmp == [op |-> "jmp"]
Note(frame) == [op |-> "note", frame |-> frame]     \* the listing comment

Numbered(n) == <<"L", n>>
Entry(p) == <<"P", p>>
Div == <<"D", 0>>

-----------------------------------------------------------------------------
(* Expressions.  F maps the names of the procedure to words of its frame.  *)

Static(x) == [in |-> "static", x |-> x, byte |-> x \in ByteVars]
InFrame(off, byte) == [in |-> "frame", off |-> off, byte |-> byte]
Place(F, x) == IF x \in Statics THEN Static(x) ELSE InFrame(F[x], x \in ByteVars)

Simple(e) == e.k \in {"lit", "var"}

LoadSimple(F, e, r) == IF e.k = "lit" THEN <<Const(r, e.v)>> ELSE <<Load(r, Place(F, e.x))>>

ToFlag == <<Mov("r0", "c")>>
Invert == <<Compare("ceq", "r0", "z"), Mov("r0", "c")>>

LessOrEqualStrict == <<Compare("cls", "r0", "r1")>> \o ToFlag      \* mutant
LessOrEqual == <<Compare("cls", "r1", "r0")>> \o ToFlag \o Invert

Operation(op) ==
  CASE op = "+" -> <<Alu("add", "r0", "r1")>>
    [] op = "-" -> <<Alu("sub", "r0", "r1")>>
    [] op = "*" -> <<Alu("mul", "r0", "r1")>>
    [] op = "/" -> <<Push("r1"), Push("r0"), Jal(Div), AddSp(2)>>
    [] op \in {"&", "AND"} -> <<Alu("and", "r0", "r1")>>
    [] op \in {"|", "OR"} -> <<Alu("or", "r0", "r1")>>
    [] op = "^" -> <<Alu("xor", "r0", "r1")>>
    [] op = "=" -> <<Compare("ceq", "r0", "r1")>> \o ToFlag
    [] op = "!=" -> <<Compare("ceq", "r0", "r1")>> \o ToFlag \o Invert
    [] op = "<" -> <<Compare("cls", "r0", "r1")>> \o ToFlag
    [] op = ">" -> <<Compare("cls", "r1", "r0")>> \o ToFlag
    [] op = "<=" -> LessOrEqual
    [] op = ">=" -> <<Compare("cls", "r0", "r1")>> \o ToFlag \o Invert

CleanupOne(n) == IF n > 0 THEN <<AddSp(1)>> ELSE <<>>      \* mutant
Cleanup(n) == IF n > 0 THEN <<AddSp(n)>> ELSE <<>>

RECURSIVE CgExpr(_, _)

(* Arguments are pushed from the last to the first.                        *)
PushArgs(F, es) ==
  FoldRight(LAMBDA e, c : c \o CgExpr(F, e) \o <<Push("r0")>>, es, <<>>)

CgCall(F, e) == PushArgs(F, e.args) \o <<Jal(Entry(e.p))>> \o Cleanup(Len(e.args))

(* The right operand goes into r1: directly if it is simple, else with the *)
(* left one saved on the stack.                                            *)
CgBinop(F, e) ==
  (IF Simple(e.r) THEN CgExpr(F, e.l) \o LoadSimple(F, e.r, "r1")
   ELSE CgExpr(F, e.l) \o <<Push("r0")>> \o CgExpr(F, e.r) \o <<Mov("r1", "r0"), Pop("r0")>>)
  \o Operation(e.op)

CgUnop(F, e) ==
  CgExpr(F, e.e) \o
  (IF e.op = "-" THEN <<Mov("r1", "r0"), Const("r0", 0), Alu("sub", "r0", "r1")>>
   ELSE <<Const("r1", 0 - 1), Alu("xor", "r0", "r1")>>)

CgExpr(F, e) ==
  CASE Simple(e) -> LoadSimple(F, e, "r0")
    [] e.k = "elem" -> CgExpr(F, e.i) \o <<Index(e.a), LoadElem(e.a)>>
    [] e.k = "bin" -> CgBinop(F, e)
    [] e.k = "un" -> CgUnop(F, e)
    [] e.k = "call" -> CgCall(F, e)

-----------------------------------------------------------------------------
(* Statements.  n is the label counter; the result has the code and the    *)
(* counter after it.                                                       *)

Epilogue == <<Mov("sp", "fp"), Pop("r1"), Pop("r2"), Pop("fp"), Jmp>>
IsFalse(l) == <<Compare("ceq", "r0", "z"), BranchTrue(l)>>

CgAssign(F, s) ==
  CgExpr(F, s.e) \o
  (IF s.l.k = "var" THEN <<Store(Place(F, s.l.x))>>
   ELSE <<Push("r0")>> \o CgExpr(F, s.l.i) \o <<Index(s.l.a), Pop("r0"), StoreElem(s.l.a)>>)

NotIncremented(F, s) == <<Load("r0", Place(F, s.x)), Store(Place(F, s.x))>>     \* mutant
Incremented(F, s) ==
  <<Load("r0", Place(F, s.x)), Const("r1", 1), Alu("add", "r0", "r1"), Store(Place(F, s.x))>>

RECURSIVE CgStmt(_, _, _), CgIf(_, _, _, _)

(* The code of each element of a sequence, the counter passed along.       *)
InOrder(Cg(_, _), ss, n) ==
  FoldLeft(LAMBDA r, s : LET next == Cg(s, r.n) IN [c |-> r.c \o next.c, n |-> next.n],
           [c |-> <<>>, n |-> n], ss)

CgAll(F, ss, n) == InOrder(LAMBDA s, m : CgStmt(F, s, m), ss, n)

(* One IF of a chain: ELSE IF goes round with the same end label.          *)
CgIf(F, s, end, n) ==
  IF s.e = Nothing
  THEN LET then == CgStmt(F, s.t, n) IN
         [c |-> CgExpr(F, s.c) \o IsFalse(Numbered(end)) \o then.c, n |-> then.n]
  ELSE LET then == CgStmt(F, s.t, n + 1)
           else == IF s.e.k = "if" THEN CgIf(F, s.e, end, then.n) ELSE CgStmt(F, s.e, then.n)
       IN  [c |-> CgExpr(F, s.c) \o IsFalse(Numbered(n)) \o then.c
                    \o <<Branch(Numbered(end)), Label(Numbered(n))>> \o else.c,
            n |-> else.n]

CgWhen(F, w, end, n) ==
  LET body == CgStmt(F, w.b, n + 1) IN
    [c |-> CgExpr(F, w.c) \o IsFalse(Numbered(n)) \o body.c
             \o <<Branch(Numbered(end)), Label(Numbered(n))>>,
     n |-> body.n]

CgSelect(F, s, n) ==
  LET whens == InOrder(LAMBDA w, m : CgWhen(F, w, n, m), s.whens, n + 1)
      other == CgStmt(F, s.o, whens.n)
  IN  [c |-> whens.c \o other.c \o <<Label(Numbered(n))>>, n |-> other.n]

CgDoWhile(F, s, n) ==
  LET body == CgStmt(F, s.b, n + 2) IN
    [c |-> <<Label(Numbered(n))>> \o CgExpr(F, s.c) \o IsFalse(Numbered(n + 1)) \o body.c
             \o <<Branch(Numbered(n)), Label(Numbered(n + 1))>>,
     n |-> body.n]

CgDoCount(F, s, n) ==
  LET body == CgStmt(F, s.b, n + 2) IN
    [c |-> CgExpr(F, s.from) \o <<Store(Place(F, s.x)), Label(Numbered(n))>>
             \o <<Load("r0", Place(F, s.x)), Push("r0")>> \o CgExpr(F, s.to)
             \o <<Mov("r1", "r0"), Pop("r0"), Compare("cls", "r1", "r0"), BranchTrue(Numbered(n + 1))>>
             \o body.c \o Incremented(F, s)
             \o <<Branch(Numbered(n)), Label(Numbered(n + 1))>>,
     n |-> body.n]

CgReturn(F, s) == (IF s.e = Nothing THEN <<>> ELSE CgExpr(F, s.e)) \o Epilogue

CgStmt(F, s, n) ==
  IF s = Nothing THEN [c |-> <<>>, n |-> n]
  ELSE LET plain(c) == [c |-> c, n |-> n]
           r == CASE s.k = "assign" -> plain(CgAssign(F, s))
                  [] s.k = "call" -> plain(CgCall(F, s))
                  [] s.k = "return" -> plain(CgReturn(F, s))
                  [] s.k = "block" -> CgAll(F, s.ss, n)
                  [] s.k = "select" -> CgSelect(F, s, n)
                  [] s.k = "while" -> CgDoWhile(F, s, n)
                  [] s.k = "count" -> CgDoCount(F, s, n)
                  [] s.k = "if" -> LET r == CgIf(F, s, n, n + 1) IN
                                     [c |-> r.c \o <<Label(Numbered(n))>>, n |-> r.n]
       IN  [c |-> <<Note(F.size)>> \o r.c, n |-> r.n]

-----------------------------------------------------------------------------
(* Procedures *)

(* Words from fp: the saved r1, r2 and fp at 0, 3 and 6, the parameters    *)
(* above them, the locals below.  The stack grows upwards here.            *)
FrameOf(p) ==
  [x \in {p.params[j] : j \in DOMAIN p.params} \cup {p.locals[j] : j \in DOMAIN p.locals} \cup {"size"} |->
     IF x = "size" THEN Len(p.locals)
     ELSE IF \E j \in DOMAIN p.params : p.params[j] = x
     THEN 0 - (2 + CHOOSE j \in DOMAIN p.params : p.params[j] = x)
     ELSE CHOOSE j \in DOMAIN p.locals : p.locals[j] = x]

Prologue == <<Push("fp"), Push("r2"), Push("r1"), Mov("fp", "sp")>>

CgProc(name, p, n) ==
  LET body == CgAll(FrameOf(p), p.body.ss, n) IN
    [c |-> <<Label(Entry(name))>> \o Prologue
             \o (IF p.locals # <<>> THEN <<AddSp(0 - Len(p.locals))>> ELSE <<>>)
             \o body.c \o Epilogue,
     n |-> body.n]

(* Division by repeated subtraction; fp+9 and fp+12 are its arguments.     *)
DivRoutine(n) ==
  <<Label(Div)>> \o Prologue
    \o <<Load("r0", InFrame(0 - 3, FALSE)), Load("r1", InFrame(0 - 4, FALSE)), Const("r2", 0),
         Label(Numbered(n)), Compare("cls", "r0", "r1"), BranchTrue(Numbered(n + 1)),
         Alu("sub", "r0", "r1"), Inc("r2"), Branch(Numbered(n)),
         Label(Numbered(n + 1)), Mov("r0", "r2")>>
    \o Epilogue

CgProgramProcs(P, order) == InOrder(LAMBDA name, m : CgProc(name, P[name], m), order, 0)

(* _start, the procedures in order, the division routine.                  *)
Compile(P, order) ==
  LET procs == CgProgramProcs(P, order) IN
    <<Jal(Entry("MAIN")), [op |-> "halt"]>> \o procs.c \o DivRoutine(procs.n)
=============================================================================
