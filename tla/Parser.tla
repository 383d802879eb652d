-------------------------------- MODULE Parser -------------------------------
(***************************************************************************)
(* The recursive-descent parser of src/src/parser.h as the machine it is:  *)
(* goals holds what each active C function has still to do, innermost      *)
(* first, vals the nodes they have returned so far.  An error sets         *)
(* parse_err and does not unwind: the callers go on, as in the code, until *)
(* a loop or a NODE_NULL stops them.                                       *)
(*                                                                         *)
(* Nodes are trees (AstPool has the pool they live in); macros are         *)
(* expanded (Macro has invocations).                                       *)
(***************************************************************************)
EXTENDS PlswText

CONSTANTS Trees,   \* programs, each parsed from its text
          Texts    \* other sequences of tokens

VARIABLES
  text,    \* what is parsed: [tree, toks], or toks alone with tree = Nothing
  toks,    \* the tokens from the current one on
  goals, vals,
  err      \* parse_err

vars == <<text, toks, goals, vals, err>>

Init ==
  /\ \/ \E tree \in Trees : text = [tree |-> tree, toks |-> Text(tree, Lowest)]
     \/ \E ts \in Texts : text = [tree |-> Nothing, toks |-> ts]
  /\ toks = text.toks
  /\ goals = <<<<"program", <<>>>>>> /\ vals = <<>>
  /\ err = FALSE

(* The lexer: the end of the text is a token that never goes away.         *)
Eof == Token("EOF", "EOF", 0)
Tok(i) == IF i <= Len(toks) THEN toks[i] ELSE Eof
Cur == Tok(1)
Is(t) == Cur.t = t
Beyond(n) == SubSeq(toks, n + 1, Len(toks))    \* after n parse_advance()
Signs == {"(", ")", ",", ";", ":", ".", "->", "~", "#"} \cup (UNION ToSet(Levels) \ {"OR", "AND"})
Alpha(tok) == tok.t # "NUM" /\ tok.v \notin Signs    \* is_alpha(cur_text[0])

On(goal) == goals # <<>> /\ Head(goals)[1] = goal
Arg == Head(goals)[2]
Arg2 == Head(goals)[3]
V(i) == vals[i]
Push(v) == <<v>> \o vals
Word(w) == [k |-> "word", w |-> w]
List(l) == [k |-> "list", l |-> l]    \* linked by nd_next
OptionSet(o) == [k |-> "opts", o |-> o]
Replace(n, v) == <<v>> \o SubSeq(vals, n + 1, Len(vals))    \* the n topmost values

(* Take n tokens, go on with gs. *)
Do(n, gs, vs) ==
  /\ toks' = Beyond(n) /\ goals' = gs \o Tail(goals) /\ vals' = vs
  /\ UNCHANGED <<text, err>>
Return(n, vs) == Do(n, <<>>, vs)

(* parse_error() and the function's return. *)
Fail(n, vs) ==
  /\ toks' = Beyond(n) /\ goals' = Tail(goals) /\ vals' = vs /\ err' = TRUE
  /\ UNCHANGED text
FailNull(n) == Fail(n, Push(Nothing))

Want(t) == <<"expect", t>>
Expr == <<"expr", 1>>
Block == <<"block", {"END", "EOF"}, <<>>>>
SelectBlock == <<"block", {"WHEN", "OTHERWISE", "END", "EOF"}, <<>>>>
Args == <<"args">>

-----------------------------------------------------------------------------
ExpectOrNot ==    \* mutant: a missing token is no error
  /\ On("expect")
  /\ Return(IF Is(Arg) THEN 1 ELSE 0, vals)

Expect ==
  /\ On("expect")
  /\ \/ Is(Arg) /\ Return(1, vals)
     \/ ~Is(Arg) /\ Fail(0, vals)

tok_prec(t) ==
  CASE t = "OR" -> 1 [] t = "AND" -> 2 [] t = "|" -> 3 [] t = "^" -> 4 [] t = "&" -> 5
    [] t \in {"=", "!="} -> 6 [] t \in {"<", ">", "<=", ">="} -> 7 [] t \in {"<<", ">>"} -> 8
    [] t \in {"+", "-"} -> 9 [] t \in {"*", "/"} -> 10 [] OTHER -> 0

(* parse_primary.  The operand of a prefix operator is a primary, too.     *)
Primary ==
  /\ On("primary")
  /\ \/ Cur.t \in {"-", "~", "NOT"} /\ Do(1, <<<<"primary">>, <<"unop", Cur.t>>>>, vals)
     \/ Is("SIZEOF") /\ Do(1, <<Want("("), <<"sizeof">>>>, vals)
     \/ Is("ADDR") /\ Do(1, <<Want("("), Expr, Want(")"), <<"addr">>>>, vals)
     \/ Is("(") /\ Do(1, <<Expr, Want(")")>>, vals)
     \/ Is("NUM") /\ Return(1, Push([k |-> "lit", v |-> Cur.n]))
     \/ Is("STRING") /\ Return(1, Push([k |-> "str", s |-> Cur.v]))
     \/ Is("IDENT") /\ Tok(2).t = "(" /\ Do(2, <<Args, Want(")"), <<"call", Cur.v>>>>, vals)
     \/ Is("IDENT") /\ Tok(2).t # "(" /\ Return(1, Push([k |-> "var", x |-> Cur.v]))
     \/ Cur.t \notin {"-", "~", "NOT", "SIZEOF", "ADDR", "(", "NUM", "STRING", "IDENT"} /\ FailNull(0)

Sizeof ==
  /\ On("sizeof")
  /\ \/ Is("IDENT") /\ Do(1, <<Want(")")>>, Push([k |-> "sizeof", x |-> Cur.v]))
     \/ ~Is("IDENT") /\ FailNull(0)

(* The argument list of a call, up to its parenthesis. *)
Arguments ==
  \/ On("args") /\ Is(")") /\ Return(0, Push(List(<<>>)))
  \/ On("args") /\ ~Is(")") /\ Do(0, <<Expr, <<"arg", <<>>>>>>, vals)
  \/ On("arg") /\ LET list == Append(Arg, V(1)) IN
       \/ Is(",") /\ Do(1, <<Expr, <<"arg", list>>>>, Tail(vals))
       \/ ~Is(",") /\ Return(0, Replace(1, List(list)))

Postfix ==
  /\ On("postfix")
  /\ LET signs == ~err /\ Cur.t \in {".", "->"} IN
       \/ signs /\ Tok(2).t = "IDENT"
          /\ Do(2, <<<<"postfix">>>>, Replace(1, [k |-> "field", op |-> Cur.t, e |-> V(1), f |-> Tok(2).v]))
       \/ signs /\ Tok(2).t # "IDENT" /\ Fail(1, vals)
       \/ ~signs /\ Return(0, vals)

(* parse_expr_prec *)
SameLevel(t) == tok_prec(t)    \* mutant: operators group to the right
NextLevel(t) == tok_prec(t) + 1

ExprPrec ==
  \/ On("expr") /\ Do(0, <<<<"primary">>, <<"operand", Arg>>>>, vals)
  \/ /\ On("operand")
     /\ \/ V(1) = Nothing /\ Return(0, vals)
        \/ V(1) # Nothing /\ Do(0, <<<<"postfix">>, <<"climb", Arg>>>>, vals)
  \/ /\ On("climb")
     /\ LET takes == ~err /\ tok_prec(Cur.t) # 0 /\ tok_prec(Cur.t) >= Arg IN
          \/ takes /\ Do(1, <<<<"expr", NextLevel(Cur.t)>>, <<"binop", Cur.t>>, <<"postfix">>, <<"climb", Arg>>>>, vals)
          \/ ~takes /\ Return(0, vals)

(* Nodes made of what has been returned. *)
Node ==
  \/ On("unop") /\ Return(0, Replace(1, [k |-> "un", op |-> Arg, e |-> V(1)]))
  \/ On("binop") /\ Return(0, Replace(2, [k |-> "bin", op |-> Arg, l |-> V(2), r |-> V(1)]))
  \/ On("addr") /\ Return(0, Replace(1, [k |-> "addr", e |-> V(1)]))
  \/ On("call") /\ Return(0, Replace(1, [k |-> "call", p |-> Arg, args |-> V(1).l]))
  \/ On("while") /\ Return(0, Replace(2, [k |-> "while", c |-> V(2), b |-> V(1)]))
  \/ On("count") /\ Return(0, Replace(3, [k |-> "count", x |-> Arg, from |-> V(3), to |-> V(2), b |-> V(1)]))
  \/ On("return") /\ Return(0, Replace(1, [k |-> "return", e |-> V(1)]))
  \/ On("otherwise") /\ Do(0, <<Want("END"), Want(";")>>, Replace(1, [k |-> "select", whens |-> Arg, o |-> V(1)]))
  \/ On("param!") /\ Return(0, Replace(1, [k |-> "param", x |-> Arg, type |-> V(1).w]))
  \/ On("field!") /\ Return(0, Replace(3,
       [k |-> "dcl", x |-> Arg.x, dim |-> Arg.dim, level |-> Arg.level, type |-> V(3).w, class |-> V(2).w, init |-> V(1)]))
  \/ On("proc!") /\ Return(0, Replace(4,
       [k |-> "proc", x |-> Arg, params |-> V(4).l, opts |-> V(3).o, ret |-> V(2).w, body |-> V(1)]))

-----------------------------------------------------------------------------
(* Declarations *)

Type ==
  /\ On("type")
  /\ \/ Is("INT") /\ Tok(2).t # "(" /\ Return(1, Push(Word("INT24")))
     \/ /\ Is("INT") /\ Tok(2).t = "("
        /\ LET width == Tok(3).n IN
             Do(2, <<Want("NUM"), Want(")")>>,
                Push(Word(IF width <= 8 THEN "INT8" ELSE IF width <= 16 THEN "INT16" ELSE "INT24")))
     \/ Cur.t \in {"BYTE", "CHAR", "PTR", "WORD", "BIT"} /\ Return(1, Push(Word(Cur.t)))
     \/ Cur.t \notin {"INT", "BYTE", "CHAR", "PTR", "WORD", "BIT"} /\ Return(0, Push(Word("NONE")))

Classes == {"STATIC", "AUTOMATIC", "EXTERNAL", "BASED"}
ClassOf == IF Cur.t \in Classes THEN Cur.t ELSE "AUTOMATIC"
Storage == On("storage") /\ Return(IF Cur.t \in Classes THEN 1 ELSE 0, Push(Word(ClassOf)))

Initial ==
  \/ On("init") /\ ~Is("INIT") /\ Return(0, Push(Nothing))
  \/ On("init") /\ Is("INIT") /\ Do(1, <<Want("("), <<"initial">>>>, vals)
  \/ /\ On("initial")
     /\ \/ Is("NUM") /\ Do(1, <<Want(")")>>, Push([k |-> "lit", v |-> Cur.n]))
        \/ Is("STRING") /\ Do(1, <<Want(")")>>, Push([k |-> "str", s |-> Cur.v]))
        \/ Cur.t \notin {"NUM", "STRING"} /\ FailNull(0)

(* parse_dcl_field *)
Field ==
  /\ On("field")
  /\ LET name == Cur.v
         Attributes(dim) == <<<<"type">>, <<"storage">>, <<"init">>,
                              <<"field!", [x |-> name, dim |-> dim, level |-> Arg]>>>> IN
       \/ ~Is("IDENT") /\ FailNull(0)
       \/ Is("IDENT") /\ Tok(2).t # "(" /\ Do(1, Attributes(0), vals)
       \/ Is("IDENT") /\ Tok(2).t = "(" /\ Tok(3).t = "NUM" /\ Do(3, <<Want(")")>> \o Attributes(Tok(3).n), vals)
       \/ Is("IDENT") /\ Tok(2).t = "(" /\ Tok(3).t # "NUM" /\ FailNull(2)

(* parse_dcl_record: every field is a child of the record. *)
Record ==
  \/ On("record") /\ ~Is("IDENT") /\ FailNull(0)
  \/ On("record") /\ Is("IDENT") /\ Do(1, <<<<"storage">>, <<"container", [x |-> Cur.v, level |-> Arg]>>>>, vals)
  \/ /\ On("container")
     /\ LET rec == [k |-> "record", x |-> Arg.x, level |-> Arg.level, class |-> V(1).w, fields |-> <<>>] IN
          \/ Is(",") /\ Do(1, <<<<"fields">>>>, Replace(1, rec))
          \/ ~Is(",") /\ Do(0, <<Want(";")>>, Replace(1, rec))
  \/ On("fields") /\ err /\ Return(0, vals)
  \/ On("fields") /\ ~err /\ ~Is("NUM") /\ Fail(0, vals)
  \/ On("fields") /\ ~err /\ Is("NUM") /\ Do(1, <<<<"field", Cur.n>>, <<"another">>>>, vals)
  \/ /\ On("another")
     /\ LET rec == [V(2) EXCEPT !.fields = Append(@, V(1))] IN
          \/ V(1) = Nothing /\ Return(0, Tail(vals))
          \/ V(1) # Nothing /\ Is(";") /\ Return(1, Replace(2, rec))
          \/ V(1) # Nothing /\ Is(",") /\ Do(1, <<<<"fields">>>>, Replace(2, rec))
          \/ V(1) # Nothing /\ Cur.t \notin {";", ","} /\ Fail(0, Replace(2, rec))

(* parse_dcl, at DCL or DECLARE. *)
Dcl ==
  \/ On("dcl") /\ Tok(2).t = "NUM" /\ Do(2, <<<<"record", Tok(2).n>>>>, vals)
  \/ On("dcl") /\ Tok(2).t # "NUM" /\ Do(1, <<<<"field", 0>>, <<"scalar">>>>, vals)
  \/ On("scalar") /\ V(1) = Nothing /\ Return(0, vals)
  \/ On("scalar") /\ V(1) # Nothing /\ Do(0, <<Want(";")>>, vals)

-----------------------------------------------------------------------------
(* Statements *)

(* parse_block, parse_select_block: Arg are the tokens that end it. *)
InBlockAnyway == Cur.t \notin Arg    \* mutant: the loop does not look at parse_err
InBlock == ~err /\ Cur.t \notin Arg

BlockLoop ==
  \/ On("block") /\ InBlock /\ Do(0, <<<<"stmt">>, <<"item", Arg, Arg2>>>>, vals)
  \/ On("block") /\ ~InBlock /\ Return(0, Push([k |-> "block", ss |-> Arg2]))
  \/ On("item") /\ Do(0, <<<<"block", Arg, IF V(1) = Nothing THEN Arg2 ELSE Append(Arg2, V(1))>>>>, Tail(vals))

Grouped == <<Want(";"), Block, Want("END"), Want(";")>>
Starters == {"IF", "DO", "CALL", "RETURN", "ASM", "DCL", "DECLARE", "SELECT"}

(* parse_stmt *)
Stmt ==
  \/ On("stmt") /\ err /\ Return(0, Push(Nothing))
  \/ /\ On("stmt") /\ ~err
     /\ \/ Is("IF") /\ Do(0, <<<<"if", <<>>>>>>, vals)
        \/ Is("DO") /\ Tok(2).t = "WHILE"
           /\ Do(2, <<Want("("), Expr, Want(")")>> \o Grouped \o <<<<"while">>>>, vals)
        \/ Is("DO") /\ Tok(2).t = "IDENT" /\ Tok(3).t = "="
           /\ Do(3, <<Expr, Want("TO"), Expr>> \o Grouped \o <<<<"count", Tok(2).v>>>>, vals)
        \/ Is("DO") /\ Tok(2).t = "IDENT" /\ Tok(3).t # "=" /\ FailNull(2)
        \/ Is("DO") /\ Tok(2).t \notin {"WHILE", "IDENT"} /\ Do(1, Grouped, vals)
        \/ Is("CALL") /\ Alpha(Tok(2)) /\ Tok(3).t = "("
           /\ Do(3, <<Args, Want(")"), Want(";"), <<"call", Tok(2).v>>>>, vals)
        \/ Is("CALL") /\ Alpha(Tok(2)) /\ Tok(3).t # "("
           /\ Do(2, <<Want(";"), <<"call", Tok(2).v>>>>, Push(List(<<>>)))
        \/ Is("CALL") /\ ~Alpha(Tok(2)) /\ FailNull(1)
        \/ Is("RETURN") /\ Tok(2).t = "(" /\ Do(2, <<Expr, Want(")"), Want(";"), <<"return">>>>, vals)
        \/ Is("RETURN") /\ Tok(2).t # "(" /\ Do(1, <<Want(";"), <<"return">>>>, Push(Nothing))
        \/ Is("ASM") /\ Do(1, <<Want("DO"), Want(";"), <<"asm", <<>>>>>>, vals)
        \/ Cur.t \in {"DCL", "DECLARE"} /\ Do(0, <<<<"dcl">>>>, vals)
        \/ Is("SELECT") /\ Do(1, <<Want(";"), <<"when", <<>>>>>>, vals)
        \/ Cur.t \notin Starters /\ Do(0, <<<<"primary">>, <<"lvalue">>>>, vals)

(* A branch of IF: a group or one statement. *)
Branch ==
  \/ On("branch") /\ Is("DO") /\ Do(1, Grouped, vals)
  \/ On("branch") /\ ~Is("DO") /\ Do(0, <<<<"stmt">>>>, vals)

(* The chain of IF ... ELSE IF ... is a loop in the code: Arg are the      *)
(* conditions and branches so far, at IF or behind a branch.               *)
Chained(arms, last) ==
  FoldRight(LAMBDA arm, e : [k |-> "if", c |-> arm.c, t |-> arm.t, e |-> e], arms, last)

If ==
  \/ On("if") /\ Do(1, <<Expr, Want("THEN"), <<"branch">>, <<"arm", Arg>>>>, vals)
  \/ /\ On("arm")
     /\ LET arms == Append(Arg, [c |-> V(2), t |-> V(1)]) IN
          \/ ~Is("ELSE") /\ Return(0, Replace(2, Chained(arms, Nothing)))
          \/ Is("ELSE") /\ Tok(2).t = "IF" /\ Do(1, <<<<"if", arms>>>>, SubSeq(vals, 3, Len(vals)))
          \/ Is("ELSE") /\ Tok(2).t # "IF" /\ Do(1, <<<<"branch">>, <<"else", arms>>>>, SubSeq(vals, 3, Len(vals)))
  \/ On("else") /\ Return(0, Replace(1, Chained(Arg, V(1))))

Asm ==
  /\ On("asm")
  /\ LET more == ~err /\ Cur.t \notin {"END", "EOF"} IN
       \/ more /\ Is("STRING") /\ Do(1, <<Want(";"), <<"asm", Append(Arg, Cur.v)>>>>, vals)
       \/ more /\ ~Is("STRING") /\ FailNull(0)
       \/ ~more /\ Do(0, <<Want("END"), Want(";")>>, Push([k |-> "asm", lines |-> Arg]))

Select ==
  \/ /\ On("when")
     /\ LET more == ~err /\ Is("WHEN") IN
          \/ more /\ Do(1, <<Want("("), Expr, Want(")"), SelectBlock, <<"then", Arg>>>>, vals)
          \/ ~more /\ Is("OTHERWISE") /\ Do(1, <<SelectBlock, <<"otherwise", Arg>>>>, vals)
          \/ ~more /\ ~Is("OTHERWISE") /\ Do(0, <<<<"otherwise", Arg>>>>, Push(Nothing))
  \/ On("then") /\ Do(0, <<<<"when", Append(Arg, [c |-> V(2), b |-> V(1)])>>>>, SubSeq(vals, 3, Len(vals)))

(* An assignment, or an expression that is a primary; name(subscript) was  *)
(* read as a call.                                                         *)
Element(l) == IF l.k = "call" THEN [l EXCEPT !.k = "elem"] ELSE l

Assign ==
  \/ On("lvalue") /\ V(1) = Nothing /\ Return(0, vals)
  \/ On("lvalue") /\ V(1) # Nothing /\ Do(0, <<<<"postfix">>, <<"becomes">>>>, vals)
  \/ On("becomes") /\ Is("=") /\ Do(1, <<Expr, Want(";"), <<"assign">>>>, vals)
  \/ On("becomes") /\ ~Is("=") /\ Do(0, <<Want(";")>>, vals)
  \/ On("assign") /\ Return(0, Replace(2, [k |-> "assign", l |-> Element(V(2)), e |-> V(1)]))

-----------------------------------------------------------------------------
(* Procedures and the program *)

(* parse_proc, at PROC; a name is left out when a label stands before it.  *)
Nameless == {"(", "OPTIONS", "RETURNS", ";"}
Proc ==
  \/ On("proc") /\ Tok(2).t \in Nameless /\ Do(1, <<<<"params", "">>>>, vals)
  \/ On("proc") /\ Tok(2).t \notin Nameless /\ Alpha(Tok(2)) /\ Do(2, <<<<"params", Tok(2).v>>>>, vals)
  \/ On("proc") /\ Tok(2).t \notin Nameless /\ ~Alpha(Tok(2)) /\ FailNull(1)

Params ==
  \/ On("params") /\ ~Is("(") /\ Do(0, <<<<"options", Arg>>>>, Push(List(<<>>)))
  \/ On("params") /\ Is("(") /\ Tok(2).t = ")" /\ Do(2, <<<<"options", Arg>>>>, Push(List(<<>>)))
  \/ On("params") /\ Is("(") /\ Tok(2).t # ")"
     /\ Do(1, <<<<"param">>, <<"nextparam", <<>>>>, Want(")"), <<"options", Arg>>>>, vals)
  \/ On("param") /\ Alpha(Cur) /\ Do(1, <<<<"type">>, <<"param!", Cur.v>>>>, vals)
  \/ On("param") /\ ~Alpha(Cur) /\ FailNull(0)
  \/ /\ On("nextparam")
     /\ LET list == Append(Arg, V(1)) IN
          \/ Is(",") /\ ~err /\ Do(1, <<<<"param">>, <<"nextparam", list>>>>, Tail(vals))
          \/ ~(Is(",") /\ ~err) /\ Return(0, Replace(1, List(list)))

OptionWords == {"FREESTANDING", "NAKED", "LEAF"}
Options ==
  \/ On("options") /\ ~Is("OPTIONS") /\ Do(0, <<<<"returns", Arg>>>>, Push(OptionSet({})))
  \/ On("options") /\ Is("OPTIONS") /\ Do(1, <<Want("("), <<"option", Arg, {}>>>>, vals)
  \/ /\ On("option")
     /\ LET more == ~err /\ ~Is(")") IN
          \/ more /\ Cur.t \in OptionWords
             /\ Do(IF Tok(2).t = "," THEN 2 ELSE 1, <<<<"option", Arg, Arg2 \cup {Cur.t}>>>>, vals)
          \/ more /\ Cur.t \notin OptionWords /\ Fail(0, Replace(1, Nothing))
          \/ ~more /\ Do(0, <<Want(")"), <<"returns", Arg>>>>, Push(OptionSet(Arg2)))

Returns ==
  \/ On("returns") /\ ~Is("RETURNS") /\ Do(0, <<<<"body", Arg>>>>, Push(Word("NONE")))
  \/ On("returns") /\ Is("RETURNS") /\ Do(1, <<Want("("), <<"type">>, <<"returned", Arg>>>>, vals)
  \/ On("returned") /\ V(1).w = "NONE" /\ Fail(0, Replace(3, Nothing))
  \/ On("returned") /\ V(1).w # "NONE" /\ Do(0, <<Want(")"), <<"body", Arg>>>>, vals)

(* END may be followed by a name, any name. *)
Body ==
  \/ On("body") /\ Do(0, <<Want(";"), Block, Want("END"), <<"end">>, Want(";"), <<"proc!", Arg>>>>, vals)
  \/ On("end") /\ Return(IF Alpha(Cur) THEN 1 ELSE 0, vals)

(* parse_program returns its node, after an error too. *)
Unexpected(n) == Fail(n, Push([k |-> "program", items |-> Arg]))

(* The label overwrites the procedure's own name. *)
Program ==
  \/ /\ On("program")
     /\ LET more == ~err /\ ~Is("EOF")
            labelled == Is("IDENT") /\ Tok(2).t = ":" IN
          \/ more /\ Cur.t \in {"DCL", "DECLARE"} /\ Do(0, <<<<"dcl">>, <<"top", Arg, "">>>>, vals)
          \/ more /\ Is("PROC") /\ Do(0, <<<<"proc">>, <<"top", Arg, "">>>>, vals)
          \/ more /\ labelled /\ Tok(3).t = "PROC" /\ Do(2, <<<<"proc">>, <<"top", Arg, Cur.v>>>>, vals)
          \/ more /\ labelled /\ Tok(3).t # "PROC" /\ Unexpected(2)
          \/ more /\ ~labelled /\ Cur.t \notin {"DCL", "DECLARE", "PROC"} /\ Unexpected(IF Is("IDENT") THEN 1 ELSE 0)
          \/ ~more /\ Return(0, Push([k |-> "program", items |-> Arg]))
  \/ /\ On("top")
     /\ LET named == IF Arg2 = "" \/ V(1) = Nothing THEN V(1) ELSE [V(1) EXCEPT !.x = Arg2] IN
          Do(0, <<<<"program", IF V(1) = Nothing THEN Arg ELSE Append(Arg, named)>>>>, Tail(vals))

Next ==
  \/ Expect \/ Primary \/ Sizeof \/ Arguments \/ Postfix \/ ExprPrec \/ Node
  \/ Type \/ Storage \/ Initial \/ Field \/ Record \/ Dcl
  \/ BlockLoop \/ Stmt \/ Branch \/ If \/ Asm \/ Select \/ Assign
  \/ Proc \/ Params \/ Options \/ Returns \/ Body \/ Program

Spec == Init /\ [][Next]_vars /\ WF_vars(Next)

-----------------------------------------------------------------------------
(* Properties *)

Done == goals = <<>>
Accepted == Done /\ ~err

(* parse_program returns one node, the program, whatever the text; the     *)
(* tokens are taken from the front, one by one.                            *)
TypeOK == /\ err \in BOOLEAN
          /\ toks = SubSeq(text.toks, Len(text.toks) - Len(toks) + 1, Len(text.toks))
          /\ Done => Len(vals) = 1 /\ V(1).k = "program"

(* A program written down is read as itself: nothing of it is refused,     *)
(* regrouped, or attached elsewhere.                                       *)
TreeOfText == text.tree # Nothing /\ Done => ~err /\ V(1) = text.tree

(* Whatever is accepted is in the tree, word by word and in order; signs   *)
(* that only separate, the words CALL and PROC, and options (a set) leave  *)
(* no trace.  Keywords serve as names, too.  Accepted or not, the text is  *)
(* taken from its front and one program comes back (TypeOK).  It is not    *)
(* claimed of words that are dropped, the name after END (parser.h:1092)   *)
(* and a procedure's own name behind a label (parser.h:926), nor of a      *)
(* second spelling of what the tree holds: DECLARE for DCL, AUTOMATIC,     *)
(* which is the default, INT(24) for INT, and a width that is rounded up.  *)
Traceless == {"(", ")", ",", ":", "CALL", "PROC", "OPTIONS"} \cup OptionWords
Traced(ts) == SelectSeq([i \in DOMAIN ts |-> ts[i].v], LAMBDA v : v \notin Traceless)
NothingSkipped == TypeOK /\ (Accepted => Traced(text.toks) = Traced(Text(V(1), Lowest)))

(* The parser returns on every text: each loop takes a token or stops at   *)
(* the first error.                                                        *)
Ends == <>Done
=============================================================================
