---------------------------------- MODULE Macro -------------------------------
(***************************************************************************)
(* MACRODEF and ?NAME invocations (macro.h) with the include stack they    *)
(* are expanded through (lexer.h) and the statement parser that reads the  *)
(* result (parser.h).  All expansions share one buffer, mac_expand_buf; an *)
(* invocation writes it and pushes it as if it were an included file, even *)
(* when the invocation was itself read from the buffer.                    *)
(*                                                                         *)
(* Texts are sequences of tokens of one width, a cell each.                *)
(***************************************************************************)
EXTENDS MacroMeaning, FiniteSets

CONSTANTS Programs,
          MacroMax, ClauseMax, GenMax, GenLines,   \* MACRO_MAX, MACRO_CLAUSE_MAX ...
          BodyMax, ExpandMax,       \* MACRO_BODY_MAX and MAC_EXPAND_MAX, in cells
          IncMaxDepth               \* INC_MAX_DEPTH

VARIABLES
  prog,         \* history: the program being compiled
  text,         \* its source
  macs,         \* the macros defined
  lex,          \* lex_src, lex_pos, lex_len; up: what inc_push saved
  buf,          \* mac_expand_buf
  stk,          \* what parse_program and parse_stmt are inside of
  err, fin,     \* parse_err; the end was reached
  out,          \* history: the statements parsed, under their conditions
  meaning       \* the statements prog stands for

source == <<prog, text, meaning>>
vars == <<source, macs, lex, buf, stk, err, fin, out>>

Eof == <<"eof", "">>            \* also what a null character scans as
Bottom == [src |-> "none"]

Init ==
  /\ prog \in Programs /\ text = ProgramText(prog) /\ meaning = Meaning(prog)
  /\ macs = <<>> /\ buf = <<Eof>> /\ stk = <<>> /\ out = <<>>
  /\ lex = [src |-> "main", pos |-> 1, len |-> Len(text), up |-> Bottom]
  /\ err = FALSE /\ fin = FALSE

-----------------------------------------------------------------------------
(* The lexer: a source that is exhausted gives way to the one below it.    *)
(* ts, below, is what it has yet to scan; a handler reads some of it.      *)

RECURSIVE Unread(_), Depth(_), Past(_, _)
Unread(l) ==
  SubSeq(IF l.src = "main" THEN text ELSE buf, l.pos, l.len)
    \o (IF l.up = Bottom THEN <<Eof>> ELSE Unread(l.up))
Depth(l) == IF l.up = Bottom THEN 0 ELSE 1 + Depth(l.up)

(* The lexer n tokens further, in the source of the last one.              *)
Past(l, n) ==
  IF l.pos + n > l.len + 1 /\ l.up # Bottom THEN Past(l.up, n - (l.len - l.pos + 1))
  ELSE [l EXCEPT !.pos = @ + n]

IncRoom(l) == Depth(l) < IncMaxDepth
PushedOver(l, n) == [src |-> "buf", pos |-> 1, len |-> n, up |-> l.up]     \* mutant: not stacked
Pushed(l, n) == [src |-> "buf", pos |-> 1, len |-> n, up |-> l]

Keywords == {"IF", "THEN", "ELSE", "DO", "END", "SELECT", "WHEN", "?", ";", "ASM", "PROC"}
Keyword(t) == t = Eof \/ (t[1] = "w" /\ t[2] \in Keywords)

(* The first place from k on that passes the test; Eof always does.        *)
First(ts, k, Test(_)) ==
  CHOOSE j \in k .. Len(ts) : /\ ts[j] = Eof \/ Test(j)
                              /\ \A i \in k .. j - 1 : ts[i] # Eof /\ ~Test(i)

Count(ts, k, j, t) == Cardinality({i \in k .. j : ts[i] = t})

(* The close that matches what was opened before k.                        *)
FirstEnd(ts, k, open, close) == LET is(j) == ts[j] = close IN First(ts, k, is)     \* mutant
Matching(ts, k, open, close) ==
  LET ends(j) == ts[j] = close /\ Count(ts, k, j - 1, open) = Count(ts, k, j - 1, close)
  IN  First(ts, k, ends)

(* Expressions and simple statements: tokens up to a keyword.              *)
WordsEnd(ts, k) == LET key(j) == Keyword(ts[j]) IN First(ts, k, key)

(* The text tokens leave in a macro body or an argument: cur_text, which   *)
(* for a string is without its quotes.                                     *)
CurText(ts) == FlattenSeq([j \in DOMAIN ts |-> IF ts[j][1] = "str" THEN ts[j][2] ELSE <<ts[j]>>])

Least(a, b) == IF a < b THEN a ELSE b

-----------------------------------------------------------------------------
(* mac_parse_def, from the token MACRODEF.                                 *)

NumClauses(ts) == LET other(j) == ts[j] \notin {W("REQUIRED"), W("OPTIONAL")} IN
                    CHOOSE n \in 0 .. Len(ts) \div 6 : /\ other(4 + 6 * n)
                                                        /\ \A i \in 0 .. n - 1 : ~other(4 + 6 * i)
ClauseList(ts) == [i \in 1 .. NumClauses(ts) |-> <<ts[6 * i - 2][2], ts[6 * i - 1][2]>>]

(* The strings of a GEN DO or ASM DO block that begins at k.               *)
BlockEnd(ts, k) == LET end(j) == ts[j] = W("END") IN First(ts, k, end)
Lines(ts, k) ==
  LET strings == SelectSeq(SubSeq(ts, k + 3, BlockEnd(ts, k) - 1), LAMBDA t : t[1] = "str")
  IN  [j \in DOMAIN strings |-> strings[j][2]]

GenBlocks(ts, from) ==
  LET g[k \in from .. Len(ts)] ==
        IF ts[k] # W("GEN") THEN [blocks |-> <<>>, at |-> k]
        ELSE LET rest == g[BlockEnd(ts, k) + 2] IN [rest EXCEPT !.blocks = <<Lines(ts, k)>> \o @]
  IN  g[from]

(* mac_parse_body; what does not fit is dropped.                           *)
BodyEnd(ts, k) == Matching(ts, k, W("DO"), W("END"))
BodyText(ts, k) == LET whole == CurText(SubSeq(ts, k, BodyEnd(ts, k) - 1)) IN
                     SubSeq(whole, 1, Least(Len(whole), BodyMax))

Define ==
  /\ \E ts \in {Unread(lex)} :
       /\ ts[1] = W("MACRODEF") /\ stk = <<>>
       /\ \E g \in {GenBlocks(ts, 4 + 6 * NumClauses(ts))} :
            LET end == BodyEnd(ts, g.at)
            IN  IF /\ Len(macs) < MacroMax /\ NumClauses(ts) <= ClauseMax /\ Len(g.blocks) <= GenMax
                   /\ \A j \in DOMAIN g.blocks : Len(g.blocks[j]) <= GenLines
                   /\ ts[end] # Eof
                THEN /\ macs' = Append(macs, [name |-> ts[2][2], clauses |-> ClauseList(ts), gen |-> g.blocks,
                                              body |-> BodyText(ts, g.at)])
                     /\ lex' = Past(lex, IF ts[end + 1] = Semi THEN end + 1 ELSE end)
                     /\ UNCHANGED err
                ELSE err' = TRUE /\ UNCHANGED <<macs, lex>>
  /\ UNCHANGED <<source, buf, stk, fin, out>>

-----------------------------------------------------------------------------
(* mac_parse_invoke and mac_expand                                         *)

(* The clauses from k on: where the invocation ends, and the arguments.    *)
Arguments(ts, m, from) ==
  LET a[k \in from .. Len(ts)] ==
        IF ts[k] \in {Semi, Eof} THEN [ok |-> TRUE, at |-> k, args |-> <<>>]
        ELSE IF ts[k][2] \notin Clauses(m) \/ ts[k + 1] # W("(") THEN [ok |-> FALSE, at |-> k, args |-> <<>>]
        ELSE LET end  == Matching(ts, k + 2, W("("), W(")"))
                 rest == a[Least(end + 1, Len(ts))]
             IN  [rest EXCEPT !.args = [c \in DOMAIN @ \cup {ts[k][2]} |->
                                          IF c \in DOMAIN @ THEN @[c] ELSE CurText(SubSeq(ts, k + 2, end - 1))]]
  IN  a[from]

MissingNone(m, args) == FALSE                           \* mutant
Missing(m, args) == \E j \in DOMAIN m.clauses : m.clauses[j][1] = "REQUIRED" /\ m.clauses[j][2] \notin DOMAIN args

GenWord(m, args, t) ==
  IF t[1] = "hole" /\ t[2] \in Clauses(m) THEN (IF t[2] \in DOMAIN args THEN Label(args[t[2]]) ELSE <<>>)
  ELSE <<t>>
GenLine(m, args, line) ==
  <<W("ASM"), W("DO"), Semi, Str(FlattenSeq([j \in DOMAIN line |-> GenWord(m, args, line[j])])),
    Semi, W("END"), Semi>>

BodyWordGiven(m, args, t) == IF t[2] \in DOMAIN args THEN args[t[2]] ELSE <<t>>    \* mutant: no 0
BodyWord(m, args, t) ==
  IF t[2] \in Clauses(m) THEN (IF t[2] \in DOMAIN args THEN args[t[2]] ELSE Unset) ELSE <<t>>

(* mac_exp_append drops a piece that does not fit; a line is one here.     *)
(* A singleton, so that TLC evaluates each step once.                      *)
RECURSIVE Fitted(_, _)
Fitted(news, pieces) ==
  IF pieces = <<>> THEN news
  ELSE Fitted({IF Len(new) + Len(pieces[1]) > ExpandMax THEN new ELSE new \o pieces[1] : new \in news}, Tail(pieces))

Expansion(m, args) ==
  LET lines == FlattenSeq(m.gen)
  IN  Fitted({<<>>}, [j \in DOMAIN lines |-> GenLine(m, args, lines[j])]
                       \o [j \in DOMAIN m.body |-> BodyWord(m, args, m.body[j])])

(* The buffer keeps what lies beyond the new text and its null character.  *)
Written(new) ==
  [j \in 1 .. (IF Len(buf) > Len(new) + 1 THEN Len(buf) ELSE Len(new) + 1) |->
     IF j <= Len(new) THEN new[j] ELSE IF j = Len(new) + 1 THEN Eof ELSE buf[j]]

MacLookup(x) == {j \in DOMAIN macs : macs[j].name = x /\ \A i \in 1 .. j - 1 : macs[i].name # x}

InStatement == stk # <<>> /\ ~Last(stk).done

Invoke ==
  /\ InStatement
  /\ \E ts \in {Unread(lex)} :
       /\ ts[1] = W("?")
       /\ IF MacLookup(ts[2][2]) = {} THEN err' = TRUE /\ UNCHANGED <<lex, buf>>
          ELSE \E m \in {macs[j] : j \in MacLookup(ts[2][2])} : \E a \in {Arguments(ts, m, 3)} :
               IF ~a.ok \/ Missing(m, a.args) THEN err' = TRUE /\ UNCHANGED <<lex, buf>>
               ELSE \E new \in Expansion(m, a.args) : \E after \in {Past(lex, a.at)} :
                    /\ buf' = Written(new)
                    /\ IF new = <<>> \/ ~IncRoom(after) THEN err' = TRUE /\ UNCHANGED lex
                       ELSE lex' = Pushed(after, Len(new)) /\ UNCHANGED err
  /\ UNCHANGED <<source, macs, stk, fin, out>>

-----------------------------------------------------------------------------
(* The parser.  A frame is what is being parsed: a PROC or DO block, the   *)
(* branch of an IF, the WHEN of a SELECT; in: its conditions, with c.      *)

Frame(k, in, c) == [k |-> k, in |-> in, c |-> c, done |-> FALSE]
Inside == IF stk = <<>> THEN <<>> ELSE LET f == Last(stk) IN IF f.c = <<>> THEN f.in ELSE Append(f.in, f.c)

(* A statement is complete: it was the branch of an IF, or one of a block. *)
Complete(s) ==
  IF s # <<>> /\ Last(s).k \in {"then", "else"} THEN [s EXCEPT ![Len(s)].done = TRUE] ELSE s

Moves(n, s) == lex' = Past(lex, n) /\ stk' = s /\ UNCHANGED err
Refuses == err' = TRUE /\ UNCHANGED <<lex, stk>>
Rest == UNCHANGED <<source, macs, buf, fin>>

StartProc(ts) == stk = <<>> /\ ts[1] = W("PROC") /\ Moves(1, <<Frame("proc", <<>>, <<>>)>>) /\ UNCHANGED out

Plain(ts) ==
  /\ InStatement /\ ~Keyword(ts[1])
  /\ LET end == WordsEnd(ts, 1) IN
       IF ts[end] # Semi THEN Refuses /\ UNCHANGED out
       ELSE Moves(end, Complete(stk)) /\ out' = Append(out, <<SubSeq(ts, 1, end - 1), Inside>>)

AsmBlock(ts) ==
  /\ InStatement /\ ts[1] = W("ASM")
  /\ Moves(BlockEnd(ts, 1) + 1, Complete(stk))
  /\ LET lines == Lines(ts, 1) IN out' = out \o [j \in DOMAIN lines |-> <<Asm(lines[j]), Inside>>]

OpenDo(ts) == InStatement /\ ts[1] = W("DO") /\ Moves(2, Append(stk, Frame("block", Inside, <<>>))) /\ UNCHANGED out

(* IF c THEN, and SELECT; WHEN (c).                                        *)
OpenIf(ts) ==
  /\ InStatement /\ ts[1] = W("IF")
  /\ LET end == WordsEnd(ts, 2) IN
       IF ts[end] = W("THEN") THEN Moves(end, Append(stk, Frame("then", Inside, SubSeq(ts, 2, end - 1)))) ELSE Refuses
  /\ UNCHANGED out

OpenSelect(ts) ==
  /\ InStatement /\ ts[1] = W("SELECT")
  /\ LET end == Matching(ts, 5, W("("), W(")")) IN
       IF ts[3] = W("WHEN") /\ ts[end] = W(")")
       THEN Moves(end, Append(stk, Frame("when", Inside, SubSeq(ts, 5, end - 1)))) ELSE Refuses
  /\ UNCHANGED out

(* After the branch: ELSE, or the end of the IF, itself a statement.       *)
AfterBranch(ts) ==
  /\ stk # <<>> /\ Last(stk).done
  /\ LET f == Last(stk) IN
       IF f.k = "then" /\ ts[1] = W("ELSE")
       THEN Moves(1, Append(Front(stk), Frame("else", f.in, Not(f.c))))
       ELSE Moves(0, Complete(Front(stk)))
  /\ UNCHANGED out

Close(ts) ==
  /\ InStatement /\ ts[1] = W("END")
  /\ IF Last(stk).k \in {"proc", "block", "when"} /\ ts[2] = Semi THEN Moves(2, Complete(Front(stk))) ELSE Refuses
  /\ UNCHANGED out

(* A token that starts no statement, or nothing at the top level.          *)
Stray(ts) ==
  /\ \/ InStatement /\ ts[1] \in {Eof, Semi} \cup {W(x) : x \in {"THEN", "ELSE", "WHEN", "PROC"}}
     \/ stk = <<>> /\ ts[1] \notin {W("MACRODEF"), W("PROC"), Eof}
  /\ Refuses /\ UNCHANGED out

ParseStatement ==
  /\ \E ts \in {Unread(lex)} :
       StartProc(ts) \/ Plain(ts) \/ AsmBlock(ts) \/ OpenDo(ts) \/ OpenIf(ts) \/ OpenSelect(ts)
         \/ AfterBranch(ts) \/ Close(ts) \/ Stray(ts)
  /\ Rest

Finish == /\ stk = <<>> /\ Unread(lex)[1] = Eof /\ fin' = TRUE
          /\ UNCHANGED <<source, macs, lex, buf, stk, err, out>>

Parse == ~err /\ ~fin /\ (Define \/ Invoke \/ ParseStatement \/ Finish)
Stop == (err \/ fin) /\ UNCHANGED vars

Next == Parse \/ Stop
Spec == Init /\ [][Next]_vars
FairSpec == Spec /\ WF_vars(Parse)      \* compile_program runs to its end

-----------------------------------------------------------------------------
(* Properties *)

(* The limits hold: the include stack, the macros, and their texts.        *)
TypeOK ==
  /\ Depth(lex) <= IncMaxDepth
  /\ Len(macs) <= MacroMax
  /\ \A j \in DOMAIN macs : Len(macs[j].body) <= BodyMax
  /\ Len(buf) <= ExpandMax + 1
  /\ \A j \in DOMAIN stk : stk[j].done => j = Len(stk)

(* The parser sees the program with every invocation replaced by its macro *)
(* in place, under the conditions the invocation stands under, as far as   *)
(* it gets; and a program that is accepted, all of it.                     *)
Expands ==
  /\ IsPrefix(out, meaning)
  /\ fin => out = meaning

(* A program is refused by the limits on definitions, by an invocation     *)
(* that its macro's clauses do not allow, whose macro nobody defined or    *)
(* whose expansion has no text, by the depth of the include stack or an    *)
(* empty statement, and by nothing else; so the tables never overflow      *)
(* (TypeOK).                                                               *)
RECURSIVE Sound(_, _, _)
Sound(p, s, n) ==
  CASE s.k = "plain" -> s.ts # <<>>
    [] s.k = "if" -> Sound(p, s.t, n) /\ (s.e = None \/ Sound(p, s.e, n))
    [] s.k \in {"do", "select"} -> \A j \in DOMAIN s.ss : Sound(p, s.ss[j], n)
    [] s.k = "inv" ->
         /\ n < IncMaxDepth /\ Defined(p, s.m)
         /\ LET d == MacroOf(p, s.m) IN
              /\ Given(s) \subseteq Clauses(d)
              /\ \A j \in DOMAIN d.clauses : d.clauses[j][1] = "REQUIRED" => d.clauses[j][2] \in Given(s)
              /\ FlattenSeq(d.gen) # <<>> \/ d.body # <<>>
              /\ \A j \in DOMAIN d.body : Sound(p, d.body[j], n + 1)
Definable(d) == Len(d.clauses) <= ClauseMax /\ Len(d.gen) <= GenMax /\ \A j \in DOMAIN d.gen : Len(d.gen[j]) <= GenLines
Accepted(p) == /\ Len(p.defs) <= MacroMax /\ \A j \in DOMAIN p.defs : Definable(p.defs[j])
               /\ \A j \in DOMAIN p.body : Sound(p, p.body[j], 0)
RefusedOnlyIfUnsound == TypeOK /\ (fin \/ err => (fin <=> Accepted(prog)))

(* Every compilation ends, that of a macro which invokes itself included.  *)
Ends == <>(fin \/ err)
=============================================================================
