----------------------------- MODULE LexExpansion -----------------------------
(***************************************************************************)
(* What the directives of a source promise: the token sequence a program   *)
(* stands for, defined on the contents of the files alone, with no frames, *)
(* no table of defines, and no stack of conditions that can be full.       *)
(***************************************************************************)
EXTENDS LexSource

Folded == {Fold[m] : m \in Names}
Token == [file : Files, line : Nat, as : Names \cup Values]

(* What has been read: the defines in force, the open conditions and the   *)
(* tokens.                                                                 *)
State == [env : [Folded -> Values \cup {Undefined}], open : Seq(Branch), toks : Seq(Token)]
Start == [env |-> [f \in Folded |-> Undefined], open |-> <<>>, toks |-> <<>>]

(* Reading a file from one of its lines on, some includes deep.            *)
Reading == [depth : 0 .. IncMaxDepth, file : Files, at : Nat \ {0}, st : State]
ReadMain == [depth |-> 0, file |-> Main, at |-> 1, st |-> Start]

Selected(st) == \A k \in 1 .. Len(st.open) : st.open[k].sel

Meaning(st, n) ==
  LET v == st.env[Fold[n]] IN IF v \in {Undefined, Empty} THEN n ELSE v

(* The main source counts its lines from 1, an included one from 0.        *)
LineOf(c) == IF c.depth > 0 THEN c.at - 1 ELSE c.at

Emitted(c, n) ==
  [c.st EXCEPT !.toks = Append(@, [file |-> c.file, line |-> LineOf(c), as |-> Meaning(c.st, n)])]
Defining(st, n, v) == [st EXCEPT !.env = [@ EXCEPT ![Fold[n]] = v]]
Opened(st, n, v) ==
  LET held == IF v = Any THEN st.env[Fold[n]] # Undefined ELSE st.env[Fold[n]] = v
  IN  [st EXCEPT !.open = Append(@, [sel |-> held, taken |-> held])]
Turned(st) ==
  [st EXCEPT !.open = [j \in 1 .. Len(@) |->
     IF j = Len(@) THEN [sel |-> ~@[j].taken, taken |-> TRUE] ELSE @[j]]]
Closed(st) == [st EXCEPT !.open = SubSeq(@, 1, Len(@) - 1)]

(* What a line adds that does not include a file.                          *)
After(c, i) ==
  CASE i.k = "tok" /\ Selected(c.st) -> Emitted(c, i.n)
    [] i.k = "define" /\ Selected(c.st) -> Defining(c.st, i.n, i.v)
    [] i.k = "if" -> Opened(c.st, i.n, i.v)
    [] i.k = "else" -> Turned(c.st)
    [] i.k = "endif" -> Closed(c.st)
    [] OTHER -> c.st

(* An %INCLUDE that is too deep, or of no file, stands for nothing.        *)
Enters(c, i) ==
  i.k = "include" /\ Selected(c.st) /\ i.f \in Files /\ c.depth < IncMaxDepth
Included(c, i) == [depth |-> c.depth + 1, file |-> i.f, at |-> 1, st |-> c.st]
Onward(c, st) == [depth |-> c.depth, file |-> c.file, at |-> c.at + 1, st |-> st]

(* Expand[c]: the state when the file that c reads has been read.          *)
Expand ==
  LET E[c \in Reading] ==
        IF c.at > Len(text[c.file]) THEN c.st
        ELSE LET i == text[c.file][c.at] IN
               E[Onward(c, IF Enters(c, i) THEN E[Included(c, i)] ELSE After(c, i))]
  IN  E

(* When the parser has been given the end of the source, and the compile   *)
(* is not failed by lex_fatal, it was given the whole expansion, each      *)
(* token with its own line: the iteration limit never ends a program       *)
(* quietly, an include comes back to the line after it, a define reaches   *)
(* into the files included later. (Not so, and excluded here: an %IF       *)
(* deeper than COND_MAX, an %INCLUDE that is too deep or not registered,   *)
(* a stray character; none of the three is reported.)                      *)
OutputIsExpansion ==
  done /\ ~fatal /\ ~over /\ ~dropped /\ ~stray => out = Expand[ReadMain].toks
=============================================================================
