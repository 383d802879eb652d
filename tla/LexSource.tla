------------------------------- MODULE LexSource ------------------------------
(***************************************************************************)
(* What the lexer does before a token reaches the parser (lexer.h): the    *)
(* %INCLUDE stack, the %DEFINE table with its substitution, and the        *)
(* %IF / %ELSE / %ENDIF stack, as lex_scan's loop drives them.             *)
(*                                                                         *)
(* A file is a sequence of items, one to a line; a step is one iteration   *)
(* of that loop: it reads an item, or leaves a file that is exhausted.     *)
(* Which contents the files have is chosen in the initial state.           *)
(***************************************************************************)
EXTENDS Integers, Sequences

CONSTANTS Files, Main,            \* the registered files, and the main source
          Names, Fold,            \* identifiers; Fold[n]: n in one case
          Values, Empty,          \* %DEFINE values, and the empty one
          Items,                  \* what a line may hold
          Texts,                  \* the contents the files may have
          IncMaxDepth, DefMax, CondMax,   \* INC_MAX_DEPTH, DEF_MAX, COND_MAX
          IterMax                 \* the iteration limit of lex_scan, 10000

Any == "defined"        \* %IF NAME; and %IF DEFINED(NAME);
Undefined == "undefined"
Tok(n) == [k |-> "tok", n |-> n]
Def(n, v) == [k |-> "define", n |-> n, v |-> v]
If(n, v) == [k |-> "if", n |-> n, v |-> v]
Else == [k |-> "else"]
Endif == [k |-> "endif"]
Inc(f) == [k |-> "include", f |-> f]    \* f outside Files: not registered
Stray == [k |-> "stray"]                \* a character no token starts with

ASSUME LexAssumption ==
  /\ Main \in Files /\ Fold \in [Names -> Names] /\ Empty \in Values
  /\ {Any, Undefined} \cap Values = {}
  /\ \A i \in Items :
       \/ \E n \in Names : i = Tok(n)
       \/ \E n \in Names, v \in Values : i = Def(n, v)
       \/ \E n \in Names, v \in Values \cup {Any} : i = If(n, v)
       \/ i \in {Else, Endif, Stray}
       \/ i.k = "include" /\ i = Inc(i.f)
  /\ Texts \subseteq [Files -> Seq(Items)]
  /\ IncMaxDepth \in Nat /\ DefMax \in Nat /\ CondMax \in Nat /\ IterMax \in Nat

VARIABLES
  text,        \* the content of every file
  src, pos, line,               \* lex_src, lex_pos, lex_line
  incStack,                     \* inc_src_stack, inc_pos_stack, inc_line_stack
  defs,                         \* def_names, def_values, in order
  condActive, condSeen, condDepth,   \* cond_active, cond_seen_true, cond_depth
  iter, fatal,                  \* scan_iter, lex_fatal
  done,                         \* the parser was given TOK_EOF
  out,                          \* history: the tokens the parser was given
  nest,                         \* history: every %IF open, however deep
  env,                          \* history: the last %DEFINE of each name
  over, dropped, stray          \* history: an %IF or an %INCLUDE found no
                                \* room; a stray character was read

place == <<src, pos, line, incStack>>
conds == <<condActive, condSeen, condDepth, nest, over>>
vars == <<text, place, defs, conds, iter, fatal, done, out, env, dropped, stray>>

Init ==
  /\ text \in Texts
  /\ src = Main /\ pos = 1 /\ line = 1 /\ incStack = <<>>
  /\ defs = <<>> /\ condDepth = 0
  /\ condActive = [k \in 0 .. CondMax - 1 |-> FALSE]
  /\ condSeen = [k \in 0 .. CondMax - 1 |-> FALSE]
  /\ iter = 0 /\ fatal = FALSE /\ done = FALSE
  /\ out = <<>> /\ nest = <<>> /\ over = FALSE /\ dropped = FALSE /\ stray = FALSE
  /\ env = [n \in {Fold[m] : m \in Names} |-> Undefined]

-----------------------------------------------------------------------------
(* Lookups *)

(* def_get: the first entry with the name, letter case aside; the null     *)
(* pointer is Undefined.                                                   *)
EntryExactCase(n) == {d \in 1 .. Len(defs) : defs[d].n = n}   \* mutant: str_eq
Entries(n) == {d \in 1 .. Len(defs) : Fold[defs[d].n] = Fold[n]}
DefGet(n) ==
  IF Entries(n) = {} THEN Undefined
  ELSE defs[CHOOSE d \in Entries(n) : \A e \in Entries(n) : d <= e].v

(* lex_eval_condition: DEFINED(NAME), NAME, or NAME = VALUE.               *)
Holds(n, v) == IF v = Any THEN DefGet(n) # Undefined ELSE DefGet(n) = v

(* cond_emitting *)
Emitting == condDepth > 0 => condActive[condDepth - 1]

Here == text[src][pos]
AtEnd == pos > Len(text[src])
Scanning == ~done /\ iter < IterMax

(* Past the item, to the next line of the same file.                       *)
Past == /\ pos' = pos + 1 /\ line' = line + 1
        /\ UNCHANGED <<text, src, incStack>>
NextIteration == iter' = iter + 1 /\ UNCHANGED <<fatal, done, out>>

-----------------------------------------------------------------------------
(* lex_scan *)

(* A token reaches the parser: an identifier that a %DEFINE gives a        *)
(* non-empty value becomes that value, once.                               *)
ScanToken ==
  /\ Scanning /\ ~AtEnd /\ Emitting /\ Here.k = "tok"
  /\ LET v == DefGet(Here.n) IN
       out' = Append(out, [file |-> src, line |-> line,
                           as |-> IF v \in {Undefined, Empty} THEN Here.n ELSE v])
  /\ iter' = 0
  /\ Past
  /\ UNCHANGED <<defs, conds, fatal, done, env, dropped, stray>>

(* In a false branch tokens, %INCLUDE and %DEFINE are read past.           *)
SkipItem ==
  /\ Scanning /\ ~AtEnd /\ ~Emitting /\ Here.k \in {"tok", "include", "define", "stray"}
  /\ Past /\ NextIteration
  /\ UNCHANGED <<defs, conds, env, dropped, stray>>

IncRoom == Len(incStack) < IncMaxDepth

ReturnAddressFirstLine == [src |-> src, pos |-> pos + 1, line |-> 1]   \* mutant
ReturnAddress == [src |-> src, pos |-> pos + 1, line |-> line + 1]

(* %INCLUDE: a file that is not registered, or a fifth level, is ignored.  *)
ReadInclude ==
  /\ Scanning /\ ~AtEnd /\ Emitting /\ Here.k = "include"
  /\ IF Here.f \in Files /\ IncRoom
     THEN /\ incStack' = Append(incStack, ReturnAddress)
          /\ src' = Here.f /\ pos' = 1 /\ line' = 0
          /\ UNCHANGED <<text, dropped>>
     ELSE Past /\ dropped' = TRUE
  /\ NextIteration
  /\ UNCHANGED <<defs, conds, env, stray>>

(* inc_pop, at the end of an included file.                                *)
LeaveInclude ==
  /\ Scanning /\ AtEnd /\ incStack # <<>>
  /\ LET parent == incStack[Len(incStack)] IN
       src' = parent.src /\ pos' = parent.pos /\ line' = parent.line
  /\ incStack' = SubSeq(incStack, 1, Len(incStack) - 1)
  /\ NextIteration
  /\ UNCHANGED <<text, defs, conds, env, dropped, stray>>

(* %DEFINE: def_set replaces the value of a name it knows, appends one it  *)
(* does not, and raises lex_fatal when the table is full.                  *)
ReadDefine ==
  /\ Scanning /\ ~AtEnd /\ Emitting /\ Here.k = "define"
  /\ env' = [env EXCEPT ![Fold[Here.n]] = Here.v]
  /\ IF Entries(Here.n) # {}
     THEN /\ defs' = [d \in 1 .. Len(defs) |->
                        IF d \in Entries(Here.n) THEN [defs[d] EXCEPT !.v = Here.v] ELSE defs[d]]
          /\ UNCHANGED fatal
     ELSE IF Len(defs) < DefMax
     THEN defs' = Append(defs, [n |-> Here.n, v |-> Here.v]) /\ UNCHANGED fatal
     ELSE fatal' = TRUE /\ UNCHANGED defs
  /\ Past
  /\ iter' = iter + 1
  /\ UNCHANGED <<conds, done, out, dropped, stray>>

ActiveAloneMutant(result) == result     \* mutant: the parent's state is not consulted
ActiveUnder(result) == Emitting /\ result

(* %IF: evaluated even in a false branch; beyond COND_MAX it leaves no     *)
(* trace.                                                                  *)
ReadIf ==
  /\ Scanning /\ ~AtEnd /\ Here.k = "if"
  /\ LET result == Holds(Here.n, Here.v) IN
       /\ IF condDepth < CondMax
          THEN /\ condActive' = [condActive EXCEPT ![condDepth] = ActiveUnder(result)]
               /\ condSeen' = [condSeen EXCEPT ![condDepth] = result]
               /\ condDepth' = condDepth + 1
               /\ UNCHANGED over
          ELSE over' = TRUE /\ UNCHANGED <<condActive, condSeen, condDepth>>
       /\ nest' = Append(nest, [sel |-> result, taken |-> result])
  /\ Past /\ NextIteration
  /\ UNCHANGED <<defs, env, dropped, stray>>

ParentActive == condDepth > 1 => condActive[condDepth - 2]

(* %ELSE: takes the branch when no earlier one was taken.                  *)
ReadElse ==
  /\ Scanning /\ ~AtEnd /\ Here.k = "else"
  /\ IF condDepth = 0
     THEN UNCHANGED <<condActive, condSeen>>
     ELSE LET d     == condDepth - 1
              takes == ParentActive /\ ~condSeen[d]
          IN  /\ condActive' = [condActive EXCEPT ![d] = takes]
              /\ condSeen' = [condSeen EXCEPT ![d] = takes \/ @]
  /\ nest' = [j \in 1 .. Len(nest) |->
                IF j = Len(nest) THEN [sel |-> ~nest[j].taken, taken |-> TRUE] ELSE nest[j]]
  /\ Past /\ NextIteration
  /\ UNCHANGED <<condDepth, over, defs, env, dropped, stray>>

ReadEndif ==
  /\ Scanning /\ ~AtEnd /\ Here.k = "endif"
  /\ condDepth' = IF condDepth > 0 THEN condDepth - 1 ELSE 0
  /\ nest' = SubSeq(nest, 1, Len(nest) - 1)
  /\ Past /\ NextIteration
  /\ UNCHANGED <<condActive, condSeen, over, defs, env, dropped, stray>>

(* The end of the main source.                                             *)
EndOfSource ==
  /\ Scanning /\ AtEnd /\ incStack = <<>>
  /\ done' = TRUE
  /\ UNCHANGED <<text, place, defs, conds, iter, fatal, out, env, dropped, stray>>

(* A character that starts no token is handed to the parser as TOK_EOF.    *)
ReadStray ==
  /\ Scanning /\ ~AtEnd /\ Emitting /\ Here.k = "stray"
  /\ done' = TRUE /\ stray' = TRUE
  /\ UNCHANGED <<text, place, defs, conds, iter, fatal, out, env, dropped>>

QuietVerdict == fatal       \* mutant: the limit only ends the scan
RunawayVerdict == TRUE

(* The loop limit: TOK_EOF for the parser, and a failed compile.           *)
Runaway ==
  /\ ~done /\ iter >= IterMax
  /\ fatal' = RunawayVerdict /\ done' = TRUE
  /\ UNCHANGED <<text, place, defs, conds, iter, out, env, dropped, stray>>

Step ==
  \/ ScanToken \/ SkipItem \/ ReadInclude \/ LeaveInclude \/ ReadDefine
  \/ ReadIf \/ ReadElse \/ ReadEndif \/ EndOfSource \/ ReadStray
  \/ Runaway

Finished == done /\ UNCHANGED vars

Next == Step \/ Finished

Spec == Init /\ [][Next]_vars

-----------------------------------------------------------------------------
(* Properties *)

Line == [n : Names, v : Values]
Frame == [src : Files, pos : Nat \ {0}, line : Nat]
Branch == [sel : BOOLEAN, taken : BOOLEAN]

PlaceTypes ==
  /\ text \in [Files -> Seq(Items)] /\ src \in Files
  /\ pos \in Nat \ {0} /\ line \in Nat
  /\ incStack \in Seq(Frame) /\ Len(incStack) <= IncMaxDepth

DefTypes ==
  /\ defs \in Seq(Line) /\ Len(defs) <= DefMax
  /\ env \in [{Fold[m] : m \in Names} -> Values \cup {Undefined}]

CondTypes ==
  /\ condDepth \in 0 .. CondMax
  /\ condActive \in [0 .. CondMax - 1 -> BOOLEAN]
  /\ condSeen \in [0 .. CondMax - 1 -> BOOLEAN]
  /\ nest \in Seq(Branch)
  /\ over \in BOOLEAN

FlagTypes ==
  /\ iter \in Nat /\ fatal \in BOOLEAN /\ done \in BOOLEAN
  /\ dropped \in BOOLEAN /\ stray \in BOOLEAN

(* Every variable keeps its type; the defines, the frames and the open     *)
(* conditions fit the fixed arrays of lexer.h.                             *)
TypeOK == PlaceTypes /\ DefTypes /\ CondTypes /\ FlagTypes

AllSelected == \A k \in 1 .. Len(nest) : nest[k].sel

(* While no %IF was too deep, tokens are emitted exactly when every %IF    *)
(* open is in the branch its condition selects: a false parent silences    *)
(* its children, and leaving a child never revives or silences a parent.   *)
CondExact == ~over => (Emitting <=> AllSelected)

(* As long as lex_fatal is clear, looking a name up gives the value of the *)
(* last %DEFINE of it that was in force, whatever case either is written   *)
(* in: one entry to a name, replaced and not shadowed.                     *)
DefsExact == ~fatal => \A n \in Names : DefGet(n) = env[Fold[n]]

(* The comment on cond_emitting (lexer.h:162): "Are we currently emitting  *)
(* tokens? (all enclosing %IFs are true)". It holds of every nesting in    *)
(* no program that opens more than COND_MAX.                               *)
EmittingMeansAllTrue == Emitting => AllSelected

(* The comment in inc_push (lexer.h:72): "included content: line 0 = not   *)
(* from main source".                                                      *)
IncludedLinesAreZero == \A k \in 1 .. Len(out) : out[k].file # Main => out[k].line = 0
=============================================================================
