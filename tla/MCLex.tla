---------------------------------- MODULE MCLex -------------------------------
(* One source of up to five lines, over every arrangement of conditions    *)
(* and defines: three %IFs deep where two fit, a name in both cases, a     *)
(* third define where the table holds two.  And every main source with an  *)
(* included file, of up to three lines and two, that may include each      *)
(* other, themselves or a file that is not registered, two levels deep,    *)
(* with stray characters.                                                  *)
EXTENDS LexExpansion
CONSTANTS main, lib, ghost, a, A, b, one, two, none

MCFiles == {main, lib}
MCNames == {a, A, b}
MCFold == [n \in MCNames |-> IF n = A THEN a ELSE n]
MCValues == {one, two, none}
Directives == {Tok(a), Def(A, one), Def(a, two), Def(b, none),
               If(a, Any), If(A, two), If(b, Any), Else, Endif}
Common == {Tok(a), Def(a, one), Inc(lib)}
InMain == Common \cup {If(a, Any), Endif, Stray}
InLib == Common \cup {Def(b, one), Else, Inc(ghost), Inc(main)}
MCItems == Directives \cup InMain \cup InLib
UpTo(n, S) == UNION {[1 .. k -> S] : k \in 0 .. n}
Deep == UpTo(5, Directives) \X {<<>>}
Including == UpTo(3, InMain) \X UpTo(2, InLib)
Files2(S) == {[f \in MCFiles |-> IF f = main THEN c[1] ELSE c[2]] : c \in S}
DeepTexts == Files2(Deep)
IncludeTexts == Files2(Including)
MCTexts == Files2(Deep \cup Including)
MCIncMaxDepth == 2
MCDefMax == 2
MCCondMax == 2
MCIterMax == 5
=============================================================================
