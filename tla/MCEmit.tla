-------------------------------- MODULE MCEmit --------------------------------
(* A buffer of three cells, two of them usable, cleared in part, under     *)
(* texts of up to five characters: no flush, one, two, and a flush that    *)
(* lands on the last character; compiles follow one another without end.   *)
EXTENDS Emit

MCChars == {1, 2}
MCBufSize == 3
MCCleared == 2
MCMaxText == 5
=============================================================================
