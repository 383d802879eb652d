-------------------------------- MODULE MCLink -------------------------------
(***************************************************************************)
(* Two shared names and a local one.  Programs of two modules, of up to    *)
(* three lines and up to two, and of three small ones, each ended by a     *)
(* byte of data, as the compiler ends a module; address bytes have four    *)
(* values, so addresses need all three.                                    *)
(***************************************************************************)
EXTENDS Link

MCByteBase == 4
MCSymbols == {"_A", "_B", "L"}
MCUnderscored == {"_A", "_B"}

LineForms == {Label("_A"), Label("_B"), Label("L"), La("_A"), La("_B"), La("L"), Num(0), Num(5)}

(* The source's own la rN,0 comes after the references to other modules,   *)
(* where it costs nothing but a warning.                                   *)
Sources(n) == {text \in UNION {[1 .. i -> LineForms] : i \in 0 .. n} : Assembles(text)}
Ended(texts) == {Append(text, Data(1)) : text \in texts}
Tame(n) == Ended({text \in Sources(n) : ZerosLast(text)})

MCPrograms == {<<a, b>> : a \in Tame(3), b \in Tame(2)}
                \cup {<<a, b, c>> : a \in Tame(1), b \in Tame(2), c \in Tame(1)}

ASSUME RegularPrograms == \A p \in MCPrograms : \A i \in DOMAIN p : Regular(p[i])

ZeroPrograms == {<<a, b>> : a \in Ended(Sources(2)), b \in Tame(1)}
TrailingPrograms == {<<a, b>> : a \in Tame(1), b \in Sources(2)}

Module(exports, fixups, n) ==
  [exports |-> exports, fixups |-> fixups, bin |-> [i \in 1 .. n |-> i % 5]]

(* Metadata written by hand: overlapping and shared fixups, and one beyond *)
(* the end of the program.                                                 *)
MCHandmade ==
  {<<Module(<<[sym |-> "_A", at |-> 2]>>, fixups, 6), Module(<<>>, <<[at |-> 0, sym |-> "_A"]>>, 5)>> :
     fixups \in {<<>>, <<[at |-> 0, sym |-> "_A"], [at |-> 2, sym |-> "_A"]>>}}
  \cup {<<Module(<<[sym |-> "_A", at |-> 0]>>, <<[at |-> 3, sym |-> "_A"]>>, 6)>>}

(* Any module can be the entry; the scripts name the first. *)
MCEntryPlaces == 1 .. 3

NoPrograms == {}
NoHandmade == {<<Module(<<>>, <<>>, 1)>>}
(* A fixup that runs over the end of its module, into the next. *)
StaleHandmade ==
  {<<Module(<<[sym |-> "_A", at |-> 0]>>, <<[at |-> 4, sym |-> "_A"]>>, 6), Module(<<>>, <<>>, 5)>>}
=============================================================================
