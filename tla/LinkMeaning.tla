----------------------------- MODULE LinkMeaning -----------------------------
(***************************************************************************)
(* What a linked program is, with no placeholders, listings or patches:    *)
(* the modules written one after the other, every la holding the final     *)
(* address of its symbol.  A symbol a module defines is its own there; any *)
(* other is that of the module that defines it.                            *)
(***************************************************************************)
EXTENDS MetaGen

Start(srcs, i) == Sums([j \in DOMAIN srcs |-> SizeOf(srcs[j])])[i - 1]

Owners(srcs, s) == {i \in DOMAIN srcs : s \in Defined(srcs[i])}
OwnerOf(srcs, i, s) == IF s \in Defined(srcs[i]) THEN i ELSE CHOOSE j \in Owners(srcs, s) : TRUE

FinalAddress(srcs, i, s) ==
  LET o == OwnerOf(srcs, i, s) IN Start(srcs, o) + OffsetOf(srcs[o], LabelAt(srcs[o], s))

(* No symbol is missing, and no name that modules share is taken twice. *)
Sound(srcs) ==
  /\ \A i \in DOMAIN srcs : \A l \in DOMAIN srcs[i] :
       srcs[i][l].op = "la" => Owners(srcs, srcs[i][l].arg) # {}
  /\ \A s \in Underscored : \A i, j \in Owners(srcs, s) : i = j

MeantBytes(srcs, i, line) ==
  Bytes(line, CASE line.op = "la" -> FinalAddress(srcs, i, line.arg)
                [] line.op = "num" -> line.arg
                [] OTHER -> 0)
ModuleImage(srcs, i) == Joined([l \in DOMAIN srcs[i] |-> MeantBytes(srcs, i, srcs[i][l])])
Image(srcs) == Joined([i \in DOMAIN srcs |-> ModuleImage(srcs, i)])
=============================================================================
