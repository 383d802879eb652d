------------------------------- MODULE MetaGen -------------------------------
(***************************************************************************)
(* meta-gen (components/linker/src/meta_gen.rs) and the assembler it works *)
(* around.  prep replaces every la of a symbol the module does not define  *)
(* by la rN,0 and lists the symbols in order; emit reads the listing of    *)
(* what was assembled and pairs its la rN,0 lines with that list.          *)
(*                                                                         *)
(* A line of assembly is a label, an la of a symbol, an la of a number, or *)
(* some bytes (any other instruction or data).  Names of lines do not      *)
(* matter beyond whether they start with an underscore.                    *)
(***************************************************************************)
EXTENDS LinkAddress

CONSTANTS Symbols,        \* the names of labels
          Underscored     \* those that start with _

LaOp == 41       \* 0x29, la r0
Payload == 7     \* a byte of any other line

Label(s) == [op |-> "label", arg |-> s]
La(s)    == [op |-> "la", arg |-> s]
Num(n)   == [op |-> "num", arg |-> n]
Data(n)  == [op |-> "data", arg |-> n]
Line == [op : {"label", "la"}, arg : Symbols] \cup [op : {"num", "data"}, arg : Nat]

-----------------------------------------------------------------------------
(* Lists.  Sums(ns)[i] is the sum of the first i; InOrder(S, n) the        *)
(* members of S up to n, in order.                                         *)

Sums(ns) ==
  LET to[i \in 0 .. Len(ns)] == IF i = 0 THEN 0 ELSE to[i - 1] + ns[i] IN to
Joined(parts) ==
  LET to[i \in 0 .. Len(parts)] == IF i = 0 THEN <<>> ELSE to[i - 1] \o parts[i]
  IN  to[Len(parts)]
InOrder(S, n) ==
  LET to[i \in 0 .. n] ==
        IF i = 0 THEN <<>> ELSE IF i \in S THEN Append(to[i - 1], i) ELSE to[i - 1]
  IN  to[n]

-----------------------------------------------------------------------------
(* The assembler: every line has a fixed size; an la holds 24 bits,        *)
(* little-endian.                                                          *)
Size(line) == CASE line.op = "label" -> 0
                [] line.op = "data" -> line.arg
                [] OTHER -> 4
Sizes(text) == [i \in DOMAIN text |-> Size(text[i])]
SizeOf(text) == Sums(Sizes(text))[Len(text)]
OffsetOf(text, i) == Sums(Sizes(text))[i - 1]

Defined(text) == {text[i].arg : i \in {j \in DOMAIN text : text[j].op = "label"}}
LabelAt(text, s) == CHOOSE i \in DOMAIN text : text[i] = Label(s)

Bytes(line, address) ==
  CASE line.op = "label" -> <<>>
    [] line.op = "data" -> [i \in 1 .. line.arg |-> Payload]
    [] OTHER -> <<LaOp>> \o Word(address)

(* Labels of the module itself are resolved against its base. *)
Assembled(text, start) ==
  LET Address(line) == IF line.op = "la" THEN start + OffsetOf(text, LabelAt(text, line.arg))
                       ELSE line.arg
  IN  [i \in DOMAIN text |->
        [at |-> OffsetOf(text, i), line |-> text[i],
         bytes |-> Bytes(text[i], IF text[i].op \in {"la", "num"} THEN Address(text[i]) ELSE 0)]]
Binary(listing) == Joined([i \in DOMAIN listing |-> listing[i].bytes])

(* The sources an assembler takes: every label once, a name that prep does *)
(* not look after only where it is defined.                                *)
Assembles(text) ==
  /\ \A i, j \in DOMAIN text : text[i].op = "label" /\ text[i] = text[j] => i = j
  /\ \A i \in DOMAIN text :
       text[i].op = "la" => text[i].arg \in Underscored \cup Defined(text)

-----------------------------------------------------------------------------
(* Phase 1: prep *)

External(line, defined) ==
  line.op = "la" /\ line.arg \in Underscored /\ line.arg \notin defined

PrepText(src) ==
  [i \in DOMAIN src |-> IF External(src[i], Defined(src)) THEN Num(0) ELSE src[i]]

ExternalLines(src) == {i \in DOMAIN src : External(src[i], Defined(src))}

(* The .syms file: DEF and REF lines. *)
Syms(src) ==
  LET refs == InOrder(ExternalLines(src), Len(src))
  IN  [def |-> Defined(src), ref |-> [j \in DOMAIN refs |-> src[refs[j]].arg]]

-----------------------------------------------------------------------------
(* Phase 2: emit *)

(* A label waits for the next line with an address; at the end of the      *)
(* listing it waits in vain.                                               *)
Pending == -1
LabelOffsetNext(listing, i) ==    \* mutant: a label that another one follows is lost
  IF i < Len(listing) /\ listing[i + 1].line.op # "label" THEN listing[i + 1].at ELSE Pending
LabelOffset(listing, i) ==
  LET after == {j \in i .. Len(listing) : listing[j].line.op # "label"}
  IN  IF after = {} THEN Pending
      ELSE listing[CHOOSE j \in after : \A l \in after : j <= l].at

(* The opcode of an la, three zero bytes, and ",0" in the text. *)
LaZeroBytes(entry) ==    \* mutant: the text is not looked at
  Len(entry.bytes) = 4 /\ entry.bytes = <<LaOp>> \o Word(0)
LaZero(entry) ==
  Len(entry.bytes) = 4 /\ entry.bytes = <<LaOp>> \o Word(0) /\ entry.line.op = "num"

ExportsOf(listing, syms) ==
  LET labels == {i \in DOMAIN listing :
        /\ listing[i].line.op = "label"
        /\ listing[i].line.arg \in Underscored \cap syms.def
        /\ LabelOffset(listing, i) # Pending}
      inOrder == InOrder(labels, Len(listing))
  IN  [j \in DOMAIN inOrder |-> [sym |-> listing[inOrder[j]].line.arg,
                                 at |-> LabelOffset(listing, inOrder[j])]]

Zeros(listing) == InOrder({i \in DOMAIN listing : LaZero(listing[i])}, Len(listing))
EnoughZeros(listing, syms) == Len(Zeros(listing)) >= Len(syms.ref)

(* The n-th la rN,0 of the listing is the n-th reference. *)
FixupsOf(listing, syms) ==
  LET zeros == Zeros(listing)
      n == IF Len(zeros) < Len(syms.ref) THEN Len(zeros) ELSE Len(syms.ref)
  IN  [j \in 1 .. n |-> [at |-> listing[zeros[j]].at, sym |-> syms.ref[j]]]
=============================================================================
