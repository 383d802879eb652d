----------------------------- MODULE EmitContract -----------------------------
(***************************************************************************)
(* What the output stream of a compile promises to whoever reads the UART: *)
(* the characters generated so far form one text, the reader has a prefix  *)
(* of it, and a compile that reports success has delivered all of it.      *)
(***************************************************************************)
EXTENDS Integers, Sequences

CONSTANT Chars

VARIABLES text, sent, verdict

vars == <<text, sent, verdict>>

Init == text = <<>> /\ sent = 0 /\ verdict = "none"

Start == text' = <<>> /\ sent' = 0 /\ verdict' = "none"

Generate ==
  /\ verdict = "none"
  /\ \E c \in Chars : text' = Append(text, c)
  /\ UNCHANGED <<sent, verdict>>

Deliver ==
  /\ verdict = "none"
  /\ sent' \in sent + 1 .. Len(text)
  /\ UNCHANGED <<text, verdict>>

Succeed ==
  /\ verdict = "none" /\ sent = Len(text)
  /\ verdict' = "text"
  /\ UNCHANGED <<text, sent>>

Fail ==
  /\ verdict = "none"
  /\ verdict' = "null"
  /\ UNCHANGED <<text, sent>>

Next == Start \/ Generate \/ Deliver \/ Succeed \/ Fail

Spec == Init /\ [][Next]_vars
=============================================================================
