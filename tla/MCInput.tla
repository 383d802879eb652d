------------------------------- MODULE MCInput -------------------------------
(***************************************************************************)
(* A header of three bytes, a line of three, room for two small files, a   *)
(* source of five.                                                         *)
(***************************************************************************)
EXTENDS Input

Strings(S, n) == UNION {[1 .. i -> S] : i \in 0 .. n}
Flat(parts) == FlattenSeq(parts)
File(name_, content_) == [name |-> name_, content |-> content_]

(* src/docs/usage.md, Compile Mode Protocol, after the answer to the prompt. *)
Framed(files, source) ==
  [files |-> files, source |-> source,
   bytes |-> <<"c", LF>>
     \o Flat([i \in DOMAIN files |-> <<"FILE:">> \o files[i].name \o <<LF>> \o files[i].content \o <<RS>>])
     \o <<"SOURCE:", LF>> \o source \o <<EOT>>]
Raw(source) ==
  [files |-> <<>>, source |-> source, bytes |-> <<"c", LF>> \o source \o <<EOT>>]

MCFiles == {File(n, c) : n \in {<<"x">>, <<"y">>}, c \in Strings({"x", LF}, 2)}
              \cup {File(<<"y">>, <<"FILE:", "x", LF>>), File(<<>>, <<"x">>), File(<<"x">>, <<"x", "x", "y", "y", "x">>)}
FileSets == UNION {[1 .. i -> MCFiles] : i \in 1 .. 2}
Texts == {<<>>, <<"x">>, <<LF>>, <<"x", RS, "y">>, <<"SOURCE:", "x">>,
          <<"x", "x", "x", "x">>, <<"x", "x", LF, "x", "x">>, <<"x", "x", LF, "x", "x", "x">>}

(* Sources that the legacy format brings across: see LegacyTransmissions. *)
FirstLine(source) == SelectInSeq(source, LAMBDA b : b = LF)
Lines(source) ==
  /\ FirstLine(source) \in 1 .. HdrMax - 1
  /\ RS \notin {source[i] : i \in 1 .. FirstLine(source)}
  /\ Head(source) # "FILE:"
RawTexts == {t \in Strings({"x", LF, RS, "FILE:", "SOURCE:"}, 5) : Lines(t)}

(* More files than there are entries. *)
CrowdTransmissions == {Framed(<<File(<<>>, <<>>), File(<<>>, <<>>), File(<<>>, <<>>)>>, <<"x">>)}

Sendable == {"x", "FILE:", "SOURCE:", LF, RS, EOT}
Keys == {"c", "r", "x", LF, CR, BS, "ctl"}
MCByte == Sendable \cup Keys \cup {"y"}
MCTransmissions == {Framed(f, t) : f \in FileSets, t \in Texts} \cup {Raw(t) : t \in RawTexts}
MCNoise == UNION {
  {<<"c", LF>> \o s : s \in Strings(Sendable, 4)},
  {<<"c", LF, "FILE:", LF, "x">> \o s : s \in Strings(Sendable, 4)},
  {<<"r", LF>> \o s : s \in Strings(Keys, 4)}, Strings(Keys, 2),
  {t.bytes : t \in CrowdTransmissions}}
NoNoise == {}

(* Every small source, the one-line ones among them. *)
LegacyTransmissions == {Raw(t) : t \in Strings({"x", LF}, 3) \ {<<>>}}
(* A name longer than the header line. *)
LongNameTransmissions == {Framed(<<File(<<"x", "x", "x">>, <<>>)>>, <<"x">>)}
=============================================================================
