----------------------------- MODULE LinkAddress -----------------------------
(* The three address bytes of an la, least significant first.             *)
EXTENDS Integers, Sequences

CONSTANT ByteBase    \* values of an address byte: 256 in the code

ASSUME LinkAssumption == ByteBase \in Nat \ {0}

Word(t) == <<t % ByteBase, (t \div ByteBase) % ByteBase,
             ((t \div ByteBase) \div ByteBase) % ByteBase>>
Digit(t, n) == Word(t)[n + 1]
=============================================================================
