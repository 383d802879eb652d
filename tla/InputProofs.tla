----------------------------- MODULE InputProofs -----------------------------
(***************************************************************************)
(* The compiler's front door, whatever bytes arrive: no buffer is written  *)
(* past its end, a registered file never changes, and the terminal shows   *)
(* the line that is in the buffer.                                         *)
(***************************************************************************)
EXTENDS Input, SequenceTheorems, TLAPS

Address == 0 .. IncBufSize - 1
Cell == Byte \cup {NUL}

(* A C string at p that ends at e; one that ends below top; one that is    *)
(* still being written.                                                    *)
EndsAt(buf, p, e) == e >= p /\ buf[e] = NUL /\ \A b \in p .. e - 1 : buf[b] # NUL
Terminated(buf, top, p) == p \in Nat /\ \E e \in p .. top - 1 : EndsAt(buf, p, e)
Growing(buf, top, p) == p \in 0 .. top /\ \A b \in p .. top - 1 : buf[b] # NUL

Typed ==
  /\ wire \in Seq(Byte) /\ line \in Seq(Byte) /\ hdr \in Seq(Byte) /\ src \in Seq(Byte)
  /\ inc_buf \in [Address -> Cell]
  /\ names \in Seq(Nat) /\ contents \in Seq(Nat)

(* Names and contents are strings that end below the top of the buffer, so *)
(* what is stored from the top on changes none of them.                    *)
FilesPlaced ==
  /\ \A i \in 1 .. Len(names) : Terminated(inc_buf, inc_buf_top, names[i])
  /\ \A i \in 1 .. Len(contents) : Terminated(inc_buf, inc_buf_top, contents[i])
  /\ at = "content" => /\ Terminated(inc_buf, inc_buf_top, name)
                       /\ Growing(inc_buf, inc_buf_top, content)

IInv == Typed /\ TypeOK /\ FilesPlaced

(* A step stores nothing below the top. *)
KeepsBelow ==
  /\ inc_buf_top <= inc_buf_top'
  /\ \A a \in Address : a < inc_buf_top => inc_buf'[a] = inc_buf[a]

-----------------------------------------------------------------------------
(* Lemmas about the buffer *)

LEMMA StoredBytes ==
  ASSUME NEW buf \in [Address -> Cell], NEW start \in Nat, NEW bytes \in Seq(Cell),
         start + Len(bytes) <= IncBufSize
  PROVE  /\ Stored(buf, start, bytes) \in [Address -> Cell]
         /\ \A a \in Address : a < start => Stored(buf, start, bytes)[a] = buf[a]
         /\ \A i \in 1 .. Len(bytes) : Stored(buf, start, bytes)[start + i - 1] = bytes[i]
<1> DEFINE n == Len(bytes)
           new == Stored(buf, start, bytes)
<1>1. n \in Nat /\ IncBufSize \in Nat /\ \A i \in 1 .. n : bytes[i] \in Cell
  BY InputAssumption
<1>2. DOMAIN buf \cup start .. start + n - 1 = Address
  BY <1>1 DEF Address
<1>3. new = [a \in Address |-> IF a \in start .. start + n - 1
                               THEN bytes[a - start + 1] ELSE buf[a]]
  BY <1>2 DEF Stored
<1>4. \A a \in start .. start + n - 1 : a - start + 1 \in 1 .. n
  BY <1>1
<1>5. new \in [Address -> Cell]
  BY <1>1, <1>3, <1>4
<1>6. \A a \in Address : a < start => new[a] = buf[a]
  BY <1>3 DEF Address
<1>7. ASSUME NEW i \in 1 .. n PROVE new[start + i - 1] = bytes[i]
  <2>1. start + i - 1 \in start .. start + n - 1 /\ start + i - 1 \in Address
        /\ (start + i - 1) - start + 1 = i
    BY <1>1 DEF Address
  <2>2. QED BY <1>3, <2>1
<1>8. QED BY <1>5, <1>6, <1>7

(* The end of a string is where its first NUL is. *)
LEMMA StringIs ==
  ASSUME NEW buf, DOMAIN buf = Address, NEW p \in Nat, NEW e \in Address, EndsAt(buf, p, e)
  PROVE  StringAt(buf, p) = [i \in 1 .. e - p |-> buf[p + i - 1]]
<1> DEFINE P(a) == a >= p /\ buf[a] = NUL /\ \A b \in p .. a - 1 : buf[b] # NUL
           c == CHOOSE a \in DOMAIN buf : P(a)
<1>1. P(e) /\ e \in DOMAIN buf
  BY DEF EndsAt
<1>2. c \in DOMAIN buf /\ P(c)
  BY <1>1
<1>3. c \in Int /\ e \in Int
  BY <1>2 DEF Address
<1>4. c = e
  <2>1. ~(c < e)
    BY <1>1, <1>2, <1>3
  <2>2. ~(e < c)
    BY <1>1, <1>2, <1>3
  <2>3. QED BY <1>3, <2>1, <2>2
<1>5. StringAt(buf, p) = [i \in 1 .. c - p |-> buf[p + i - 1]]
  BY DEF StringAt
<1>6. QED BY <1>4, <1>5

(* A string below the top survives what is stored from the top on. *)
LEMMA StringStays ==
  ASSUME NEW buf, NEW new, DOMAIN buf = Address, DOMAIN new = Address,
         NEW top \in Nat, NEW newtop \in Nat, top <= newtop, top <= IncBufSize,
         \A a \in Address : a < top => new[a] = buf[a],
         NEW p, Terminated(buf, top, p)
  PROVE  Terminated(new, newtop, p) /\ StringAt(new, p) = StringAt(buf, p)
<1>1. p \in Nat /\ IncBufSize \in Nat
  BY InputAssumption DEF Terminated
<1>2. PICK e \in p .. top - 1 : EndsAt(buf, p, e)
  BY DEF Terminated
<1>3. e \in Address /\ e \in p .. newtop - 1 /\ e < top
  BY <1>1, <1>2 DEF Address
<1>4. \A b \in p .. e : b \in Address /\ new[b] = buf[b]
  BY <1>1, <1>3 DEF Address
<1>5. EndsAt(new, p, e)
  BY <1>1, <1>2, <1>3, <1>4 DEF EndsAt
<1>6. [i \in 1 .. e - p |-> new[p + i - 1]] = [i \in 1 .. e - p |-> buf[p + i - 1]]
  <2>1. \A i \in 1 .. e - p : p + i - 1 \in p .. e
    BY <1>1, <1>3
  <2>2. QED BY <1>4, <2>1
<1>7. StringAt(buf, p) = [i \in 1 .. e - p |-> buf[p + i - 1]]
  BY <1>1, <1>2, <1>3, StringIs
<1>8. StringAt(new, p) = [i \in 1 .. e - p |-> new[p + i - 1]]
  BY <1>1, <1>3, <1>5, StringIs
<1>9. Terminated(new, newtop, p)
  BY <1>1, <1>3, <1>5 DEF Terminated
<1>10. QED BY <1>6, <1>7, <1>8, <1>9

-----------------------------------------------------------------------------
(* The inductive step *)

LEMMA Reading ==
  ASSUME Typed, Reads
  PROVE  wire' \in Seq(Byte) /\ Next1 \in Byte
<1>1. wire # <<>> /\ wire \in Seq(Byte) /\ wire' = Tail(wire)
  BY DEF Typed, Reads
<1>2. QED BY <1>1 DEF Next1

(* The files are untouched by a step that leaves the include buffer alone. *)
LEMMA FilesUntouched ==
  ASSUME FilesPlaced, UNCHANGED includes, at' = "content" => at = "content"
  PROVE  FilesPlaced'
BY DEF FilesPlaced, includes, Terminated, Growing, EndsAt

LEMMA EditIInv ==
  ASSUME IInv, EndLine \/ Erase \/ Type \/ Ignore
  PROVE  IInv'
<1>1. Editing /\ wire' \in Seq(Byte) /\ Next1 \in Byte
  BY Reading DEF IInv, EndLine, Erase, Type, Ignore, Editing
<1>2. /\ UNCHANGED <<sent, hdr, term, includes, src>>
      /\ UNCHANGED <<inc_buf, inc_buf_top, name, content, names, contents>>
  BY <1>1 DEF Editing, includes
<1>3. at' \in {at, "exit", "repl", "first"} /\ (at' = "content" => at = "content")
  BY DEF EndLine, Erase, Type, Ignore, Goto, Answer
<1>4. line' \in Seq(Byte) /\ Len(line') < LineMax
  <2>1. line \in Seq(Byte) /\ Len(line) < LineMax /\ LineMax \in Nat \ {0} /\ Len(line) \in Nat
    BY InputAssumption DEF IInv, Typed, TypeOK
  <2>2. CASE EndLine
    BY <2>1, <2>2 DEF EndLine
  <2>3. CASE Erase
    <3>1. line # <<>> => Front(line) \in Seq(Byte) /\ Len(Front(line)) = Len(line) - 1
      BY SMTT(60), <2>1 DEF Front
    <3>2. line' = line \/ (line # <<>> /\ line' = Front(line))
      BY <2>3 DEF Erase, editor
    <3>3. QED BY <2>1, <3>1, <3>2
  <2>4. CASE Type
    BY <1>1, <2>1, <2>4 DEF Type
  <2>5. CASE Ignore
    BY <2>1, <2>5 DEF Ignore, editor
  <2>6. QED BY <2>2, <2>3, <2>4, <2>5
<1>5. Typed'
  BY <1>1, <1>2, <1>4 DEF IInv, Typed
<1>6. TypeOK'
  BY <1>2, <1>3, <1>4 DEF IInv, TypeOK, Ended
<1>7. FilesPlaced'
  BY <1>2, <1>3, FilesUntouched DEF IInv
<1>8. QED BY <1>5, <1>6, <1>7 DEF IInv

LEMMA HeaderByteIInv ==
  ASSUME IInv, HeaderByte
  PROVE  IInv'
<1>1. wire' \in Seq(Byte) /\ Next1 \in Byte
  BY Reading DEF IInv, HeaderByte
<1>2. /\ UNCHANGED <<at, src, line, includes, inc_buf, inc_buf_top, names, contents>>
      /\ hdr' = Append(hdr, Next1) /\ Len(hdr) < HdrMax - 1
  BY DEF HeaderByte, Header, Outside, editor, includes
<1>3. hdr \in Seq(Byte) /\ HdrMax \in Nat
  BY InputAssumption DEF IInv, Typed
<1>4. hdr' \in Seq(Byte) /\ Len(hdr') < HdrMax
  BY <1>1, <1>2, <1>3
<1>5. Typed' /\ TypeOK'
  BY <1>1, <1>2, <1>4 DEF IInv, Typed, TypeOK
<1>6. FilesPlaced'
  BY <1>2, FilesUntouched DEF IInv
<1>7. QED BY <1>5, <1>6 DEF IInv

(* FILE:name puts a string at the old top and starts one at the new top. *)
LEMMA FileNamed ==
  ASSUME IInv, FileHeader, UNCHANGED <<sent, editor>>, wire' \in Seq(Byte)
  PROVE  IInv' /\ KeepsBelow
<1> DEFINE text == Tail(hdr)
           stored == Append(text, NUL)
<1>1. hdr # <<>> /\ hdr \in Seq(Byte) /\ text \in Seq(Byte) /\ Len(text) \in Nat
  BY DEF FileHeader, Begins, IInv, Typed
<1>2. UNCHANGED <<hdr, src, line>>
  BY DEF FileHeader, editor
<1>3. CASE at' = "failed" /\ UNCHANGED includes
  <2>1. Typed' /\ TypeOK'
    BY <1>2, <1>3 DEF IInv, Typed, TypeOK, includes, Ended
  <2>2. QED BY <1>3, <2>1, FilesUntouched DEF IInv, KeepsBelow, includes, TypeOK
<1>4. CASE /\ inc_buf_top + NameSize(text) <= IncBufSize
           /\ inc_buf' = Stored(inc_buf, inc_buf_top, stored)
           /\ inc_buf_top' = inc_buf_top + NameSize(text)
           /\ name' = inc_buf_top /\ content' = inc_buf_top'
           /\ at' = "content" /\ UNCHANGED <<names, contents>>
  <2>1. /\ inc_buf \in [Address -> Cell] /\ inc_buf_top \in Nat /\ inc_buf_top <= IncBufSize
        /\ names \in Seq(Nat) /\ contents \in Seq(Nat) /\ IncBufSize \in Nat
    BY InputAssumption DEF IInv, Typed, TypeOK
  <2> DEFINE top == inc_buf_top
             n == Len(text)
  <2>2. /\ stored \in Seq(Cell) /\ Len(stored) = n + 1 /\ n \in Nat
        /\ stored[n + 1] = NUL /\ \A i \in 1 .. n : stored[i] = text[i] /\ text[i] \in Byte
    BY <1>1 DEF Cell
  <2>3. top' = top + n + 1 /\ top' \in Nat /\ top' <= IncBufSize /\ top \in Nat
    BY <1>4, <2>1, <2>2 DEF NameSize
  <2> HIDE DEF stored
  <2>4. /\ inc_buf' \in [Address -> Cell]
        /\ \A a \in Address : a < top => inc_buf'[a] = inc_buf[a]
        /\ \A i \in 1 .. n + 1 : inc_buf'[top + i - 1] = stored[i]
    <3>1. inc_buf_top + Len(stored) <= IncBufSize
      BY <2>2, <2>3
    <3>2. /\ Stored(inc_buf, inc_buf_top, stored) \in [Address -> Cell]
          /\ \A a \in Address : a < inc_buf_top
               => Stored(inc_buf, inc_buf_top, stored)[a] = inc_buf[a]
          /\ \A i \in 1 .. Len(stored) :
               Stored(inc_buf, inc_buf_top, stored)[inc_buf_top + i - 1] = stored[i]
      BY <2>1, <2>2, <3>1, StoredBytes
    <3>3. inc_buf' = Stored(inc_buf, inc_buf_top, stored)
      BY <1>4
    <3>4. QED BY <2>2, <3>2, <3>3
  <2>5. Terminated(inc_buf', top', name')
    <3>1. inc_buf'[top + n] = NUL
      <4>1. n + 1 \in 1 .. n + 1 /\ top + (n + 1) - 1 = top + n
        BY <2>2, <2>3
      <4>2. QED BY <2>2, <2>4, <4>1
    <3>2. ASSUME NEW b \in top .. top + n - 1 PROVE inc_buf'[b] # NUL
      <4>1. b - top + 1 \in 1 .. n /\ b - top + 1 \in 1 .. n + 1 /\ top + (b - top + 1) - 1 = b
        BY <2>2, <2>3
      <4>2. inc_buf'[b] = text[b - top + 1]
        BY <2>2, <2>4, <4>1
      <4>3. QED BY <2>2, <4>1, <4>2, TextAssumption
    <3>3. top + n \in top .. top' - 1
      BY <2>2, <2>3
    <3>4. QED BY <1>4, <2>2, <2>3, <3>1, <3>2, <3>3 DEF Terminated, EndsAt
  <2>6. Growing(inc_buf', top', content')
    BY <1>4, <2>3 DEF Growing
  <2>7. \A p : Terminated(inc_buf, top, p) => Terminated(inc_buf', top', p)
    <3>1. DOMAIN inc_buf = Address /\ DOMAIN inc_buf' = Address /\ top <= top'
      BY <2>1, <2>2, <2>3, <2>4
    <3>2. QED BY <2>1, <2>3, <2>4, <3>1, StringStays
  <2>8. FilesPlaced'
    BY <1>4, <2>5, <2>6, <2>7 DEF IInv, FilesPlaced
  <2>9. Typed'
    BY <1>2, <1>4, <2>1, <2>4 DEF IInv, Typed
  <2>10. TypeOK'
    BY <1>2, <1>4, <2>3, <2>4 DEF IInv, TypeOK, Address
  <2>11. KeepsBelow
    BY <2>1, <2>2, <2>3, <2>4 DEF KeepsBelow
  <2>12. QED BY <2>8, <2>9, <2>10, <2>11 DEF IInv
<1>5. NameSize(text) \in Nat
  BY <1>1 DEF NameSize
<1>6. inc_buf_top \in Nat /\ IncBufSize \in Nat
  BY InputAssumption DEF IInv, TypeOK
<1>7. QED BY <1>3, <1>4, <1>5, <1>6 DEF FileHeader, Goto


LEMMA HeaderEndIInv ==
  ASSUME IInv, HeaderEnd
  PROVE  IInv' /\ KeepsBelow
<1>1. UNCHANGED <<sent, editor>> /\ UNCHANGED line
  BY DEF HeaderEnd, Header, Outside, editor
<1>2. wire' \in Seq(Byte)
  BY Reading DEF HeaderEnd, IInv, Typed
<1>3. CASE FileHeader
  BY <1>1, <1>2, <1>3, FileNamed
<1>4. CASE SourceHeader \/ NoHeader
  <2>1. UNCHANGED <<includes, hdr, src>> /\ at' \in {"source", "failed"}
    BY <1>4 DEF SourceHeader, NoHeader, Goto
  <2>2. Typed' /\ TypeOK'
    BY <1>1, <1>2, <2>1 DEF IInv, Typed, TypeOK, includes, Ended
  <2>3. QED BY <2>1, <2>2, FilesUntouched DEF IInv, KeepsBelow, includes, TypeOK
<1>5. CASE LegacyHeader
  <2>1. UNCHANGED <<includes, hdr>> /\ at' = "legacy" /\ src' \in {hdr, Append(hdr, LF)}
    BY <1>5 DEF LegacyHeader, Goto
  <2>2. src' \in Seq(Byte) /\ Len(src') < SrcBufSize
    <3>1. /\ hdr \in Seq(Byte) /\ Len(hdr) \in Nat /\ Len(hdr) < HdrMax /\ LF \in Byte
          /\ HdrMax \in Nat /\ SrcBufSize \in Nat /\ SrcBufSize > HdrMax + 1
      BY InputAssumption, TextAssumption DEF IInv, Typed, TypeOK
    <3>2. Append(hdr, LF) \in Seq(Byte) /\ Len(Append(hdr, LF)) = Len(hdr) + 1
      BY <3>1
    <3>3. QED BY <2>1, <3>1, <3>2
  <2>3. Typed' /\ TypeOK'
    BY <1>1, <1>2, <2>1, <2>2 DEF IInv, Typed, TypeOK, includes, Ended
  <2>4. QED BY <2>1, <2>3, FilesUntouched DEF IInv, KeepsBelow, includes, TypeOK
<1>6. QED BY <1>3, <1>4, <1>5 DEF HeaderEnd

(* One byte stored at the top, which is below the end of the buffer. *)
LEMMA StoredOne ==
  ASSUME IInv, NEW b \in Cell, inc_buf_top < IncBufSize - 1,
         inc_buf' = Stored(inc_buf, inc_buf_top, <<b>>), inc_buf_top' = inc_buf_top + 1
  PROVE  /\ inc_buf' \in [Address -> Cell] /\ inc_buf'[inc_buf_top] = b
         /\ inc_buf_top' \in 0 .. IncBufSize
         /\ inc_buf_top \in Nat /\ IncBufSize \in Nat
         /\ \A a \in Address : a < inc_buf_top => inc_buf'[a] = inc_buf[a]
         /\ \A p : Terminated(inc_buf, inc_buf_top, p) => Terminated(inc_buf', inc_buf_top', p)
<1>1. /\ inc_buf \in [Address -> Cell] /\ inc_buf_top \in Nat /\ IncBufSize \in Nat
      /\ inc_buf_top' \in 0 .. IncBufSize
  BY InputAssumption DEF IInv, Typed, TypeOK
<1>2. <<b>> \in Seq(Cell) /\ Len(<<b>>) = 1 /\ <<b>>[1] = b
  OBVIOUS
<1>3. /\ inc_buf' \in [Address -> Cell]
      /\ \A a \in Address : a < inc_buf_top => inc_buf'[a] = inc_buf[a]
      /\ inc_buf'[inc_buf_top + 1 - 1] = b
  <2>1. inc_buf_top + Len(<<b>>) <= IncBufSize
    BY <1>1, <1>2
  <2>2. /\ Stored(inc_buf, inc_buf_top, <<b>>) \in [Address -> Cell]
        /\ \A a \in Address : a < inc_buf_top
             => Stored(inc_buf, inc_buf_top, <<b>>)[a] = inc_buf[a]
        /\ \A i \in 1 .. Len(<<b>>) :
             Stored(inc_buf, inc_buf_top, <<b>>)[inc_buf_top + i - 1] = <<b>>[i]
    BY <1>1, <1>2, <2>1, StoredBytes
  <2>3. Stored(inc_buf, inc_buf_top, <<b>>)[inc_buf_top + 1 - 1] = b
    BY <1>2, <2>2
  <2>4. QED BY <2>2, <2>3
<1>4. DOMAIN inc_buf = Address /\ DOMAIN inc_buf' = Address
      /\ inc_buf_top <= inc_buf_top' /\ inc_buf_top <= IncBufSize /\ inc_buf_top' \in Nat
  BY <1>1, <1>3
<1>5. \A p : Terminated(inc_buf, inc_buf_top, p) => Terminated(inc_buf', inc_buf_top', p)
  BY <1>1, <1>3, <1>4, StringStays
<1>6. QED BY <1>1, <1>3, <1>5

LEMMA ContentByteIInv ==
  ASSUME IInv, ContentByte
  PROVE  IInv' /\ KeepsBelow
<1>1. wire' \in Seq(Byte) /\ Next1 \in Byte /\ Next1 \in Cell /\ Next1 # NUL
  BY Reading, TextAssumption DEF IInv, ContentByte, Cell
<1>2. /\ at = "content" /\ at' = at /\ UNCHANGED <<hdr, src, line, name, content, names, contents>>
      /\ inc_buf' = Stored(inc_buf, inc_buf_top, <<Next1>>)
      /\ inc_buf_top' = inc_buf_top + 1 /\ inc_buf_top < IncBufSize - 1
  BY DEF ContentByte, Content, Outside, editor, Room
<1> DEFINE top == inc_buf_top
<1>3. /\ inc_buf' \in [Address -> Cell] /\ inc_buf'[top] = Next1 /\ top \in Nat /\ IncBufSize \in Nat
      /\ top' \in 0 .. IncBufSize
      /\ \A a \in Address : a < top => inc_buf'[a] = inc_buf[a]
      /\ \A p : Terminated(inc_buf, top, p) => Terminated(inc_buf', top', p)
  BY <1>1, <1>2, StoredOne
<1>4. Growing(inc_buf', top', content')
  <2>1. Growing(inc_buf, top, content)
    BY <1>2 DEF IInv, FilesPlaced
  <2>2. ASSUME NEW b \in content .. top PROVE inc_buf'[b] # NUL
    <3>1. CASE b = top
      BY <1>1, <1>3, <3>1
    <3>2. CASE b < top
      <4>1. b \in Address /\ b \in content .. top - 1
        BY <1>2, <1>3, <2>1, <3>2 DEF Address, Growing
      <4>2. QED BY <1>3, <2>1, <3>2, <4>1 DEF Growing
    <3>3. QED BY <1>3, <2>1, <3>1, <3>2 DEF Growing
  <2>3. QED BY <1>2, <1>3, <2>1, <2>2 DEF Growing
<1>5. FilesPlaced'
  BY <1>2, <1>3, <1>4 DEF IInv, FilesPlaced
<1>6. Typed' /\ TypeOK'
  BY <1>1, <1>2, <1>3 DEF IInv, Typed, TypeOK, Address
<1>7. QED BY <1>2, <1>3, <1>5, <1>6 DEF IInv, KeepsBelow

(* The terminator makes a string of the content, and both are registered. *)
LEMMA ContentEndIInv ==
  ASSUME IInv, ContentEnd
  PROVE  IInv' /\ KeepsBelow
<1>1. wire' \in Seq(Byte)
  BY Reading DEF IInv, ContentEnd
<1>2. /\ at = "content" /\ at' \in {"failed", "header"} /\ UNCHANGED <<src, line, name, content>>
      /\ hdr' = <<>> /\ inc_buf' = Stored(inc_buf, inc_buf_top, <<NUL>>)
      /\ inc_buf_top' = inc_buf_top + 1 /\ inc_buf_top < IncBufSize - 1
  BY DEF ContentEnd, Content, Outside, editor, Room, Goto, NextTop
<1> DEFINE top == inc_buf_top
<1>3. /\ inc_buf' \in [Address -> Cell] /\ inc_buf'[top] = NUL /\ top \in Nat /\ IncBufSize \in Nat
      /\ top' \in 0 .. IncBufSize
      /\ \A a \in Address : a < top => inc_buf'[a] = inc_buf[a]
      /\ \A p : Terminated(inc_buf, top, p) => Terminated(inc_buf', top', p)
  BY <1>2, StoredOne DEF Cell
<1>4. Terminated(inc_buf', top', name) /\ name \in Nat
  BY <1>2, <1>3 DEF IInv, FilesPlaced, Terminated
<1>5. Terminated(inc_buf', top', content) /\ content \in Nat
  <2>1. content \in 0 .. top /\ \A b \in content .. top - 1 : inc_buf[b] # NUL
    BY <1>2 DEF IInv, FilesPlaced, Growing
  <2>2. \A b \in content .. top - 1 : b \in Address /\ b < top
    BY <1>2, <1>3, <2>1 DEF Address
  <2>3. EndsAt(inc_buf', content, top)
    <3>1. \A b \in content .. top - 1 : inc_buf'[b] = inc_buf[b]
      BY <1>3, <2>2
    <3>2. QED BY <1>3, <2>1, <3>1 DEF EndsAt
  <2>5. top \in content .. top' - 1
    BY <1>2, <1>3, <2>1
  <2>4. QED BY <2>1, <2>3, <2>5 DEF Terminated
<1>6. /\ names' \in Seq(Nat) /\ contents' \in Seq(Nat)
      /\ Len(names') = Len(contents') /\ Len(names') <= IncMaxFiles
      /\ \A i \in 1 .. Len(names') : names'[i] = name \/ (i \in 1 .. Len(names) /\ names'[i] = names[i])
      /\ \A i \in 1 .. Len(contents') :
           contents'[i] = content \/ (i \in 1 .. Len(contents) /\ contents'[i] = contents[i])
  <2>1. /\ names \in Seq(Nat) /\ contents \in Seq(Nat) /\ IncMaxFiles \in Nat
        /\ Len(names) = Len(contents) /\ Len(names) <= IncMaxFiles
    BY InputAssumption DEF IInv, Typed, TypeOK
  <2>2. CASE UNCHANGED <<names, contents>>
    BY <2>1, <2>2
  <2>3. CASE /\ Len(names) < IncMaxFiles
             /\ names' = Append(names, name) /\ contents' = Append(contents, content)
    BY <1>4, <1>5, <2>1, <2>3
  <2>4. QED BY <2>2, <2>3 DEF ContentEnd, Register
<1>7. FilesPlaced'
  BY <1>2, <1>3, <1>4, <1>5, <1>6 DEF IInv, FilesPlaced
<1>8. hdr' \in Seq(Byte) /\ Len(hdr') < HdrMax
  BY <1>2, InputAssumption
<1>9. Typed' /\ TypeOK'
  BY <1>1, <1>2, <1>3, <1>6, <1>8 DEF IInv, Typed, TypeOK, Address, Ended
<1>10. QED BY <1>2, <1>3, <1>7, <1>9 DEF IInv, KeepsBelow

LEMMA ContentOverflowIInv ==
  ASSUME IInv, ContentOverflow
  PROVE  IInv'
<1>1. at' = "failed" /\ UNCHANGED <<wire, hdr, src, line, includes>>
  BY DEF ContentOverflow, Content, Outside, editor, Goto
<1>2. Typed' /\ TypeOK'
  BY <1>1 DEF IInv, Typed, TypeOK, includes, Ended
<1>3. QED BY <1>1, <1>2, FilesUntouched DEF IInv

LEMMA SourceIInv ==
  ASSUME IInv, SourceByte \/ SourceEnd \/ SourceOverflow
  PROVE  IInv'
<1>1. UNCHANGED <<hdr, line, includes>> /\ (at' = "content" => at = "content")
      /\ at' \in {at, "failed", "compile"}
  BY DEF SourceByte, SourceEnd, SourceOverflow, Source, Outside, editor, Goto
<1>2. wire' \in Seq(Byte) /\ (SourceByte => Next1 \in Byte)
  BY Reading DEF SourceByte, SourceEnd, SourceOverflow, IInv, Typed
<1>3. src' \in Seq(Byte) /\ Len(src') < SrcBufSize
  <2>1. src \in Seq(Byte) /\ SrcBufSize \in Nat /\ Len(src) < SrcBufSize
    BY InputAssumption DEF IInv, Typed, TypeOK
  <2>2. CASE SourceByte
    BY <1>2, <2>1, <2>2 DEF SourceByte
  <2>3. CASE UNCHANGED src
    BY <2>1, <2>3
  <2>4. QED BY <2>2, <2>3 DEF SourceEnd, SourceOverflow
<1>4. Typed' /\ TypeOK'
  BY <1>1, <1>2, <1>3 DEF IInv, Typed, TypeOK, includes, Ended
<1>5. QED BY <1>1, <1>4, FilesUntouched DEF IInv

LEMMA InitIInv == Init => IInv
<1> SUFFICES ASSUME Init PROVE IInv
  OBVIOUS
<1>1. wire \in Seq(Byte)
  BY TextAssumption DEF Init
<1>2. Typed
  BY <1>1 DEF Init, Typed, Address, Cell
<1>3. TypeOK
  BY InputAssumption DEF Init, TypeOK
<1>4. FilesPlaced
  BY DEF Init, FilesPlaced
<1>5. QED BY <1>2, <1>3, <1>4 DEF IInv

LEMMA NextIInv == IInv /\ [Next]_vars => IInv'
<1> SUFFICES ASSUME IInv, [Next]_vars PROVE IInv'
  OBVIOUS
<1>1. CASE UNCHANGED vars
  <2>1. UNCHANGED <<wire, at, line, hdr, src, includes>>
    BY <1>1 DEF vars, editor
  <2>2. Typed' /\ TypeOK'
    BY <2>1 DEF IInv, Typed, TypeOK, includes
  <2>3. QED BY <2>1, <2>2, FilesUntouched DEF IInv
<1>2. QED
  BY <1>1, EditIInv, HeaderByteIInv, HeaderEndIInv, ContentByteIInv, ContentEndIInv,
     ContentOverflowIInv, SourceIInv DEF Next

(* Every state the front door can be in, whatever it was sent.             *)
THEOREM InputInvariant == Spec => []IInv
BY InitIInv, NextIInv, PTL DEF Spec

(* No line, header, file or source is ever written past the end of its     *)
(* buffer, and the include tables never overflow, whatever the sizes and   *)
(* whatever bytes arrive (uart_getline, read_line_term, read_file_content, *)
(* read_source, inc_register).                                             *)
THEOREM InputTypeOK == Spec => []TypeOK
<1>1. IInv => TypeOK
  BY DEF IInv
<1>2. QED BY InputInvariant, <1>1, PTL


-----------------------------------------------------------------------------
(* Registered files *)

LEMMA StepKeepsBelow == IInv /\ [Next]_vars => KeepsBelow
<1> SUFFICES ASSUME IInv, [Next]_vars PROVE KeepsBelow
  OBVIOUS
<1>1. CASE UNCHANGED <<inc_buf, inc_buf_top>>
  BY <1>1 DEF IInv, TypeOK, KeepsBelow
<1>2. QED
  BY <1>1, HeaderEndIInv, ContentByteIInv, ContentEndIInv
     DEF Next, EndLine, Erase, Type, Ignore, Editing, HeaderByte, ContentOverflow,
         SourceByte, SourceEnd, SourceOverflow, Source, includes, vars

(* The tables only ever grow. *)
LEMMA TablesGrow ==
  ASSUME IInv, [Next]_vars
  PROVE  /\ Len(names) <= Len(names')
         /\ \A i \in 1 .. Len(names) : names'[i] = names[i] /\ contents'[i] = contents[i]
<1>1. names \in Seq(Nat) /\ contents \in Seq(Nat) /\ Len(names) = Len(contents)
  BY DEF IInv, Typed, TypeOK
<1>2. CASE UNCHANGED <<names, contents>>
  BY <1>1, <1>2
<1>3. CASE names' = Append(names, name) /\ contents' = Append(contents, content)
  BY <1>1, <1>3
<1>4. CASE ContentEnd
  BY <1>2, <1>3, <1>4 DEF ContentEnd, Register
<1>5. CASE HeaderEnd
  BY <1>2, <1>5 DEF HeaderEnd, FileHeader, SourceHeader, NoHeader, LegacyHeader, includes
<1>6. QED
  BY <1>2, <1>4, <1>5
     DEF Next, EndLine, Erase, Type, Ignore, Editing, HeaderByte, ContentByte, ContentOverflow,
         SourceByte, SourceEnd, SourceOverflow, Source, includes, vars

LEMMA PrefixByElements ==
  ASSUME NEW S, NEW s \in Seq(S), NEW t \in Seq(S), Len(s) <= Len(t),
         \A i \in 1 .. Len(s) : s[i] = t[i]
  PROVE  IsPrefix(s, t)
<1>1. SubSeq(s, 1, Len(s)) = [i \in 1 .. Len(s) |-> s[i]]
  OBVIOUS
<1>2. SubSeq(t, 1, Len(s)) = [i \in 1 .. Len(s) |-> t[i]]
  OBVIOUS
<1>3. QED BY <1>1, <1>2 DEF IsPrefix

LEMMA RegisteredGrows ==
  ASSUME IInv, IInv', [Next]_vars
  PROVE  IsPrefix(Registered, Registered')
<1> DEFINE n == Len(names)
           n2 == Len(names')
           File(i) == [name |-> StringAt(inc_buf, names[i]),
                       content |-> StringAt(inc_buf, contents[i])]
           File2(i) == [name |-> StringAt(inc_buf', names'[i]),
                        content |-> StringAt(inc_buf', contents'[i])]
           S == {File(i) : i \in 1 .. n} \cup {File2(i) : i \in 1 .. n2}
<1>1. /\ n \in Nat /\ n2 \in Nat /\ n <= n2
      /\ names \in Seq(Nat) /\ names' \in Seq(Nat) /\ n = Len(contents)
      /\ \A i \in 1 .. n : names'[i] = names[i] /\ contents'[i] = contents[i]
  <2>1. names \in Seq(Nat) /\ contents \in Seq(Nat) /\ Len(names) = Len(contents)
    BY DEF IInv, Typed, TypeOK
  <2>2. names' \in Seq(Nat)
    BY DEF IInv, Typed, TypeOK
  <2>3. n \in Nat /\ n2 \in Nat /\ n = Len(contents)
    BY <2>1, <2>2
  <2> QED BY <2>1, <2>2, <2>3, TablesGrow
<1>2. DOMAIN names = 1 .. n /\ DOMAIN names' = 1 .. n2
  BY <1>1
<1>3. Registered = [i \in 1 .. n |-> File(i)] /\ Registered' = [i \in 1 .. n2 |-> File2(i)]
  BY <1>2 DEF Registered
<1>4. \A p : Terminated(inc_buf, inc_buf_top, p) => StringAt(inc_buf', p) = StringAt(inc_buf, p)
  <2>1. /\ DOMAIN inc_buf = Address /\ DOMAIN inc_buf' = Address
        /\ inc_buf_top \in Nat /\ inc_buf_top' \in Nat /\ inc_buf_top <= IncBufSize
    BY InputAssumption DEF IInv, Typed, TypeOK
  <2>2. KeepsBelow
    BY StepKeepsBelow
  <2>3. QED BY <2>1, <2>2, StringStays DEF KeepsBelow
<1>5. ASSUME NEW i \in 1 .. n PROVE File2(i) = File(i)
  <2>1. Terminated(inc_buf, inc_buf_top, names[i]) /\ Terminated(inc_buf, inc_buf_top, contents[i])
    BY <1>1 DEF IInv, FilesPlaced
  <2>2. QED BY <1>1, <1>4, <2>1
<1> HIDE DEF File, File2
<1>6. [i \in 1 .. n |-> File(i)] \in [1 .. n -> S] /\ [i \in 1 .. n2 |-> File2(i)] \in [1 .. n2 -> S]
  OBVIOUS
<1>7. Registered \in Seq(S) /\ Registered' \in Seq(S) /\ Len(Registered) = n /\ Len(Registered') = n2
  BY <1>1, <1>3, <1>6
<1>8. \A i \in 1 .. n : Registered[i] = Registered'[i]
  BY <1>1, <1>3, <1>5
<1>9. QED BY <1>1, <1>7, <1>8, PrefixByElements

(* A file that was registered keeps its name and its text for good: what   *)
(* arrives later is stored above it, whatever it is.                       *)
THEOREM InputFilesStay == Spec => FilesStay
<1>1. IInv /\ IInv' /\ [Next]_vars => [IsPrefix(Registered, Registered')]_vars
  BY RegisteredGrows
<1>2. QED BY InputInvariant, <1>1, PTL DEF Spec, FilesStay

-----------------------------------------------------------------------------
(* The terminal *)

Columns == DOMAIN screen \subseteq Nat \ {0}

LEMMA EditScreen ==
  ASSUME IInv, Columns, ScreenMatchesLine, EndLine \/ Erase \/ Type \/ Ignore
  PROVE  Columns' /\ ScreenMatchesLine'
<1> DEFINE n == Len(line)
<1>1. /\ line \in Seq(Byte) /\ n \in Nat /\ cursor = n /\ DOMAIN screen \subseteq Nat \ {0}
      /\ LineMax \in Nat /\ 1 .. n \subseteq DOMAIN screen
      /\ \A i \in DOMAIN screen : screen[i] = IF i <= n THEN line[i] ELSE Blank
  BY InputAssumption DEF IInv, Typed, Columns, ScreenMatchesLine
<1>2. CASE UNCHANGED <<line, screen, cursor>>
  BY <1>2 DEF Columns, ScreenMatchesLine
<1>3. CASE EndLine
  BY <1>3 DEF EndLine, Columns, ScreenMatchesLine
<1>4. CASE Erase /\ line # <<>>
  <2>1. /\ line' = SubSeq(line, 1, n - 1) /\ cursor' = n - 1 /\ n > 0
        /\ screen' = [screen EXCEPT ![n] = Blank]
    BY <1>1, <1>4 DEF Erase, Front
  <2>2. Len(line') = n - 1 /\ \A i \in 1 .. n - 1 : line'[i] = line[i]
    BY <1>1, <2>1
  <2>3. DOMAIN screen' = DOMAIN screen /\ 1 .. cursor' \subseteq DOMAIN screen
    BY <1>1, <2>1
  <2>4. ASSUME NEW i \in DOMAIN screen
        PROVE  screen'[i] = IF i <= n - 1 THEN line'[i] ELSE Blank
    BY <1>1, <2>1, <2>2
  <2>5. QED BY <1>1, <2>1, <2>2, <2>3, <2>4 DEF Columns, ScreenMatchesLine
<1>5. CASE Type /\ EchoFits
  <2>1. /\ line' = Append(line, Next1) /\ cursor' = n + 1
        /\ screen' = PutAt(screen, n + 1, Next1)
    BY <1>1, <1>5 DEF Type, EchoFits
  <2>2. /\ Len(line') = n + 1 /\ line'[n + 1] = Next1
        /\ \A i \in 1 .. n : line'[i] = line[i]
    <3>1. Next1 \in Byte
      BY <1>5, Reading DEF IInv, Type, Editing
    <3>2. QED BY <1>1, <2>1, <3>1
  <2>3. screen' = [i \in DOMAIN screen \cup {n + 1} |-> IF i = n + 1 THEN Next1 ELSE screen[i]]
    BY <2>1 DEF PutAt
  <2>4. DOMAIN screen' = DOMAIN screen \cup {n + 1} /\ 1 .. n + 1 \subseteq DOMAIN screen'
    BY <1>1, <2>3
  <2>5. ASSUME NEW i \in DOMAIN screen'
        PROVE  screen'[i] = IF i <= n + 1 THEN line'[i] ELSE Blank
    <3>1. CASE i = n + 1
      BY <1>1, <2>2, <2>3, <3>1
    <3>2. CASE i # n + 1
      BY <1>1, <2>2, <2>3, <2>4, <3>2
    <3>3. QED BY <3>1, <3>2
  <2>6. QED BY <1>1, <2>1, <2>2, <2>4, <2>5 DEF Columns, ScreenMatchesLine
<1>6. QED BY <1>2, <1>3, <1>4, <1>5 DEF Erase, Type, Ignore, EchoFits, editor

(* What the terminal shows is what the buffer holds, whatever is typed and *)
(* whatever the length of the buffer (the echoes of uart_getline).         *)
THEOREM InputScreen == Spec => []ScreenMatchesLine
<1>1. Init => Columns /\ ScreenMatchesLine
  BY DEF Init, Columns, ScreenMatchesLine
<1>2. IInv /\ Columns /\ ScreenMatchesLine /\ [Next]_vars => Columns' /\ ScreenMatchesLine'
  <2> SUFFICES ASSUME IInv, Columns, ScreenMatchesLine, [Next]_vars
               PROVE  Columns' /\ ScreenMatchesLine'
    OBVIOUS
  <2>1. CASE UNCHANGED editor
    BY <2>1 DEF editor, Columns, ScreenMatchesLine
  <2>2. QED
    BY <2>1, EditScreen
       DEF Next, HeaderByte, Header, HeaderEnd, ContentByte, ContentEnd, ContentOverflow, Content,
           SourceByte, SourceEnd, SourceOverflow, Source, Outside, vars
<1>3. QED BY InputInvariant, <1>1, <1>2, PTL DEF Spec

===============================================================================
