------------------------------ MODULE EmitProofs ------------------------------
(***************************************************************************)
(* For every character set, buffer size and text length: the stream's      *)
(* invariant, the verdicts, and that Emit implements EmitContract.         *)
(*                                                                         *)
(* The contract's text is the wire followed by what is pending, so the     *)
(* proof is about one equation per step: emitting appends to it, flushing  *)
(* leaves it alone.  Two lemmas on sequences carry those equations.        *)
(***************************************************************************)
EXTENDS Emit, TLAPS, SequenceTheorems

(* Emitting: what is pending grows at its end, and so does the text.       *)
LEMMA AppendToText ==
  ASSUME NEW S, NEW s \in Seq(S), NEW t \in Seq(S), NEW c \in S
  PROVE  s \o Append(t, c) = Append(s \o t, c)
  BY SMT

(* Flushing: the head of what is pending moves to the wire.                *)
LEMMA MoveToWire ==
  ASSUME NEW S, NEW s \in Seq(S), NEW p \in Seq(S), NEW q \in Seq(S),
         Len(p) = Len(q) + 1, \A n \in 1 .. Len(q) : q[n] = p[n + 1]
  PROVE  Append(s, p[1]) \o q = s \o p
  <1> DEFINE h == Append(s, p[1])
  <1>0. p[1] \in S /\ Len(p) \in Nat /\ Len(q) \in Nat /\ Len(s) \in Nat
    BY SMT
  <1>1. h \in Seq(S) /\ Len(h) = Len(s) + 1 /\ h[Len(s) + 1] = p[1]
        /\ \A n \in 1 .. Len(s) : h[n] = s[n]
    BY <1>0, SMT
  <1>2. h \o q \in Seq(S) /\ s \o p \in Seq(S)
        /\ Len(h \o q) = Len(s) + Len(p) /\ Len(s \o p) = Len(s) + Len(p)
    BY <1>0, <1>1, SMTT(60)
  <1>3. ASSUME NEW n \in 1 .. Len(h \o q) PROVE (h \o q)[n] = (s \o p)[n]
    <2>1. CASE n <= Len(s)
      BY <2>1, <1>1, <1>2, SMTT(60)
    <2>2. CASE n = Len(s) + 1
      BY <2>2, <1>1, <1>2, SMTT(60)
    <2>3. CASE n > Len(s) + 1
      BY <2>3, <1>1, <1>2, SMTT(60)
    <2>4. QED
      BY <2>1, <2>2, <2>3, <1>2, SMTT(60)
  <1>4. QED
    BY <1>2, <1>3, SeqEqual

(* What From reads is a sequence of text once the cells below emit_pos     *)
(* hold text.                                                              *)
LEMMA FromIsText ==
  ASSUME NEW S, NEW k \in Nat, NEW m \in Nat, NEW b,
         \A n \in 0 .. m - 1 : b[n] \in S
  PROVE  /\ [n \in 1 .. m - k |-> b[k + n - 1]] \in Seq(S)
         /\ k <= m => Len([n \in 1 .. m - k |-> b[k + n - 1]]) = m - k
         /\ k = m => [n \in 1 .. m - k |-> b[k + n - 1]] = <<>>
  BY SMT

(* Storing c at cell m extends what is pending by c.                       *)
LEMMA StoreExtends ==
  ASSUME NEW S, NEW m \in Nat, NEW b, NEW d, NEW c \in S,
         \A n \in 0 .. m - 1 : b[n] \in S /\ d[n] = b[n],
         d[m] = c
  PROVE  [n \in 1 .. (m + 1) - 0 |-> d[0 + n - 1]]
           = Append([n \in 1 .. m - 0 |-> b[0 + n - 1]], c)
  <1> DEFINE p == [n \in 1 .. (m + 1) - 0 |-> d[0 + n - 1]]
             q == [n \in 1 .. m - 0 |-> b[0 + n - 1]]
  <1>1. p \in Seq(S) /\ Len(p) = m + 1
    BY SMT
  <1>2. q \in Seq(S) /\ Len(q) = m
    BY SMT
  <1>3. Append(q, c) \in Seq(S) /\ Len(Append(q, c)) = m + 1
    BY <1>2, SMTT(60)
  <1>4. \A n \in 1 .. m + 1 : p[n] = Append(q, c)[n]
    BY <1>1, <1>2, SMTT(60)
  <1>5. QED
    BY <1>1, <1>3, <1>4, SeqEqual

-----------------------------------------------------------------------------
(* The inductive invariant.  TypeOK alone is not inductive: the cells      *)
(* below emit_pos must hold text, the flush index must not have passed     *)
(* emit_pos, and the verdict must agree with where the compile stands.     *)

PendingIsText == \A n \in 0 .. emit_pos - 1 : emit_buf[n] \in Chars

FlushInRange ==
  /\ InFlush => i <= emit_pos
  /\ pc = "flushing" => ch \in Chars

Standing ==
  /\ heard \in Seq(Nat) /\ Len(heard) = IF cg_err THEN 1 ELSE 0
  /\ part = "tail" => ~cg_err
  /\ pc = "draining" => part = "tail"
  /\ result = "text" => ~cg_err
  /\ result = "null" /\ Len(uart) > 0 => cg_err
  /\ pc # "idle" => result = "none"

IInv == TypeOK /\ PendingIsText /\ FlushInRange /\ Standing

LEMMA IInvInit == Init => IInv
  BY EmitAssumption DEF Init, IInv, TypeOK, PendingIsText, FlushInRange, Standing,
     Cells, InFlush

LEMMA IInvNext == IInv /\ [Next]_vars => IInv'
  <1> SUFFICES ASSUME IInv, [Next]_vars PROVE IInv'
    OBVIOUS
  <1> USE EmitAssumption DEF IInv, TypeOK, PendingIsText, FlushInRange, Standing,
          Cells, InFlush
  <1>1. CASE CompileStart
    <2>1. emit_buf' \in [Cells -> Chars \cup {NUL}]
      BY <1>1 DEF CompileStart
    <2>2. 0 \in Cells /\ uart' \in Seq(Chars) /\ heard' \in Seq(Nat) /\ Len(heard') = 0
      BY <1>1 DEF CompileStart
    <2>3. TypeOK'
      BY <1>1, <2>1, <2>2 DEF CompileStart
    <2>4. PendingIsText' /\ FlushInRange'
      BY <1>1 DEF CompileStart
    <2>5. Standing'
      BY <1>1, <2>2 DEF CompileStart
    <2>6. QED
      BY <2>3, <2>4, <2>5
  <1>2. CASE FrontEndFails
    BY <1>2 DEF FrontEndFails
  <1>3. ASSUME NEW c \in Chars, EmitChar(c) PROVE IInv'
    <2>1. emit_pos + 1 \in Cells
      BY <1>3 DEF EmitChar, Full
    <2>2. TypeOK'
      BY <1>3, <2>1 DEF EmitChar
    <2>3. PendingIsText'
      BY <1>3 DEF EmitChar
    <2>4. FlushInRange' /\ Standing'
      BY <1>3 DEF EmitChar
    <2>5. QED
      BY <2>2, <2>3, <2>4
  <1>4. ASSUME NEW c \in Chars, EmitCharFull(c) PROVE IInv'
    BY <1>4 DEF EmitCharFull, Full, FlushStart
  <1>5. CASE FlushPut
    <2>1. uart' \in Seq(Chars)
      BY <1>5 DEF FlushPut
    <2>2. result = "none" /\ result' = result
      BY <1>5 DEF FlushPut
    <2>3. QED
      BY <1>5, <2>1, <2>2 DEF FlushPut
  <1>6. CASE FlushedInEmitChar
    BY <1>6 DEF FlushedInEmitChar
  <1>7. CASE Drained
    BY <1>7 DEF Drained
  <1>8. CASE CgError
    <2>1. Len(heard') = 1 /\ heard' \in Seq(Nat)
      <3>1. Len(uart) \in Nat
        OBVIOUS
      <3>2. CASE cg_err
        BY <1>8, <3>2 DEF CgError
      <3>3. CASE ~cg_err
        BY <1>8, <3>1, <3>3 DEF CgError
      <3>4. QED
        BY <3>2, <3>3
    <2>2. QED
      BY <1>8, <2>1 DEF CgError
  <1>9. CASE ProcsDone
    BY <1>9 DEF ProcsDone, MayContinue
  <1>10. CASE TailDone
    BY <1>10 DEF TailDone, FlushStart
  <1>11. CASE UNCHANGED vars
    BY <1>11 DEF vars
  <1>12. QED
    BY <1>1, <1>2, <1>3, <1>4, <1>5, <1>6, <1>7, <1>8, <1>9, <1>10, <1>11 DEF Next

LEMMA IInvAlways == Spec => []IInv
  <1>1. Init => IInv
    BY IInvInit
  <1>2. IInv /\ [Next]_vars => IInv'
    BY IInvNext
  <1>3. QED
    BY <1>1, <1>2, PTL DEF Spec

(* emit_pos never reaches EMIT_BUF_SIZE: every store of emit_char, and the *)
(* terminator emit_output writes, stays inside emit_buf.                   *)
THEOREM EmitTypeOK == Spec => []TypeOK
  BY IInvAlways, PTL DEF IInv

(* compile_program's null or non-null result tells the caller whether a    *)
(* codegen error was reported.                                             *)
THEOREM EmitVerdicts == Spec => []VerdictMatchesDiagnostics
  <1>1. IInv => VerdictMatchesDiagnostics
    <2> SUFFICES ASSUME IInv PROVE VerdictMatchesDiagnostics
      OBVIOUS
    <2>1. result = "text" => heard = <<>>
      BY EmptySeq DEF IInv, Standing
    <2>2. QED
      BY <2>1 DEF IInv, Standing, VerdictMatchesDiagnostics
  <1>2. QED
    BY <1>1, IInvAlways, PTL

-----------------------------------------------------------------------------
(* The refinement: what each action does to the contract's text.           *)

Text == uart \o Pending

(* The wire and what is pending are sequences of text, so the contract's   *)
(* text is one, as long as the two together.                               *)
LEMMA TextIsText ==
  ASSUME IInv
  PROVE  /\ From(0) \in Seq(Chars) /\ Len(From(0)) = emit_pos
         /\ InFlush => From(i) \in Seq(Chars) /\ Len(From(i)) = emit_pos - i
         /\ InFlush /\ i = emit_pos => From(i) = <<>>
         /\ Pending \in Seq(Chars)
         /\ Text \in Seq(Chars) /\ Len(Text) = Len(uart) + Len(Pending)
  <1> USE DEF IInv, TypeOK, PendingIsText, FlushInRange, Cells
  <1>1. emit_pos \in Nat /\ i \in Nat
    BY EmitAssumption
  <1>2. From(0) \in Seq(Chars) /\ Len(From(0)) = emit_pos
    BY <1>1, FromIsText DEF From
  <1>3. InFlush => From(i) \in Seq(Chars) /\ Len(From(i)) = emit_pos - i
    BY <1>1, FromIsText DEF From
  <1>4. InFlush /\ i = emit_pos => From(i) = <<>>
    BY <1>1, FromIsText DEF From
  <1>5. Pending \in Seq(Chars)
    <2>1. CASE pc = "flushing"
      <3>1. From(i) \in Seq(Chars) /\ ch \in Chars
        BY <2>1, <1>3 DEF InFlush
      <3>2. QED
        BY <2>1, <3>1 DEF Pending
    <2>2. CASE pc = "draining"
      BY <2>2, <1>3 DEF InFlush, Pending
    <2>3. CASE pc \notin {"flushing", "draining"}
      BY <2>3, <1>2 DEF Pending
    <2>4. QED
      BY <2>1, <2>2, <2>3
  <1>6. Text \in Seq(Chars) /\ Len(Text) = Len(uart) + Len(Pending)
    BY <1>5, ConcatProperties DEF Text
  <1>7. QED
    BY <1>2, <1>3, <1>4, <1>5, <1>6

(* A step that leaves the wire and what is pending alone leaves the text.  *)
LEMMA FromOnlyReadsBuf ==
  emit_buf' = emit_buf /\ emit_pos' = emit_pos /\ i' = i /\ uart' = uart /\ ch' = ch
    => From(0)' = From(0) /\ From(i)' = From(i)
  BY DEF From

LEMMA RefinementInit == Init => Contract!Init
  <1> SUFFICES ASSUME Init PROVE Contract!Init
    OBVIOUS
  <1>1. IInv
    BY IInvInit
  <1>2. Pending \in Seq(Chars) /\ Len(Pending) = 0
    BY <1>1, TextIsText DEF Init, Pending
  <1>3. Pending = <<>> /\ uart = <<>> /\ uart \o Pending = <<>>
    BY <1>2, EmptySeq, ConcatEmptySeq DEF Init
  <1>4. QED
    BY <1>3, EmptySeq DEF Init, Contract!Init

LEMMA RefinementStep ==
  ASSUME IInv, IInv', [Next]_vars
  PROVE  [Contract!Next]_(Contract!vars)
  <1> USE DEF Contract!vars
  <1> DEFINE Stutter == Text' = Text /\ Len(uart)' = Len(uart) /\ result' = result
  <1>0. Stutter => [Contract!Next]_(Contract!vars)
    BY DEF Text
  <1>1. CASE CompileStart
    <2>1. From(0)' \in Seq(Chars) /\ Len(From(0)') = 0
      BY <1>1, TextIsText, FromIsText DEF CompileStart, From
    <2>2. Pending' = <<>> /\ uart' = <<>> /\ uart' \o Pending' = <<>> /\ Len(uart') = 0
      BY <1>1, <2>1, EmptySeq, ConcatEmptySeq DEF CompileStart, Pending
    <2>3. Contract!Start
      BY <1>1, <2>2 DEF CompileStart, Contract!Start
    <2>4. QED
      BY <2>3 DEF Contract!Next
  <1>2. CASE FrontEndFails
    <2>1. Pending' = Pending
      BY <1>2, FromOnlyReadsBuf DEF FrontEndFails, Pending
    <2>2. result = "none"
      BY <1>2 DEF FrontEndFails, IInv, Standing
    <2>3. Contract!Fail
      BY <1>2, <2>1, <2>2 DEF FrontEndFails, Contract!Fail
    <2>4. QED
      BY <2>3 DEF Contract!Next
  <1>3. ASSUME NEW c \in Chars, EmitChar(c) PROVE [Contract!Next]_(Contract!vars)
    <2>1. Pending = From(0) /\ Pending' = From(0)' /\ uart' = uart
      BY <1>3 DEF EmitChar, Pending
    <2>2. From(0)' = Append(From(0), c)
      <3>1. emit_pos \in Nat /\ emit_pos \in Cells
            /\ \A n \in 0 .. emit_pos - 1 : n \in Cells /\ n # emit_pos
        BY EmitAssumption DEF IInv, TypeOK, Cells
      <3>2. \A n \in 0 .. emit_pos - 1 : emit_buf[n] \in Chars /\ emit_buf'[n] = emit_buf[n]
        BY <1>3, <3>1 DEF EmitChar, IInv, PendingIsText, TypeOK
      <3>3. emit_buf'[emit_pos] = c /\ emit_pos' = emit_pos + 1
        BY <1>3, <3>1 DEF EmitChar, IInv, TypeOK
      <3>4. QED
        <4>1. [n \in 1 .. (emit_pos + 1) - 0 |-> emit_buf'[0 + n - 1]]
                = Append([n \in 1 .. emit_pos - 0 |-> emit_buf[0 + n - 1]], c)
          BY <3>1, <3>2, <3>3, StoreExtends
        <4>2. QED
          BY <4>1, <3>3 DEF From
    <2>3. Text' = Append(Text, c)
      <3>1. uart \in Seq(Chars) /\ From(0) \in Seq(Chars)
        BY TextIsText DEF IInv, TypeOK
      <3>2. uart \o Append(From(0), c) = Append(uart \o From(0), c)
        BY <3>1, AppendToText
      <3>3. Text = uart \o From(0) /\ Text' = uart \o Append(From(0), c)
        BY <2>1, <2>2 DEF Text
      <3>4. QED
        BY <3>2, <3>3
    <2>4. result = "none" /\ result' = result
      BY <1>3 DEF EmitChar, IInv, Standing
    <2>5. Contract!Generate
      BY <2>1, <2>3, <2>4 DEF Text, Contract!Generate
    <2>6. QED
      BY <2>5 DEF Contract!Next
  <1>4. ASSUME NEW c \in Chars, EmitCharFull(c) PROVE [Contract!Next]_(Contract!vars)
    <2>1. Pending = From(0) /\ uart' = uart
      BY <1>4 DEF EmitCharFull, Pending
    <2>2. Pending' = Append(From(0), c)
      BY <1>4 DEF EmitCharFull, Pending, From, FlushStart
    <2>3. Text' = Append(Text, c)
      <3>1. uart \in Seq(Chars) /\ From(0) \in Seq(Chars)
        BY TextIsText DEF IInv, TypeOK
      <3>2. uart \o Append(From(0), c) = Append(uart \o From(0), c)
        BY <3>1, AppendToText
      <3>3. Text = uart \o From(0) /\ Text' = uart \o Append(From(0), c)
        BY <2>1, <2>2 DEF Text
      <3>4. QED
        BY <3>2, <3>3
    <2>4. result = "none" /\ result' = result
      BY <1>4 DEF EmitCharFull, IInv, Standing
    <2>5. Contract!Generate
      BY <2>1, <2>3, <2>4 DEF Text, Contract!Generate
    <2>6. QED
      BY <2>5 DEF Contract!Next
  <1>5. CASE FlushPut
    <2>1. i \in Nat /\ emit_pos \in Nat /\ i < emit_pos /\ InFlush
      BY <1>5, EmitAssumption DEF FlushPut, IInv, TypeOK, Cells
    <2>2. \A n \in 0 .. emit_pos - 1 : emit_buf[n] \in Chars
      BY DEF IInv, PendingIsText
    <2>3. uart \in Seq(Chars) /\ emit_buf[i] \in Chars
      BY <2>1, <2>2 DEF IInv, TypeOK
    <2>4. From(i)' = From(i + 1) /\ uart' = Append(uart, emit_buf[i])
      BY <1>5 DEF FlushPut, From
    <2>5. uart' \o From(i)' = uart \o From(i)
      <3>1. Append(uart, emit_buf[i]) \o From(i + 1) = uart \o From(i)
        <4>1. i + 1 \in Nat
          BY <2>1
        <4>2. /\ [n \in 1 .. emit_pos - (i + 1) |-> emit_buf[(i + 1) + n - 1]] \in Seq(Chars)
              /\ Len([n \in 1 .. emit_pos - (i + 1) |-> emit_buf[(i + 1) + n - 1]])
                   = emit_pos - (i + 1)
          BY <2>1, <2>2, <4>1, FromIsText
        <4>3. From(i + 1) \in Seq(Chars) /\ Len(From(i + 1)) = emit_pos - (i + 1)
          BY <4>2 DEF From
        <4>4. From(i) \in Seq(Chars) /\ Len(From(i)) = emit_pos - i
          BY <2>1, TextIsText
        <4>5. /\ From(i)[1] = emit_buf[i]
              /\ \A n \in 1 .. emit_pos - (i + 1) : From(i + 1)[n] = From(i)[n + 1]
          BY <2>1 DEF From
        <4>6. Len(From(i)) = Len(From(i + 1)) + 1
              /\ \A n \in 1 .. Len(From(i + 1)) : From(i + 1)[n] = From(i)[n + 1]
          BY <2>1, <4>3, <4>4, <4>5
        <4>7. Append(uart, From(i)[1]) \o From(i + 1) = uart \o From(i)
          BY <2>3, <4>3, <4>4, <4>6, MoveToWire
        <4>8. QED
          BY <4>5, <4>7
      <3>2. QED
        BY <2>4, <3>1
    <2>6. From(i) \in Seq(Chars) /\ From(i)' \in Seq(Chars) /\ uart' \in Seq(Chars)
          /\ Len(From(i)) = emit_pos - i /\ Len(uart') = Len(uart) + 1
      <3>1. i + 1 \in Nat
        BY <2>1
      <3>2. From(i)' \in Seq(Chars)
        <4>1. [n \in 1 .. emit_pos - (i + 1) |-> emit_buf[(i + 1) + n - 1]] \in Seq(Chars)
          BY <2>1, <2>2, <3>1, FromIsText
        <4>2. QED
          BY <2>4, <4>1 DEF From
      <3>3. QED
        BY <2>1, <2>3, <2>4, <3>2, TextIsText
    <2>7. Text' = Text
      <3>1. CASE pc = "flushing"
        <4>1. Pending = From(i) \o <<ch>> /\ Pending' = From(i)' \o <<ch>> /\ <<ch>> \in Seq(Chars)
          BY <1>5, <3>1, <2>6 DEF FlushPut, Pending, IInv, FlushInRange
        <4>2. QED
          <5>1. (uart \o From(i)) \o <<ch>> = uart \o (From(i) \o <<ch>>)
            BY SMTT(60), <4>1, <2>3, <2>6, ConcatAssociative
          <5>2. (uart' \o From(i)') \o <<ch>> = uart' \o (From(i)' \o <<ch>>)
            BY SMTT(60), <4>1, <2>6, ConcatAssociative
          <5>3. QED
            BY <4>1, <5>1, <5>2, <2>5 DEF Text
      <3>2. CASE pc = "draining"
        BY <1>5, <3>2, <2>5 DEF FlushPut, Pending, Text
      <3>3. QED
        BY <2>1, <3>1, <3>2 DEF InFlush
    <2>8. Len(uart') \in Len(uart) + 1 .. Len(Text)
      <3>1. Len(Text) = Len(uart) + Len(Pending) /\ Len(Pending) \in Nat /\ Len(uart) \in Nat
        BY <2>3, TextIsText
      <3>2. Len(Pending) >= emit_pos - i
        BY <2>1, <2>6 DEF Pending, InFlush, IInv, FlushInRange
      <3>3. QED
        BY <3>1, <3>2, <2>1, <2>6
    <2>9. result = "none" /\ result' = result
      BY <1>5, <2>1 DEF FlushPut, InFlush, IInv, Standing
    <2>10. Contract!Deliver
      BY <2>7, <2>8, <2>9 DEF Text, Contract!Deliver
    <2>11. QED
      BY <2>10 DEF Contract!Next
  <1>6. CASE FlushedInEmitChar
    <2>1. i = emit_pos /\ InFlush /\ ch \in Chars /\ 0 \in Cells
      BY <1>6, EmitAssumption
         DEF FlushedInEmitChar, IInv, TypeOK, FlushInRange, InFlush, Cells
    <2>2. Pending = Append(<<>>, ch)
      BY <1>6, <2>1, TextIsText DEF FlushedInEmitChar, Pending
    <2>3. Pending' = From(0)' /\ From(0)' \in Seq(Chars) /\ Len(From(0)') = 1 /\ From(0)'[1] = ch
      <3>1. emit_buf'[0] = ch /\ emit_pos' = 1
        BY <1>6, <2>1 DEF FlushedInEmitChar, IInv, TypeOK
      <3>2. From(0)' \in Seq(Chars) /\ Len(From(0)') = 1
        BY <2>1, <3>1, FromIsText DEF From
      <3>3. From(0)'[1] = ch
        BY <3>1 DEF From
      <3>4. Pending' = From(0)'
        BY <1>6 DEF FlushedInEmitChar, Pending
      <3>5. QED
        BY <3>2, <3>3, <3>4
    <2>4. Pending' = Pending
      BY <2>1, <2>2, <2>3, SMT
    <2>5. Stutter
      BY <1>6, <2>4 DEF FlushedInEmitChar, Text
    <2>6. QED
      BY <1>0, <2>5
  <1>7. CASE Drained
    <2>1. i = emit_pos /\ InFlush
      BY <1>7, EmitAssumption DEF Drained, IInv, TypeOK, FlushInRange, InFlush, Cells
    <2>2. Pending = <<>>
      BY <1>7, <2>1, TextIsText DEF Drained, Pending
    <2>3. Pending' = <<>>
      <3>1. From(0)' \in Seq(Chars) /\ Len(From(0)') = 0 /\ Pending' = From(0)'
        BY <1>7, FromIsText DEF Drained, Pending, From
      <3>2. QED
        BY <3>1, EmptySeq
    <2>4. Text' = Text /\ Text = uart /\ uart' = uart
      BY <1>7, <2>2, <2>3, ConcatEmptySeq DEF Drained, Text, IInv, TypeOK
    <2>5. result = "none" /\ result' = "text"
      BY <1>7 DEF Drained, IInv, Standing
    <2>6. Contract!Succeed
      BY <2>4, <2>5 DEF Text, Contract!Succeed
    <2>7. QED
      BY <2>6 DEF Contract!Next
  <1>8. CASE CgError
    <2>1. Pending' = Pending
      BY <1>8, FromOnlyReadsBuf DEF CgError, Pending
    <2>2. QED
      BY <1>0, <1>8, <2>1 DEF CgError, Text
  <1>9. CASE ProcsDone
    <2>1. Pending' = Pending
      BY <1>9, FromOnlyReadsBuf DEF ProcsDone, Pending
    <2>2. result = "none"
      BY <1>9 DEF ProcsDone, IInv, Standing
    <2>3. CASE MayContinue
      BY <1>0, <1>9, <2>1, <2>3 DEF ProcsDone, Text
    <2>4. CASE ~MayContinue
      <3>1. Contract!Fail
        BY <1>9, <2>1, <2>2, <2>4 DEF ProcsDone, Contract!Fail
      <3>2. QED
        BY <3>1 DEF Contract!Next
    <2>5. QED
      BY <2>3, <2>4
  <1>10. CASE TailDone
    <2>1. Pending = From(0) /\ Pending' = From(0)
      BY <1>10 DEF TailDone, Pending, From, FlushStart
    <2>2. QED
      BY <1>0, <1>10, <2>1 DEF TailDone, Text
  <1>11. CASE UNCHANGED vars
    <2>1. Pending' = Pending
      BY <1>11, FromOnlyReadsBuf DEF vars, Pending
    <2>2. QED
      BY <1>0, <1>11, <2>1 DEF vars, Text
  <1>12. QED
    BY <1>1, <1>2, <1>3, <1>4, <1>5, <1>6, <1>7, <1>8, <1>9, <1>10, <1>11 DEF Next

(* The UART gets the emitted text in order, once, and all of it when the   *)
(* compile succeeds, whatever the buffer size and wherever flushes fall.   *)
THEOREM EmitImplementsContract == Spec => ImplementsContract
  <1>1. Init => Contract!Init
    BY RefinementInit
  <1>2. IInv /\ IInv' /\ [Next]_vars => [Contract!Next]_(Contract!vars)
    BY RefinementStep
  <1>3. QED
    BY <1>1, <1>2, IInvAlways, PTL DEF Spec, ImplementsContract, Contract!Spec
=============================================================================
