--------------------------------- MODULE Emit ---------------------------------
(***************************************************************************)
(* The output side of a compile: emit.h's coalescing buffer, which drains  *)
(* to the UART one character at a time, under compile_program, which emits *)
(* the procedures, then (only if none of them raised a codegen error) the  *)
(* division routine, the static data and the string table, flushes, and    *)
(* returns emit_output().  cg_error prints on the same UART at once, past  *)
(* whatever the buffer still holds.                                        *)
(***************************************************************************)
EXTENDS Integers, Sequences

CONSTANTS Chars,     \* the characters of assembly text, 0 (NUL) not among them
          BufSize,   \* EMIT_BUF_SIZE
          Cleared,   \* the prefix emit_init zeroes, 256
          MaxText    \* bound: characters one compile emits

NUL == 0

ASSUME EmitAssumption ==
  /\ NUL \notin Chars
  /\ BufSize \in Nat /\ BufSize > 1
  /\ Cleared \in 1 .. BufSize
  /\ MaxText \in Nat

Cells == 0 .. BufSize - 1

VARIABLES
  emit_buf,   \* emit_buf
  emit_pos,   \* emit_pos
  i,          \* the loop variable of emit_flush
  ch,         \* the argument of the emit_char that is flushing
  pc,         \* "idle", "emitting", "flushing" (in emit_char), "draining" (at the end)
  part,       \* what compile_program is emitting: "procs" or "tail"
  cg_err,     \* cg_err
  result,     \* what compile_program returned: "none" while it runs, "text", "null"
  uart,       \* history: the assembly text this compile has put on the wire
  heard       \* history: Len(uart) at each diagnostic of this compile

vars == <<emit_buf, emit_pos, i, ch, pc, part, cg_err, result, uart, heard>>

Init ==
  /\ emit_buf = [k \in Cells |-> NUL] /\ emit_pos = 0
  /\ i = 0 /\ ch = NUL
  /\ pc = "idle" /\ part = "procs" /\ cg_err = FALSE /\ result = "none"
  /\ uart = <<>> /\ heard = <<>>

(* What emit_buf holds and the UART has not seen.                           *)
From(k) == [n \in 1 .. emit_pos - k |-> emit_buf[k + n - 1]]
InFlush == pc \in {"flushing", "draining"}
Pending ==
  CASE pc = "flushing" -> Append(From(i), ch)
    [] pc = "draining" -> From(i)
    [] OTHER -> From(0)

-----------------------------------------------------------------------------

(* emit_init and cg_init, in the initialisations of compile_program.       *)
CompileStart ==
  /\ pc = "idle"
  /\ emit_pos' = 0
  /\ emit_buf' = [k \in Cells |-> IF k < Cleared THEN NUL ELSE emit_buf[k]]
  /\ pc' = "emitting" /\ part' = "procs" /\ cg_err' = FALSE /\ result' = "none"
  /\ uart' = <<>> /\ heard' = <<>>
  /\ UNCHANGED <<i, ch>>

(* A syntax, storage or lexer error ends the compile before any output.    *)
FrontEndFails ==
  /\ pc = "emitting" /\ part = "procs" /\ emit_pos = 0 /\ uart = <<>> /\ heard = <<>>
  /\ pc' = "idle" /\ result' = "null"
  /\ UNCHANGED <<emit_buf, emit_pos, i, ch, part, cg_err, uart, heard>>

FullLate == emit_pos >= BufSize       \* mutant: no cell left for the terminator
Full == emit_pos >= BufSize - 1

(* emit_char with room in the buffer.                                      *)
EmitChar(c) ==
  /\ pc = "emitting" /\ ~Full
  /\ Len(uart) + emit_pos < MaxText
  /\ emit_buf' = [emit_buf EXCEPT ![emit_pos] = c]
  /\ emit_pos' = emit_pos + 1
  /\ UNCHANGED <<i, ch, pc, part, cg_err, result, uart, heard>>

FlushStartLate == 1                   \* mutant: the first character is skipped
FlushStart == 0

(* emit_char with the buffer full: it calls emit_flush first.              *)
EmitCharFull(c) ==
  /\ pc = "emitting" /\ Full
  /\ Len(uart) + emit_pos < MaxText
  /\ i' = FlushStart /\ ch' = c /\ pc' = "flushing"
  /\ UNCHANGED <<emit_buf, emit_pos, part, cg_err, result, uart, heard>>

(* emit_flush: one uart_putchar.                                           *)
FlushPut ==
  /\ InFlush /\ i < emit_pos
  /\ uart' = Append(uart, emit_buf[i])
  /\ i' = i + 1
  /\ UNCHANGED <<emit_buf, emit_pos, ch, pc, part, cg_err, result, heard>>

(* The end of emit_flush, back in emit_char.                               *)
FlushedInEmitChar ==
  /\ pc = "flushing" /\ i >= emit_pos
  /\ emit_buf' = [emit_buf EXCEPT ![0] = ch]
  /\ emit_pos' = 1
  /\ pc' = "emitting"
  /\ UNCHANGED <<i, ch, part, cg_err, result, uart, heard>>

(* cg_error: only the first of a compile is printed, and code generation   *)
(* carries on.                                                             *)
CgError ==
  /\ pc = "emitting" /\ part = "procs"
  /\ heard' = IF cg_err THEN heard ELSE Append(heard, Len(uart))
  /\ cg_err' = TRUE
  /\ UNCHANGED <<emit_buf, emit_pos, i, ch, pc, part, result, uart>>

MayContinueAnyway == TRUE         \* mutant: cg_err is not looked at
MayContinue == ~cg_err

(* After cg_program_procs: if (cg_err) return 0.                           *)
ProcsDone ==
  /\ pc = "emitting" /\ part = "procs"
  /\ IF MayContinue
     THEN part' = "tail" /\ UNCHANGED <<pc, result>>
     ELSE pc' = "idle" /\ result' = "null" /\ UNCHANGED part
  /\ UNCHANGED <<emit_buf, emit_pos, i, ch, cg_err, uart, heard>>

(* After the string table, compile_program calls emit_flush.               *)
TailDone ==
  /\ pc = "emitting" /\ part = "tail"
  /\ i' = FlushStart /\ pc' = "draining"
  /\ UNCHANGED <<emit_buf, emit_pos, ch, part, cg_err, result, uart, heard>>

(* ... and returns emit_output(), which terminates the unflushed tail.     *)
Drained ==
  /\ pc = "draining" /\ i >= emit_pos
  /\ emit_buf' = [emit_buf EXCEPT ![0] = NUL]
  /\ emit_pos' = 0
  /\ pc' = "idle" /\ result' = "text"
  /\ UNCHANGED <<i, ch, part, cg_err, uart, heard>>

Next ==
  \/ CompileStart \/ FrontEndFails
  \/ \E c \in Chars : EmitChar(c) \/ EmitCharFull(c)
  \/ FlushPut \/ FlushedInEmitChar \/ Drained
  \/ CgError \/ ProcsDone \/ TailDone

Spec == Init /\ [][Next]_vars

-----------------------------------------------------------------------------
(* Properties *)

(* Always a spare cell: emit_pos never reaches EMIT_BUF_SIZE, so emit_char *)
(* stores in bounds and emit_output has a cell for its terminator.         *)
TypeOK ==
  /\ emit_buf \in [Cells -> Chars \cup {NUL}] /\ emit_pos \in Cells
  /\ i \in 0 .. BufSize /\ ch \in Chars \cup {NUL}
  /\ pc \in {"idle", "emitting", "flushing", "draining"}
  /\ part \in {"procs", "tail"} /\ cg_err \in BOOLEAN
  /\ result \in {"none", "text", "null"}
  /\ uart \in Seq(Chars) /\ heard \in Seq(Nat)

(* However the flushes fall between the characters, and across compiles    *)
(* that follow a failed one whose tail stayed in the buffer, the UART gets *)
(* the emitted text in order, nothing twice, nothing missing; and a        *)
(* compile that returns non-null has sent its last character.              *)
Contract == INSTANCE EmitContract WITH
  text <- uart \o Pending, sent <- Len(uart), verdict <- result
ImplementsContract == Contract!Spec

(* The caller learns of every codegen error: compile_program returns       *)
(* non-null only when nothing was reported, and a null with assembly       *)
(* already on the wire comes with exactly one "CODEGEN ERROR" in it.       *)
VerdictMatchesDiagnostics ==
  /\ result = "text" => heard = <<>>
  /\ result = "null" /\ Len(uart) > 0 => Len(heard) = 1

(* The C string at emit_buf, which is what compile_program returns.        *)
Returned ==
  LET end == CHOOSE k \in Cells :
               emit_buf[k] = NUL /\ \A j \in 0 .. k - 1 : emit_buf[j] # NUL
  IN  [n \in 1 .. end |-> emit_buf[n - 1]]

(* compile.h: "emit_output() is still returned so ... test suites that     *)
(* inspect short emissions via str_find continue to work for fragments     *)
(* that fit in the unflushed tail."  An emission that fits in the buffer   *)
(* is in the string the caller gets.                                       *)
ShortEmissionIsReturned ==
  result = "text" /\ Len(uart) < BufSize => Returned = uart
=============================================================================
