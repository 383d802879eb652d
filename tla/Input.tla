-------------------------------- MODULE Input --------------------------------
(***************************************************************************)
(* The compiler's front door, src/src/main.c and uart_getline of io.h: the *)
(* prompt, the REPL's line editor, and the transmission that names include *)
(* files and carries the program, read byte by byte into three buffers.    *)
(*                                                                         *)
(* A byte is a model value; "FILE:" and "SOURCE:", which matter only at    *)
(* the start of a header line, are one each.                               *)
(***************************************************************************)
EXTENDS Integers, SequencesExt

CONSTANTS
  Byte,                         \* the bytes of text, which the other end sends
  LineMax, HdrMax,              \* LINE_MAX, hdr[80]
  IncBufSize, IncMaxFiles,      \* INC_BUF_SIZE, INC_MAX_FILES
  SrcBufSize,                   \* SRC_BUF_SIZE
  Transmissions,                \* what the other end means to send: [files, source, bytes]
  Noise                         \* other sequences of bytes

NUL == "NUL"
LF == "LF"
CR == "CR"
RS == "RS"
EOT == "EOT"
Blank == " "
BS == "BS"    \* DEL, too

ASSUME InputAssumption ==
  /\ LineMax \in Nat \ {0} /\ HdrMax \in Nat \ {0}
  /\ SrcBufSize \in Nat /\ SrcBufSize > HdrMax + 1
  /\ IncBufSize \in Nat \ {0} /\ IncMaxFiles \in Nat

ASSUME TextAssumption ==
  /\ LF \in Byte /\ NUL \notin Byte
  /\ \A t \in Transmissions : t.bytes \in Seq(Byte)
  /\ \A s \in Noise : s \in Seq(Byte)

VARIABLES
  sent,      \* the transmission, or NULL
  wire,      \* its bytes not yet read
  at,        \* where main() is
  line, screen, cursor,         \* uart_getline's buf, and the terminal's line
  hdr, term,                    \* header line, its terminator
  inc_buf, inc_buf_top,         \* the include buffer and its top
  name, content,                \* pointers to the file being read
  names, contents,              \* inc_names, inc_contents: registered pointers
  src                           \* src_buf up to pos

editor == <<line, screen, cursor>>
includes == <<inc_buf, inc_buf_top, name, content, names, contents>>
vars == <<sent, wire, at, editor, hdr, term, includes, src>>

NULL == <<>>
Control == {"ctl", LF, CR, RS, EOT, BS}    \* below 32; EOT is ETX, too

Ended == {"compile", "failed", "exit"}

Init ==
  /\ \/ sent \in Transmissions /\ wire = sent.bytes
     \/ sent = NULL /\ wire \in Noise
  /\ at = "prompt"
  /\ line = <<>> /\ screen = <<>> /\ cursor = 0
  /\ hdr = <<>> /\ term \in {LF, "other"}    \* a local: whatever was on the stack
  /\ inc_buf = [a \in 0 .. IncBufSize - 1 |-> NUL] /\ inc_buf_top = 0
  /\ name = 0 /\ content = 0
  /\ names = <<>> /\ contents = <<>>
  /\ src = <<>>

Next1 == Head(wire)
Reads == wire # <<>> /\ wire' = Tail(wire)
Goto(place) == at' = place

-----------------------------------------------------------------------------
(* The line editor *)

Editing == at \in {"prompt", "repl"} /\ Reads /\ UNCHANGED <<sent, hdr, term, includes, src>>

(* The answer to the prompt; in the REPL the line is scanned and dropped.  *)
Answer == CASE at = "repl" -> "repl"
            [] line # <<>> /\ Head(line) = "c" -> "first"
            [] line # <<>> /\ Head(line) = "r" -> "repl"
            [] OTHER -> "exit"

EndLine ==
  /\ Editing /\ Next1 \in {LF, CR}
  /\ Goto(Answer)
  /\ line' = <<>> /\ screen' = <<>> /\ cursor' = 0

(* Backspace, space, backspace. *)
Erase ==
  /\ Editing /\ Next1 = BS
  /\ IF line = <<>> THEN UNCHANGED editor
     ELSE /\ line' = Front(line)
          /\ screen' = [screen EXCEPT ![cursor] = Blank]
          /\ cursor' = cursor - 1
  /\ UNCHANGED at

PutAt(row, col, ch) == [i \in DOMAIN row \cup {col} |-> IF i = col THEN ch ELSE row[i]]
EchoAll == TRUE    \* mutant: what does not fit is echoed all the same
EchoFits == Len(line) < LineMax - 1

Type ==
  /\ Editing /\ Next1 \notin Control
  /\ line' = IF Len(line) < LineMax - 1 THEN Append(line, Next1) ELSE line
  /\ IF EchoFits THEN screen' = PutAt(screen, cursor + 1, Next1) /\ cursor' = cursor + 1
                 ELSE UNCHANGED <<screen, cursor>>
  /\ UNCHANGED at

Ignore ==
  /\ Editing /\ Next1 \in Control \ {LF, CR, BS}
  /\ UNCHANGED <<at, editor>>

-----------------------------------------------------------------------------
(* read_line_term and what read_compile_input makes of the header *)

Outside == UNCHANGED <<sent, editor>>
Header == at \in {"first", "header"} /\ Outside

HeaderByte ==
  /\ Header /\ Len(hdr) < HdrMax - 1
  /\ Reads /\ Next1 \notin {LF, RS, EOT}
  /\ hdr' = Append(hdr, Next1)
  /\ UNCHANGED <<at, term, includes, src>>

(* The buffer with bytes stored from start on; a store past its end adds   *)
(* an address to the domain, which TypeOK forbids.                         *)
Stored(buf, start, bytes) ==
  [a \in DOMAIN buf \cup start .. start + Len(bytes) - 1 |->
     IF a \in start .. start + Len(bytes) - 1 THEN bytes[a - start + 1] ELSE buf[a]]

NameSizeBare(text) == Len(text)    \* mutant: no room for the terminator
NameSize(text) == Len(text) + 1

Begins(prefix) == IF hdr = <<>> THEN FALSE ELSE Head(hdr) = prefix

(* FILE:name: the name is copied into the include buffer. *)
FileHeader ==
  /\ Begins("FILE:")
  /\ LET text == Tail(hdr) IN
       IF inc_buf_top + NameSize(text) > IncBufSize
       THEN Goto("failed") /\ UNCHANGED includes
       ELSE /\ inc_buf' = Stored(inc_buf, inc_buf_top, Append(text, NUL))
            /\ inc_buf_top' = inc_buf_top + NameSize(text)
            /\ name' = inc_buf_top /\ content' = inc_buf_top'
            /\ Goto("content")
            /\ UNCHANGED <<names, contents>>
  /\ UNCHANGED <<hdr, src>>

SourceHeader ==
  /\ at = "header" /\ Begins("SOURCE:")
  /\ Goto("source")
  /\ UNCHANGED <<includes, hdr, src>>

NoHeader ==
  /\ at = "header" /\ ~Begins("FILE:") /\ ~Begins("SOURCE:")
  /\ Goto("failed")
  /\ UNCHANGED <<includes, hdr, src>>

(* No framing: the line is the start of the source. *)
LegacyHeader ==
  /\ at = "first" /\ ~Begins("FILE:")
  /\ src' = IF term' = LF THEN Append(hdr, LF) ELSE hdr
  /\ Goto("legacy")
  /\ UNCHANGED <<includes, hdr>>

(* The line ends at a terminator, or at the end of hdr: then *term is not  *)
(* set.                                                                    *)
HeaderEnd ==
  /\ Header
  /\ \/ /\ Len(hdr) < HdrMax - 1
        /\ Reads /\ Next1 \in {LF, RS, EOT}
        /\ term' = Next1
     \/ /\ Len(hdr) = HdrMax - 1
        /\ UNCHANGED <<wire, term>>
  /\ FileHeader \/ SourceHeader \/ NoHeader \/ LegacyHeader

-----------------------------------------------------------------------------
(* read_file_content *)

Content == at = "content" /\ Outside
RoomToTheEnd == inc_buf_top <= IncBufSize    \* mutant: off by the terminator
Room == inc_buf_top < IncBufSize - 1

ContentByte ==
  /\ Content /\ Room /\ Reads /\ Next1 \notin {RS, EOT}
  /\ inc_buf' = Stored(inc_buf, inc_buf_top, <<Next1>>)
  /\ inc_buf_top' = inc_buf_top + 1
  /\ UNCHANGED <<at, hdr, term, name, content, names, contents, src>>

KeptTop == inc_buf_top    \* mutant: the next name is written over the terminator
NextTop == inc_buf_top + 1

Register ==
  IF Len(names) < IncMaxFiles
  THEN names' = Append(names, name) /\ contents' = Append(contents, content)
  ELSE UNCHANGED <<names, contents>>

ContentEnd ==
  /\ Content /\ Room /\ Reads /\ Next1 \in {RS, EOT}
  /\ term' = Next1
  /\ inc_buf' = Stored(inc_buf, inc_buf_top, <<NUL>>)
  /\ inc_buf_top' = NextTop
  /\ Register
  /\ Goto(IF Next1 = EOT THEN "failed" ELSE "header")
  /\ hdr' = <<>>
  /\ UNCHANGED <<name, content, src>>

ContentOverflow ==
  /\ Content /\ ~Room
  /\ Goto("failed")
  /\ UNCHANGED <<wire, hdr, term, includes, src>>

-----------------------------------------------------------------------------
(* read_source, and the loop that reads the rest of an unframed source *)

Source == at \in {"source", "legacy"} /\ Outside /\ UNCHANGED <<hdr, term, includes>>

SourceByte ==
  /\ Source /\ Len(src) < SrcBufSize - 1
  /\ Reads /\ Next1 # EOT
  /\ src' = Append(src, Next1)
  /\ UNCHANGED at

SourceEnd ==
  /\ Source /\ Len(src) < SrcBufSize - 1
  /\ Reads /\ Next1 = EOT
  /\ Goto(IF src = <<>> THEN "failed" ELSE "compile")
  /\ UNCHANGED src

SourceOverflow ==
  /\ Source /\ Len(src) >= SrcBufSize - 1
  /\ Goto("failed")
  /\ UNCHANGED <<wire, src>>

Next ==
  \/ EndLine \/ Erase \/ Type \/ Ignore
  \/ HeaderByte \/ HeaderEnd
  \/ ContentByte \/ ContentEnd \/ ContentOverflow
  \/ SourceByte \/ SourceEnd \/ SourceOverflow

Spec == Init /\ [][Next]_vars /\ WF_vars(Next)

-----------------------------------------------------------------------------
(* Properties *)

(* Nothing is written outside a buffer. *)
TypeOK ==
  /\ at \in {"prompt", "repl", "first", "header", "content", "source", "legacy"} \cup Ended
  /\ Len(line) < LineMax /\ Len(hdr) < HdrMax /\ Len(src) < SrcBufSize
  /\ DOMAIN inc_buf = 0 .. IncBufSize - 1 /\ inc_buf_top \in 0 .. IncBufSize
  /\ Len(names) = Len(contents) /\ Len(names) <= IncMaxFiles

(* The C string at an address. *)
StringAt(buf, start) ==
  LET end == CHOOSE a \in DOMAIN buf :
               a >= start /\ buf[a] = NUL /\ \A b \in start .. a - 1 : buf[b] # NUL
  IN  [i \in 1 .. end - start |-> buf[start + i - 1]]

Registered == [i \in DOMAIN names |->
  [name |-> StringAt(inc_buf, names[i]), content |-> StringAt(inc_buf, contents[i])]]

(* What usage.md promises a well-formed transmission: *)
Needs(files) == FoldLeft(LAMBDA n, f : n + Len(f.name) + Len(f.content) + 2, 0, files)
WithinLimits ==
  /\ Len(sent.files) <= IncMaxFiles /\ Needs(sent.files) < IncBufSize
  /\ \A i \in DOMAIN sent.files : Len(sent.files[i].name) < HdrMax - 2
  /\ Len(sent.source) \in 1 .. SrcBufSize - 2

(* A well-formed transmission is read to its end and no further, the files *)
(* registered and the source compiled are those sent; beyond a limit it is *)
(* refused.  Nothing waits for bytes that the protocol does not send.      *)
AsSent ==
  \/ sent = NULL
  \/ sent # NULL /\ WithinLimits
     /\ at = "compile" /\ wire = <<>> /\ src = sent.source /\ Registered = sent.files
  \/ sent # NULL /\ ~WithinLimits /\ at = "failed"
TransmissionRead == <>[]AsSent

(* A registered file never changes, whatever arrives after it. *)
FilesStay == [][IsPrefix(Registered, Registered')]_vars

(* The terminal shows the line that is in the buffer. *)
ScreenMatchesLine ==
  /\ cursor = Len(line) /\ 1 .. cursor \subseteq DOMAIN screen
  /\ \A i \in DOMAIN screen : screen[i] = IF i <= cursor THEN line[i] ELSE Blank
=============================================================================
