-------------------------------- MODULE CodeRun -------------------------------
(***************************************************************************)
(* The COR24 as generated code uses it, running what CodeGen emits for a   *)
(* program, beside the program's meaning.  The processor is not part of    *)
(* the repository: an instruction does what codegen.h counts on.  A step   *)
(* is one instruction.                                                     *)
(***************************************************************************)
EXTENDS CodeGen

CONSTANTS Programs,     \* each with its procedures P, and their order
          Fuel          \* calls and iterations that the meaning is followed for

VARIABLES
  code, pc,             \* the program in memory, the next instruction
  reg, carry,           \* r0, r1, r2, fp; the flag c
  stack,                \* the words below sp, which is their number
  mem, arr,             \* static variables and arrays
  trace,                \* history: the assignments to them
  expect                \* the program's meaning

vars == <<code, pc, reg, carry, stack, mem, arr, trace, expect>>

Junk == 0 - 1           \* what an address or an unset word reads as

Init ==
  /\ \E p \in Programs : code = Compile(p.P, p.order) /\ expect = Meaning(p.P, Fuel)
  /\ pc = 1 /\ carry = FALSE /\ stack = <<>>
  /\ reg = [r \in {"r0", "r1", "r2", "fp"} |-> 0]
  /\ mem = [x \in Statics |-> 0] /\ arr = [a \in Arrays |-> [i \in 0 .. Dim - 1 |-> 0]]
  /\ trace = <<>>

I == code[pc]
Is(op) == I.op = op
Goes == pc' = pc + 1 /\ UNCHANGED <<code, expect>>
Target(l) == CHOOSE k \in 1 .. Len(code) : code[k].op = "label" /\ code[k].l = l
Sp == Len(stack)
Read(r) == CASE r = "c" -> Flag(carry) [] r = "z" -> 0 [] r = "sp" -> Sp [] OTHER -> reg[r]

(* A byte is loaded without its sign.                                      *)
AsByte(v) == v % 2 ^ ByteBits
Sized(at, v) == IF at.byte THEN AsByte(v) ELSE v

(* A static is reached through its address in r2.                          *)
Addressed(at) == IF at.in = "static" THEN [reg EXCEPT !["r2"] = Junk] ELSE reg

DoConst == Is("const") /\ reg' = [reg EXCEPT ![I.r] = Wrap(I.v)]
           /\ Goes /\ UNCHANGED <<carry, stack, mem, arr, trace>>

DoLoad ==
  /\ Is("load")
  /\ LET word == IF I.at.in = "static" THEN mem[I.at.x] ELSE stack[reg["fp"] + I.at.off] IN
       reg' = [Addressed(I.at) EXCEPT ![I.r] = Sized(I.at, word)]
  /\ Goes /\ UNCHANGED <<carry, stack, mem, arr, trace>>

DoStore ==
  /\ Is("store")
  /\ LET v == Sized(I.at, reg["r0"]) IN
       IF I.at.in = "static"
       THEN /\ mem' = [mem EXCEPT ![I.at.x] = v]
            /\ trace' = Append(trace, <<I.at.x, 0, v>>)
            /\ UNCHANGED stack
       ELSE stack' = [stack EXCEPT ![reg["fp"] + I.at.off] = v] /\ UNCHANGED <<mem, trace>>
  /\ reg' = Addressed(I.at)
  /\ Goes /\ UNCHANGED <<carry, arr>>

DoMov ==
  /\ Is("mov")
  /\ IF I.r = "sp"
     THEN stack' = SubSeq(stack, 1, Read(I.from)) /\ UNCHANGED reg
     ELSE reg' = [reg EXCEPT ![I.r] = Read(I.from)] /\ UNCHANGED stack
  /\ Goes /\ UNCHANGED <<carry, mem, arr, trace>>

Computed(f, a, b) ==
  CASE f = "add" -> Wrap(a + b) [] f = "sub" -> Wrap(a - b) [] f = "mul" -> Wrap(a * b)
    [] f = "and" -> a & b [] f = "or" -> a | b [] f = "xor" -> a ^^ b

DoAlu == Is("alu") /\ reg' = [reg EXCEPT ![I.r] = Computed(I.f, reg[I.r], reg[I.s])]
         /\ Goes /\ UNCHANGED <<carry, stack, mem, arr, trace>>

DoInc == Is("inc") /\ reg' = [reg EXCEPT ![I.r] = Wrap(@ + 1)]
         /\ Goes /\ UNCHANGED <<carry, stack, mem, arr, trace>>

DoCompare ==
  /\ I.op \in {"ceq", "cls"}
  /\ carry' = IF Is("ceq") THEN Read(I.r) = Read(I.s) ELSE Signed(Read(I.r)) < Signed(Read(I.s))
  /\ Goes /\ UNCHANGED <<reg, stack, mem, arr, trace>>

DoPush == Is("push") /\ stack' = Append(stack, reg[I.r])
          /\ Goes /\ UNCHANGED <<reg, carry, mem, arr, trace>>

DoPop == /\ Is("pop") /\ reg' = [reg EXCEPT ![I.r] = stack[Sp]] /\ stack' = SubSeq(stack, 1, Sp - 1)
         /\ Goes /\ UNCHANGED <<carry, mem, arr, trace>>

DoAddSp ==
  /\ Is("addsp")
  /\ stack' = IF I.n >= 0 THEN SubSeq(stack, 1, Sp - I.n) ELSE stack \o [k \in 1 .. 0 - I.n |-> Junk]
  /\ Goes /\ UNCHANGED <<reg, carry, mem, arr, trace>>

(* The address of an element, from the index in r0.                        *)
DoIndex == Is("index") /\ reg' = [reg EXCEPT !["r2"] = reg["r0"], !["r0"] = Junk, !["r1"] = Junk]
           /\ Goes /\ UNCHANGED <<carry, stack, mem, arr, trace>>

DoLoadElem == Is("loadelem") /\ reg' = [reg EXCEPT !["r0"] = arr[I.a][reg["r2"]]]
              /\ Goes /\ UNCHANGED <<carry, stack, mem, arr, trace>>

DoStoreElem ==
  /\ Is("storeelem")
  /\ arr' = [arr EXCEPT ![I.a][reg["r2"]] = reg["r0"]]
  /\ trace' = Append(trace, <<I.a, reg["r2"], reg["r0"]>>)
  /\ Goes /\ UNCHANGED <<reg, carry, stack, mem>>

DoBranch ==
  /\ I.op \in {"bra", "brt"}
  /\ pc' = IF Is("bra") \/ carry THEN Target(I.l) ELSE pc + 1
  /\ UNCHANGED <<code, expect, reg, carry, stack, mem, arr, trace>>

(* la r2; jal r1,(r2)                                                      *)
DoJal ==
  /\ Is("jal")
  /\ pc' = Target(I.l) /\ reg' = [reg EXCEPT !["r1"] = pc + 1, !["r2"] = Junk]
  /\ UNCHANGED <<code, expect, carry, stack, mem, arr, trace>>

DoJmp == Is("jmp") /\ pc' = reg["r1"]
         /\ UNCHANGED <<code, expect, reg, carry, stack, mem, arr, trace>>

(* Labels and comments are no instructions.                                *)
Skip == I.op \in {"label", "note"} /\ Goes /\ UNCHANGED <<reg, carry, stack, mem, arr, trace>>

Halted == Is("halt")

(* A bound: a program that does not end is left where its meaning was, and *)
(* one that assigns what its source does not is left at once.              *)
Followed == Len(trace) < Len(expect.trace) + Flag(expect.st # "spent")
Stop == (Halted \/ ~Followed) /\ UNCHANGED vars

Step ==
  /\ Followed
  /\ \/ DoConst \/ DoLoad \/ DoStore \/ DoMov \/ DoAlu \/ DoInc \/ DoCompare \/ DoPush \/ DoPop
     \/ DoAddSp \/ DoIndex \/ DoLoadElem \/ DoStoreElem \/ DoBranch \/ DoJal \/ DoJmp \/ Skip

Next == Step \/ Stop

Spec == Init /\ [][Next]_vars
FairSpec == Spec /\ WF_vars(Step)       \* the processor goes on

-----------------------------------------------------------------------------
(* Properties *)

Word == 0 .. Modulus - 1
Byte == 0 .. 2 ^ ByteBits - 1
Uses(k) == code[k].op \in {"bra", "brt", "jal"}

(* Statics hold words, or bytes where they are declared so; the processor  *)
(* stays in the code; every label a branch names is there, once.           *)
TypeOK ==
  /\ pc \in 1 .. Len(code)
  /\ \A x \in Statics : mem[x] \in (IF x \in ByteVars THEN Byte ELSE Word)
  /\ \A a \in Arrays : arr[a] \in [0 .. Dim - 1 -> Word]
  /\ pc = 1 => \A k \in 1 .. Len(code) : Uses(k) =>
       \E j \in 1 .. Len(code) : code[j] = Label(code[k].l)
         /\ \A i \in 1 .. Len(code) : code[i] = Label(code[k].l) => i = j

(* The code assigns to the statics what the source says, in its order, and *)
(* halts with the same values; if the meaning was not followed to its end, *)
(* the code agrees with it as far as it goes.                              *)
MeansSource ==
  /\ IsPrefix(trace, expect.trace) \/ (expect.st = "spent" /\ IsPrefix(expect.trace, trace))
  /\ Halted => \/ expect.st = "spent"
               \/ trace = expect.trace /\ mem = expect.mem /\ arr = expect.arr /\ stack = <<>>

(* Whatever a statement pushes it takes off again: at the start of each    *)
(* one sp lies exactly at the end of the procedure's frame, also in        *)
(* branches, after calls and on the way round a loop.  And no instruction   *)
(* leaves the types (TypeOK).                                              *)
StackLevel == TypeOK /\ (Is("note") => Sp = reg["fp"] + I.frame)

(* A program that ends by its source ends on the processor.                *)
Ends == expect.st # "spent" => <>Halted
=============================================================================
