-------------------------------- MODULE Link24 -------------------------------
(***************************************************************************)
(* link24, the module linker of components/linker/src/main.rs: modules are *)
(* placed one after the other, their exports make one symbol table, their  *)
(* binaries one output, and every fixup overwrites the three address bytes *)
(* of an la.  Each turn of a loop of link() is a step; die() leaves no     *)
(* output file.                                                            *)
(***************************************************************************)
EXTENDS LinkAddress

VARIABLES
  mods,      \* modules in link order: exports, fixups (both as in .meta), bin
  pc,        \* "idle", the steps of link(), "done", "died"
  m, k,      \* the module and the entry the loops have reached
  base,      \* bases assigned so far
  addr,      \* addr, then total_size
  symbols,   \* symbol -> address
  output     \* the combined binary, from address 0

linkVars == <<mods, pc, m, k, base, addr, symbols, output>>

LinkInit ==
  /\ mods = <<>> /\ pc = "idle"
  /\ m = 1 /\ k = 1
  /\ base = <<>> /\ addr = 0
  /\ symbols = <<>> /\ output = <<>>

Exports == mods[m].exports
Fixups == mods[m].fixups

-----------------------------------------------------------------------------
(* The modules named on the command line have been read. *)
Load(given) ==
  /\ pc = "idle"
  /\ mods' = given
  /\ pc' = "place"
  /\ UNCHANGED <<m, k, base, addr, symbols, output>>

(* A loop over the modules is over: the next one starts at the first. *)
Turn(from, to) ==
  /\ pc = from /\ m > Len(mods)
  /\ pc' = to
  /\ m' = 1 /\ k' = 1

NextModule == m' = m + 1 /\ k' = 1

Fail ==
  /\ pc' = "died"
  /\ UNCHANGED <<mods, m, k, base, addr, symbols, output>>

(* Step 1: bases in sequence. *)
Place ==
  /\ pc = "place" /\ m <= Len(mods)
  /\ base' = Append(base, addr)
  /\ addr' = addr + Len(mods[m].bin)
  /\ NextModule
  /\ UNCHANGED <<mods, pc, symbols, output>>

PlaceAll == Turn("place", "define") /\ UNCHANGED <<mods, base, addr, symbols, output>>

NotYet(sym) == TRUE    \* mutant: a later export replaces an earlier one
New(sym) == sym \notin DOMAIN symbols

(* Step 2: the global symbol table. *)
Define ==
  /\ pc = "define" /\ m <= Len(mods)
  /\ \/ /\ k > Len(Exports)
        /\ NextModule
        /\ UNCHANGED symbols
     \/ /\ k <= Len(Exports) /\ New(Exports[k].sym)
        /\ symbols' = [s \in DOMAIN symbols \cup {Exports[k].sym} |->
             IF s = Exports[k].sym THEN base[m] + Exports[k].at ELSE symbols[s]]
        /\ k' = k + 1
        /\ UNCHANGED m
  /\ UNCHANGED <<mods, pc, base, addr, output>>

Duplicate ==
  /\ pc = "define" /\ m <= Len(mods)
  /\ k <= Len(Exports) /\ ~New(Exports[k].sym)
  /\ Fail

(* Step 3: one buffer of total_size zeros, and the binaries into it. *)
Allocate ==
  /\ Turn("define", "copy")
  /\ output' = [a \in 0 .. addr - 1 |-> 0]
  /\ UNCHANGED <<mods, base, addr, symbols>>

Copy ==
  /\ pc = "copy" /\ m <= Len(mods)
  /\ output' = [a \in DOMAIN output |->
       IF base[m] <= a /\ a < base[m] + Len(mods[m].bin)
       THEN mods[m].bin[a - base[m] + 1] ELSE output[a]]
  /\ NextModule
  /\ UNCHANGED <<mods, pc, base, addr, symbols>>

CopyAll == Turn("copy", "patch") /\ UNCHANGED <<mods, base, addr, symbols, output>>

(* Step 4: the fixups. *)
PatchAddrBare(f) == f.at    \* mutant: the module's base is forgotten
PatchAddr(f) == base[m] + f.at
InRangeThree(f) == PatchAddr(f) + 3 <= addr    \* mutant: the opcode is forgotten
InRange(f) == PatchAddr(f) + 4 <= addr

Patch ==
  /\ pc = "patch" /\ m <= Len(mods)
  /\ \/ /\ k > Len(Fixups)
        /\ NextModule
        /\ UNCHANGED output
     \/ /\ k <= Len(Fixups)
        /\ LET f == Fixups[k]
               p == PatchAddr(f) IN
             /\ f.sym \in DOMAIN symbols /\ InRange(f)
             /\ output' = [a \in DOMAIN output \cup p + 1 .. p + 3 |->
                  IF a \in p + 1 .. p + 3 THEN Digit(symbols[f.sym], a - (p + 1)) ELSE output[a]]
        /\ k' = k + 1
        /\ UNCHANGED m
  /\ UNCHANGED <<mods, pc, base, addr, symbols>>

Unresolved ==
  /\ pc = "patch" /\ m <= Len(mods) /\ k <= Len(Fixups)
  /\ Fixups[k].sym \notin DOMAIN symbols
  /\ Fail

OutOfRange ==
  /\ pc = "patch" /\ m <= Len(mods) /\ k <= Len(Fixups)
  /\ Fixups[k].sym \in DOMAIN symbols /\ ~InRange(Fixups[k])
  /\ Fail

Write == Turn("patch", "done") /\ UNCHANGED <<mods, base, addr, symbols, output>>

LinkNext ==
  \/ Place \/ PlaceAll \/ Define \/ Duplicate \/ Allocate \/ Copy \/ CopyAll
  \/ Patch \/ Unresolved \/ OutOfRange \/ Write

(* link24 alone, over any sequence of modules out of a given set. *)
LinkSpec(givens) ==
  LinkInit /\ [][LinkNext \/ \E given \in givens : Load(given)]_linkVars

-----------------------------------------------------------------------------
(* Properties *)

LinkTypeOK ==
  /\ pc \in {"idle", "place", "define", "copy", "patch", "done", "died"}
  /\ m \in Nat \ {0} /\ k \in Nat \ {0} /\ addr \in Nat
  /\ base \in Seq(Nat) /\ Len(base) <= Len(mods)
  /\ \A s \in DOMAIN symbols : symbols[s] \in Nat
  /\ pc \in {"copy", "patch", "done"} => DOMAIN output = 0 .. addr - 1

(* The table holds every export at its final address, and no symbol means  *)
(* two places: what link()'s refusal of duplicates is for.                 *)
SymbolsExact ==
  pc \in {"copy", "patch", "done"} =>
    \A i \in DOMAIN mods : \A j \in DOMAIN mods[i].exports :
      LET e == mods[i].exports[j] IN
        e.sym \in DOMAIN symbols /\ symbols[e.sym] = base[i] + e.at

Patched(md) == {md.fixups[j].at + n : j \in 1 .. Len(md.fixups), n \in 1 .. 3}

(* A byte of a module that none of its own fixups names leaves link24 as it *)
(* was assembled: no patch strays into another instruction or module.      *)
OwnBytesKept ==
  pc = "done" =>
    \A i \in DOMAIN mods : \A a \in 0 .. Len(mods[i].bin) - 1 :
      a \notin Patched(mods[i]) => output[base[i] + a] = mods[i].bin[a + 1]
=============================================================================
