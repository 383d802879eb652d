------------------------------ MODULE LinkProofs ------------------------------
(***************************************************************************)
(* link24 over any modules: its table holds every export at its final      *)
(* address, and no byte but those a fixup names is changed.                *)
(***************************************************************************)
EXTENDS Link24, TLAPS

Entries(Symbol) == [sym : Symbol, at : Nat]

Modules(Symbol) ==
  [exports : Seq(Entries(Symbol)), fixups : Seq(Entries(Symbol)), bin : Seq(Nat)]

(* Every fixup is an instruction of its own module: what meta_gen writes.  *)
FixupsInside(list) ==
  \A i \in 1 .. Len(list) : \A j \in 1 .. Len(list[i].fixups) :
    list[i].fixups[j].at + 4 <= Len(list[i].bin)

-----------------------------------------------------------------------------
(* The invariant, in parts. *)

Phases == {"idle", "place", "define", "copy", "patch", "done", "died"}
Placed == {"define", "copy", "patch", "done"}
Filled == {"copy", "patch", "done"}

Typed(Symbol) ==
  /\ mods \in Seq(Modules(Symbol))
  /\ pc \in Phases
  /\ m \in Nat \ {0} /\ k \in Nat \ {0} /\ addr \in Nat
  /\ base \in Seq(Nat)

(* Modules that have a base follow each other, below addr. *)
InSequence ==
  /\ Len(base) <= Len(mods)
  /\ pc = "idle" => base = <<>> /\ m = 1 /\ k = 1
  /\ pc = "place" => Len(base) = m - 1
  /\ pc \in Placed => Len(base) = Len(mods)
  /\ \A i \in 1 .. Len(base) : base[i] + Len(mods[i].bin) <= addr
  /\ \A i, j \in 1 .. Len(base) : i < j => base[i] + Len(mods[i].bin) <= base[j]

Passed(i, j) == pc = "define" => i < m \/ (i = m /\ j < k)

(* The exports passed are in the table. *)
TableSoFar ==
  /\ \A s \in DOMAIN symbols : symbols[s] \in Nat
  /\ pc \in Placed =>
       \A i \in 1 .. Len(mods) : \A j \in 1 .. Len(mods[i].exports) :
         Passed(i, j) =>
           /\ mods[i].exports[j].sym \in DOMAIN symbols
           /\ symbols[mods[i].exports[j].sym] = base[i] + mods[i].exports[j].at

Sized == pc \in Filled => DOMAIN output = 0 .. addr - 1

(* The modules copied are in the output, but for what their fixups name. *)
CopiedSoFar ==
  pc \in Filled =>
    \A i \in 1 .. Len(mods) : \A a \in 0 .. Len(mods[i].bin) - 1 :
      (pc = "copy" => i < m) /\ a \notin Patched(mods[i])
        => output[base[i] + a] = mods[i].bin[a + 1]

IInv(Symbol) == Typed(Symbol) /\ InSequence /\ TableSoFar /\ Sized

-----------------------------------------------------------------------------
LEMMA ModuleParts ==
  ASSUME NEW Symbol, NEW list \in Seq(Modules(Symbol)), NEW i \in 1 .. Len(list)
  PROVE  /\ list[i].bin \in Seq(Nat) /\ Len(list[i].bin) \in Nat
         /\ list[i].exports \in Seq(Entries(Symbol)) /\ Len(list[i].exports) \in Nat
         /\ list[i].fixups \in Seq(Entries(Symbol)) /\ Len(list[i].fixups) \in Nat
<1>1. list[i] \in Modules(Symbol)
  OBVIOUS
<1>2. /\ list[i].bin \in Seq(Nat)
      /\ list[i].exports \in Seq(Entries(Symbol))
      /\ list[i].fixups \in Seq(Entries(Symbol))
  BY <1>1 DEF Modules
<1> QED BY <1>2

LEMMA LinkStart ==
  ASSUME NEW Symbol, LinkInit
  PROVE  IInv(Symbol) /\ FixupsInside(mods) /\ CopiedSoFar
BY DEF LinkInit, IInv, FixupsInside, CopiedSoFar, Typed, Phases, InSequence, TableSoFar,
       Placed, Sized, Filled

LEMMA LoadKeeps ==
  ASSUME NEW Symbol, NEW given \in Seq(Modules(Symbol)), IInv(Symbol), Load(given)
  PROVE  IInv(Symbol)' /\ CopiedSoFar'
BY DEF Load, IInv, CopiedSoFar, Typed, Phases, InSequence, TableSoFar, Placed, Sized, Filled

LEMMA PlaceKeeps ==
  ASSUME NEW Symbol, IInv(Symbol), Place
  PROVE  IInv(Symbol)' /\ CopiedSoFar'
<1> USE DEF Place, NextModule
<1>0. /\ mods \in Seq(Modules(Symbol)) /\ mods' = mods /\ m \in 1 .. Len(mods)
      /\ base \in Seq(Nat) /\ addr \in Nat /\ Len(base) = m - 1
  BY DEF IInv, Typed, InSequence
<1>1. base' \in Seq(Nat) /\ Len(base') = m /\ addr' \in Nat
  BY <1>0, ModuleParts
<1>2. Typed(Symbol)'
  BY <1>1 DEF IInv, Typed
<1>3. InSequence'
  <2>1. \A i \in 1 .. Len(base') :
          base'[i] = (IF i = m THEN addr ELSE base[i]) /\ base'[i] \in Nat
    BY <1>0, <1>1
  <2>2. \A i \in 1 .. Len(base) : base[i] + Len(mods[i].bin) <= addr
    BY DEF IInv, InSequence
  <2>3. \A i \in 1 .. m : Len(mods[i].bin) \in Nat
    BY <1>0, ModuleParts
  <2>4. ASSUME NEW i \in 1 .. m
        PROVE  base'[i] + Len(mods[i].bin) <= addr'
    <3>1. addr' = addr + Len(mods[m].bin) /\ addr <= addr'
      BY <1>0, <2>3
    <3>2. CASE i = m
      BY <1>0, <1>1, <2>1, <3>1, <3>2
    <3>3. CASE i # m
      <4> HIDE DEF Place, NextModule
      <4>1. i \in 1 .. Len(base) /\ base'[i] = base[i] /\ base[i] \in Nat
        BY SMTT(60), <1>0, <1>1, <2>1, <3>3
      <4>2. base[i] + Len(mods[i].bin) <= addr
        BY <2>2, <4>1
      <4>3. addr \in Nat /\ addr' \in Nat /\ Len(mods[i].bin) \in Nat
        BY <1>0, <1>1, <2>3
      <4> DEFINE b == base'[i]
                 l == Len(mods[i].bin)
      <4>4. b \in Nat /\ l \in Nat /\ b + l <= addr /\ addr <= addr'
        BY <3>1, <4>1, <4>2, <4>3
      <4>5. addr \in Nat /\ addr' \in Nat
        BY <4>3
      <4> HIDE DEF b, l
      <4>6. b + l <= addr'
        BY <4>4, <4>5
      <4> QED BY <4>6 DEF b, l
    <3> QED BY <3>2, <3>3
  <2>5. ASSUME NEW i \in 1 .. Len(base'), NEW j \in 1 .. Len(base'), i < j
        PROVE  base'[i] + Len(mods[i].bin) <= base'[j]
    <3> HIDE DEF Place, NextModule
    <3>1. i \in 1 .. Len(base) /\ base'[i] = base[i]
      BY <1>0, <1>1, <2>1, <2>5
    <3>2. CASE j = m
      BY <2>1, <2>2, <3>1, <3>2
    <3>3. CASE j # m
      <4>1. j \in 1 .. Len(base) /\ base'[j] = base[j]
        BY <1>0, <1>1, <2>1, <3>3
      <4>2. base[i] + Len(mods[i].bin) <= base[j]
        BY <2>5, <3>1, <4>1 DEF IInv, InSequence
      <4> QED BY <3>1, <4>1, <4>2
    <3> QED BY <3>2, <3>3
  <2>6. pc' = "place" /\ Len(base') = m' - 1 /\ Len(base') <= Len(mods')
    BY <1>0, <1>1
  <2> QED BY <1>0, <1>1, <2>4, <2>5, <2>6 DEF InSequence, Placed
<1>4. TableSoFar' /\ Sized' /\ CopiedSoFar'
  BY DEF IInv, TableSoFar, Sized, CopiedSoFar, Placed, Filled
<1> QED BY <1>2, <1>3, <1>4 DEF IInv

LEMMA PlaceAllKeeps ==
  ASSUME NEW Symbol, IInv(Symbol), PlaceAll
  PROVE  IInv(Symbol)' /\ CopiedSoFar'
<1> USE DEF PlaceAll, Turn
<1>1. Typed(Symbol)' /\ Sized' /\ CopiedSoFar'
  BY DEF IInv, Typed, Phases, Sized, CopiedSoFar, Filled
<1>2. InSequence'
  BY DEF IInv, Typed, InSequence, Placed
<1>3. TableSoFar'
  <2>1. pc' = "define" /\ m' = 1 /\ k' = 1 /\ symbols' = symbols /\ mods' = mods
    OBVIOUS
  <2>2. \A i \in 1 .. Len(mods) : \A j \in 1 .. Len(mods[i].exports) : ~Passed(i, j)'
    BY <2>1 DEF Passed
  <2> QED BY <2>1, <2>2 DEF IInv, TableSoFar
<1> QED BY <1>1, <1>2, <1>3 DEF IInv

LEMMA DefineKeeps ==
  ASSUME NEW Symbol, IInv(Symbol), Define
  PROVE  IInv(Symbol)' /\ CopiedSoFar'
<1> USE DEF Define, NextModule
<1>0. /\ mods \in Seq(Modules(Symbol)) /\ mods' = mods /\ m \in 1 .. Len(mods)
      /\ base \in Seq(Nat) /\ base' = base /\ addr' = addr /\ Len(base) = Len(mods)
      /\ pc = "define" /\ pc' = "define" /\ m \in Nat \ {0} /\ k \in Nat \ {0}
  BY DEF IInv, Typed, InSequence, Placed
<1>1. Typed(Symbol)' /\ Sized' /\ CopiedSoFar' /\ InSequence'
  <2>1. Typed(Symbol)'
    BY SMTT(60), <1>0 DEF IInv, Typed, Phases
  <2>2. Sized' /\ CopiedSoFar'
    BY <1>0 DEF IInv, Sized, CopiedSoFar, Filled
  <2>3. InSequence'
    BY <1>0 DEF IInv, InSequence, Placed
  <2> QED BY <2>1, <2>2, <2>3
<1>2. TableSoFar'
  <2>0. \A s \in DOMAIN symbols : symbols[s] \in Nat
    BY DEF IInv, TableSoFar
  <2>1. CASE k > Len(Exports) /\ NextModule /\ UNCHANGED symbols
    <3>1. \A i \in 1 .. Len(mods) : \A j \in 1 .. Len(mods[i].exports) :
            Passed(i, j)' => Passed(i, j)
      BY SMTT(60), <1>0, <2>1, ModuleParts DEF Passed, Exports
    <3> QED BY SMTT(60), <1>0, <2>0, <2>1, <3>1 DEF IInv, TableSoFar, Placed
  <2>2. CASE /\ k <= Len(Exports) /\ New(Exports[k].sym)
             /\ symbols' = [s \in DOMAIN symbols \cup {Exports[k].sym} |->
                  IF s = Exports[k].sym THEN base[m] + Exports[k].at ELSE symbols[s]]
             /\ k' = k + 1 /\ UNCHANGED m
    <3> DEFINE e == Exports[k]
               t == base[m] + e.at
    <3>1. e.sym \in Symbol /\ e.at \in Nat /\ base[m] \in Nat /\ t \in Nat
      <4>1. e \in Entries(Symbol)
        BY <1>0, <2>2, ModuleParts DEF Exports
      <4> QED BY SMTT(60), <1>0, <4>1 DEF Entries
    <3>2. /\ DOMAIN symbols' = DOMAIN symbols \cup {e.sym}
          /\ symbols'[e.sym] = t
          /\ \A s \in DOMAIN symbols : symbols'[s] = symbols[s]
      BY <2>2 DEF New
    <3>3. ASSUME NEW i \in 1 .. Len(mods), NEW j \in 1 .. Len(mods[i].exports), Passed(i, j)'
          PROVE  /\ mods[i].exports[j].sym \in DOMAIN symbols'
                 /\ symbols'[mods[i].exports[j].sym] = base[i] + mods[i].exports[j].at
      <4>1. CASE i = m /\ j = k
        BY <3>2, <4>1 DEF Exports
      <4>2. CASE ~(i = m /\ j = k)
        <5>1. Passed(i, j)
          BY <1>0, <2>2, <3>3, <4>2, ModuleParts DEF Passed
        <5> QED BY <1>0, <3>2, <5>1 DEF IInv, TableSoFar, Placed
      <4> QED BY <4>1, <4>2
    <3>4. \A s \in DOMAIN symbols' : symbols'[s] \in Nat
      BY <2>0, <3>1, <3>2
    <3> QED BY <1>0, <3>3, <3>4 DEF TableSoFar
  <2> QED BY <2>1, <2>2
<1> QED BY <1>1, <1>2 DEF IInv

(* A refusal stops where it stands. *)
LEMMA FailKeeps ==
  ASSUME NEW Symbol, IInv(Symbol), Fail
  PROVE  IInv(Symbol)' /\ CopiedSoFar'
BY DEF Fail, IInv, CopiedSoFar, Typed, Phases, InSequence, TableSoFar, Placed, Sized, Filled

LEMMA AllocateKeeps ==
  ASSUME NEW Symbol, IInv(Symbol), Allocate
  PROVE  IInv(Symbol)' /\ CopiedSoFar'
<1> USE DEF Allocate, Turn
<1>1. /\ mods \in Seq(Modules(Symbol)) /\ mods' = mods /\ m > Len(mods)
      /\ base \in Seq(Nat) /\ base' = base /\ addr' = addr /\ symbols' = symbols
      /\ pc = "define" /\ pc' = "copy" /\ m' = 1 /\ k' = 1
      /\ output' = [a \in 0 .. addr - 1 |-> 0] /\ m \in Nat
  BY DEF IInv, Typed
<1>2. Typed(Symbol)' /\ Sized' /\ InSequence'
  BY <1>1 DEF IInv, Typed, Phases, Sized, InSequence, Placed
<1>3. \A i \in 1 .. Len(mods) : i < m /\ ~(i < m')
  BY <1>1
<1>4. TableSoFar'
  BY <1>1, <1>3 DEF IInv, TableSoFar, Passed, Placed
<1>5. CopiedSoFar'
  BY <1>1, <1>3 DEF CopiedSoFar
<1> QED BY <1>2, <1>4, <1>5 DEF IInv

(* Two modules have no address in common. *)
LEMMA Apart ==
  ASSUME NEW Symbol, IInv(Symbol), pc \in Placed,
         NEW i \in 1 .. Len(mods), NEW j \in 1 .. Len(mods), i # j,
         NEW a \in 0 .. Len(mods[i].bin) - 1
  PROVE  ~(base[j] <= base[i] + a /\ base[i] + a < base[j] + Len(mods[j].bin))
<1>1. Len(base) = Len(mods) /\ base \in Seq(Nat) /\ mods \in Seq(Modules(Symbol))
  BY DEF IInv, Typed, InSequence
<1>2. base[i] \in Nat /\ base[j] \in Nat
  BY <1>1
<1>3. Len(mods[i].bin) \in Nat /\ Len(mods[j].bin) \in Nat
  BY <1>1, ModuleParts
<1>4. base[i] + Len(mods[i].bin) <= base[j] \/ base[j] + Len(mods[j].bin) <= base[i]
  <2>1. i < j \/ j < i
    OBVIOUS
  <2> QED BY <1>1, <2>1 DEF IInv, InSequence
<1> QED BY SMTT(60), <1>2, <1>3, <1>4

LEMMA Inside ==
  ASSUME NEW Symbol, IInv(Symbol), pc \in Filled,
         NEW i \in 1 .. Len(mods), NEW a \in 0 .. Len(mods[i].bin) - 1
  PROVE  base[i] \in Nat /\ base[i] + a \in DOMAIN output
<1>1. /\ Len(base) = Len(mods) /\ base \in Seq(Nat) /\ mods \in Seq(Modules(Symbol))
      /\ DOMAIN output = 0 .. addr - 1 /\ addr \in Nat
  BY DEF IInv, Typed, InSequence, Sized, Placed, Filled
<1>2. base[i] \in Nat /\ Len(mods[i].bin) \in Nat /\ base[i] + Len(mods[i].bin) <= addr
  BY <1>1, ModuleParts DEF IInv, InSequence
<1> QED BY SMTT(60), <1>1, <1>2

LEMMA CopyKeeps ==
  ASSUME NEW Symbol, IInv(Symbol), Copy
  PROVE  IInv(Symbol)' /\ (CopiedSoFar => CopiedSoFar')
<1> USE DEF Copy, NextModule
<1>1. /\ mods \in Seq(Modules(Symbol)) /\ mods' = mods /\ m \in 1 .. Len(mods)
      /\ base \in Seq(Nat) /\ base' = base /\ addr' = addr /\ symbols' = symbols
      /\ pc = "copy" /\ pc' = "copy" /\ m' = m + 1 /\ k' = 1
  BY DEF IInv, Typed
<1>2. Typed(Symbol)' /\ InSequence' /\ TableSoFar'
  BY <1>1 DEF IInv, Typed, Phases, InSequence, TableSoFar, Passed, Placed
<1>3. Sized'
  BY <1>1 DEF IInv, Sized, Filled
<1>4. ASSUME CopiedSoFar,
             NEW i \in 1 .. Len(mods), NEW a \in 0 .. Len(mods[i].bin) - 1,
             i < m + 1, a \notin Patched(mods[i])
      PROVE  output'[base[i] + a] = mods[i].bin[a + 1]
  <2>1. base[i] \in Nat /\ base[i] + a \in DOMAIN output
    BY <1>1, Inside DEF Filled
  <2>2. CASE i = m
    <3>1. base[m] <= base[i] + a /\ base[i] + a < base[m] + Len(mods[m].bin)
      BY SMTT(60), <1>1, <2>1, <2>2, ModuleParts
    <3>2. base[i] + a - base[m] + 1 = a + 1
      BY <2>1, <2>2
    <3> QED BY <2>1, <2>2, <3>1, <3>2
  <2>3. CASE i # m
    <3>1. ~(base[m] <= base[i] + a /\ base[i] + a < base[m] + Len(mods[m].bin))
      BY <1>1, <2>3, Apart DEF Placed
    <3>2. i < m
      BY <1>1, <1>4, <2>3
    <3>3. output'[base[i] + a] = output[base[i] + a]
      BY <2>1, <3>1
    <3> QED BY <1>1, <1>4, <3>2, <3>3 DEF CopiedSoFar, Filled
  <2> QED BY <2>2, <2>3
<1> HIDE DEF Copy, NextModule
<1>5. CopiedSoFar => CopiedSoFar'
  BY <1>1, <1>4 DEF CopiedSoFar
<1> QED BY <1>2, <1>3, <1>5 DEF IInv

LEMMA CopyAllKeeps ==
  ASSUME NEW Symbol, IInv(Symbol), CopyAll
  PROVE  IInv(Symbol)' /\ (CopiedSoFar => CopiedSoFar')
<1> USE DEF CopyAll, Turn
<1>1. /\ mods' = mods /\ m > Len(mods) /\ base' = base /\ addr' = addr
      /\ symbols' = symbols /\ output' = output /\ pc = "copy" /\ pc' = "patch"
      /\ m' = 1 /\ k' = 1 /\ m \in Nat /\ mods \in Seq(Modules(Symbol))
  BY DEF IInv, Typed
<1>2. IInv(Symbol)'
  <2> HIDE DEF CopyAll, Turn
  <2>1. Typed(Symbol)' /\ InSequence' /\ Sized'
    BY <1>1 DEF IInv, Typed, Phases, InSequence, Sized, Placed, Filled
  <2>2. TableSoFar'
    BY <1>1 DEF IInv, TableSoFar, Passed, Placed
  <2> QED BY <2>1, <2>2 DEF IInv
<1>3. CopiedSoFar => CopiedSoFar'
  <2>1. \A i \in 1 .. Len(mods) : i < m
    BY <1>1
  <2> QED BY <1>1, <2>1 DEF CopiedSoFar, Filled
<1> QED BY <1>2, <1>3

LEMMA WriteKeeps ==
  ASSUME NEW Symbol, IInv(Symbol), Write
  PROVE  IInv(Symbol)' /\ (CopiedSoFar => CopiedSoFar')
<1> USE DEF Write, Turn
<1>1. IInv(Symbol)'
  BY DEF IInv, Typed, Phases, InSequence, TableSoFar, Sized, Passed, Placed, Filled
<1>2. CopiedSoFar => CopiedSoFar'
  BY DEF CopiedSoFar, Filled
<1> QED BY <1>1, <1>2

LEMMA AddressBytes ==
  ASSUME NEW p \in Nat, NEW t \in Nat, p + 4 <= t
  PROVE  (p + 1) .. (p + 3) \subseteq 0 .. (t - 1)
OBVIOUS

(* Where the bytes of a fixup of module at b, with n bytes, can be. *)
LEMMA OwnBytes ==
  ASSUME NEW b \in Nat, NEW o \in Nat, NEW n \in Nat, o + 4 <= n, NEW t \in Nat,
         t \in (b + o + 1) .. (b + o + 3)
  PROVE  b <= t /\ t < b + n /\ \E d \in 1 .. 3 : t = b + (o + d)
<1>1. t - (b + o) \in 1 .. 3 /\ t = b + (o + (t - (b + o)))
  OBVIOUS
<1> QED BY <1>1

LEMMA PatchedNames ==
  ASSUME NEW md, NEW j \in 1 .. Len(md.fixups), NEW n \in 1 .. 3
  PROVE  md.fixups[j].at + n \in Patched(md)
BY DEF Patched

(* The three bytes of a patch are inside the output, and, for a fixup of   *)
(* its own module, are bytes the fixup names.                              *)
LEMMA PatchKeeps ==
  ASSUME NEW Symbol, IInv(Symbol), Patch
  PROVE  IInv(Symbol)' /\ (FixupsInside(mods) /\ CopiedSoFar => CopiedSoFar')
<1> USE DEF Patch, NextModule
<1>1. /\ mods \in Seq(Modules(Symbol)) /\ mods' = mods /\ m \in 1 .. Len(mods)
      /\ base \in Seq(Nat) /\ base' = base /\ addr' = addr /\ symbols' = symbols
      /\ pc = "patch" /\ pc' = "patch" /\ m' \in Nat \ {0} /\ k' \in Nat \ {0}
      /\ addr \in Nat /\ Len(base) = Len(mods) /\ DOMAIN output = 0 .. addr - 1
  BY SMTT(60) DEF IInv, Typed, InSequence, Sized, Placed, Filled
<1>2. Typed(Symbol)' /\ InSequence' /\ TableSoFar'
  BY <1>1 DEF IInv, Typed, Phases, InSequence, TableSoFar, Passed, Placed
<1>3. CASE k > Len(Fixups) /\ NextModule /\ UNCHANGED output
  <2>1. Sized'
    BY <1>1, <1>3 DEF Sized
  <2>2. CopiedSoFar => CopiedSoFar'
    <3>1. output' = output
      BY <1>3
    <3> HIDE DEF Patch, NextModule
    <3> QED BY <1>1, <3>1 DEF CopiedSoFar
  <2> QED BY <1>2, <2>1, <2>2 DEF IInv
<1>4. CASE k <= Len(Fixups) /\ ~(k > Len(Fixups))
  <2> DEFINE f == Fixups[k]
             p == PatchAddr(f)
             value(a) == Digit(symbols[f.sym], a - (p + 1))
  <2>0. p + 4 <= addr
    BY <1>4 DEF InRange
  <2>1. output' = [a \in DOMAIN output \cup p + 1 .. p + 3 |->
                    IF a \in p + 1 .. p + 3 THEN value(a) ELSE output[a]]
    BY <1>4
  <2>2. f \in Entries(Symbol) /\ k \in 1 .. Len(mods[m].fixups) /\ base[m] \in Nat
    <3>1. k \in Nat \ {0} /\ Len(mods[m].fixups) \in Nat
      BY <1>1, ModuleParts DEF IInv, Typed
    <3> QED BY SMTT(60), <1>1, <1>4, <3>1, ModuleParts DEF Fixups
  <2>3. f.at \in Nat /\ p = base[m] + f.at /\ p \in Nat
    BY <2>2 DEF Entries, PatchAddr
  <2> DEFINE o == f.at
  <2>4. o \in Nat /\ p = base[m] + o
    BY <2>3
  <2> HIDE DEF Patch, NextModule, o, p, value
  <2>5. Sized'
    <3>1. p + 1 .. p + 3 \subseteq 0 .. addr - 1
      BY <1>1, <2>0, <2>3, AddressBytes
    <3> QED BY <1>1, <2>1, <3>1 DEF Sized
  <2>6. ASSUME FixupsInside(mods), CopiedSoFar,
               NEW i \in 1 .. Len(mods), NEW a \in 0 .. Len(mods[i].bin) - 1,
               a \notin Patched(mods[i])
        PROVE  output'[base[i] + a] = mods[i].bin[a + 1]
    <3>1. base[i] \in Nat /\ base[i] + a \in DOMAIN output
      BY <1>1, Inside DEF Filled
    <3>0. a \in Nat
      BY <1>1, ModuleParts
    <3>2. base[i] + a \notin p + 1 .. p + 3
      <4> SUFFICES ASSUME base[i] + a \in (p + 1) .. (p + 3)
                   PROVE  FALSE
        OBVIOUS
      <4>1. /\ base[m] <= base[i] + a /\ base[i] + a < base[m] + Len(mods[m].bin)
            /\ \E d \in 1 .. 3 : base[i] + a = base[m] + (o + d)
        <5>1. o + 4 <= Len(mods[m].bin) /\ Len(mods[m].bin) \in Nat
          BY <1>1, <2>2, <2>6, ModuleParts DEF FixupsInside, Fixups, o
        <5>2. base[i] + a \in (base[m] + o + 1) .. (base[m] + o + 3)
          BY <2>4
        <5>3. base[i] + a \in Nat /\ base[m] \in Nat
          BY <2>2, <3>1
        <5> DEFINE b == base[m]
                   n == Len(mods[m].bin)
                   t == base[i] + a
        <5>4. b \in Nat /\ o \in Nat /\ n \in Nat /\ t \in Nat
          BY <2>4, <5>1, <5>3
        <5>5. o + 4 <= n /\ t \in (b + o + 1) .. (b + o + 3)
          BY <5>1, <5>2
        <5> HIDE DEF b, n, t
        <5>6. b <= t /\ t < b + n /\ \E d \in 1 .. 3 : t = b + (o + d)
          BY <5>4, <5>5, OwnBytes
        <5> QED BY <5>6 DEF b, n, t
      <4>2. CASE i = m
        <5>1. PICK d \in 1 .. 3 : base[i] + a = base[m] + (o + d)
          BY <4>1
        <5>2. a = o + d
          BY SMTT(60), <2>4, <3>0, <3>1, <4>2, <5>1
        <5>3. a \in Patched(mods[m])
          BY <2>2, <5>2, PatchedNames DEF Fixups, o
        <5> QED BY <2>6, <4>2, <5>3
      <4>3. CASE i # m
        BY <1>1, <4>1, <4>3, Apart DEF Placed
      <4> QED BY <4>2, <4>3
    <3>3. output'[base[i] + a] = output[base[i] + a]
      BY <2>1, <3>1, <3>2
    <3> QED BY <1>1, <2>6, <3>3 DEF CopiedSoFar, Filled
  <2>7. FixupsInside(mods) /\ CopiedSoFar => CopiedSoFar'
    BY <1>1, <2>6 DEF CopiedSoFar
  <2> QED BY <1>2, <2>5, <2>7 DEF IInv
<1> QED
  <2>1. k \in Nat /\ Len(Fixups) \in Nat
    BY <1>1, ModuleParts DEF IInv, Typed, Fixups
  <2> QED BY <1>3, <1>4, <2>1

-----------------------------------------------------------------------------
LEMMA StutterKeeps ==
  ASSUME NEW Symbol, IInv(Symbol), UNCHANGED linkVars
  PROVE  IInv(Symbol)' /\ (CopiedSoFar => CopiedSoFar')
BY DEF linkVars, IInv, CopiedSoFar, Typed, Phases, InSequence, TableSoFar, Passed, Placed,
       Sized, Filled

LEMMA StepKeeps ==
  ASSUME NEW Symbol, IInv(Symbol), LinkNext
  PROVE  IInv(Symbol)' /\ (FixupsInside(mods) /\ CopiedSoFar => CopiedSoFar') /\ mods' = mods
<1>1. IInv(Symbol)' /\ (FixupsInside(mods) /\ CopiedSoFar => CopiedSoFar')
  <2>1. CASE Place
    BY <2>1, PlaceKeeps
  <2>2. CASE PlaceAll
    BY <2>2, PlaceAllKeeps
  <2>3. CASE Define
    BY <2>3, DefineKeeps
  <2>4. CASE Duplicate \/ Unresolved \/ OutOfRange
    BY <2>4, FailKeeps DEF Duplicate, Unresolved, OutOfRange
  <2>5. CASE Allocate
    BY <2>5, AllocateKeeps
  <2>6. CASE Copy
    BY <2>6, CopyKeeps
  <2>7. CASE CopyAll
    BY <2>7, CopyAllKeeps
  <2>8. CASE Patch
    BY <2>8, PatchKeeps
  <2>9. CASE Write
    BY <2>9, WriteKeeps
  <2> QED BY <2>1, <2>2, <2>3, <2>4, <2>5, <2>6, <2>7, <2>8, <2>9 DEF LinkNext
<1>2. mods' = mods
  BY DEF LinkNext, Place, PlaceAll, Define, Duplicate, Allocate, Copy, CopyAll, Patch,
         Unresolved, OutOfRange, Write, Fail
<1> QED BY <1>1, <1>2

(* The type invariant, for any number of modules of any size: bases, the    *)
(* table and addr stay what link() takes them for, and no patch leaves the  *)
(* output buffer (main.rs:167, where the alternative is a panic).           *)
THEOREM LinkTypes ==
  ASSUME NEW Symbol, NEW givens \in SUBSET Seq(Modules(Symbol))
  PROVE  LinkSpec(givens) => []LinkTypeOK
<1>1. LinkInit => IInv(Symbol)
  BY LinkStart
<1>2. IInv(Symbol) /\ [LinkNext \/ \E given \in givens : Load(given)]_linkVars => IInv(Symbol)'
  BY StepKeeps, LoadKeeps, StutterKeeps
<1>3. IInv(Symbol) => LinkTypeOK
  BY DEF IInv, Typed, Phases, InSequence, TableSoFar, Sized, Filled, LinkTypeOK
<1> QED BY <1>1, <1>2, <1>3, PTL DEF LinkSpec

(* Once the table is complete every export of every module is in it, at its *)
(* module's base plus its offset, and no symbol means two places.           *)
THEOREM LinkSymbols ==
  ASSUME NEW Symbol, NEW givens \in SUBSET Seq(Modules(Symbol))
  PROVE  LinkSpec(givens) => []SymbolsExact
<1>1. LinkInit => IInv(Symbol)
  BY LinkStart
<1>2. IInv(Symbol) /\ [LinkNext \/ \E given \in givens : Load(given)]_linkVars => IInv(Symbol)'
  BY StepKeeps, LoadKeeps, StutterKeeps
<1>3. IInv(Symbol) => SymbolsExact
  <2> SUFFICES ASSUME IInv(Symbol), pc \in Filled, NEW i \in DOMAIN mods,
                      NEW j \in DOMAIN mods[i].exports
               PROVE  /\ mods[i].exports[j].sym \in DOMAIN symbols
                      /\ symbols[mods[i].exports[j].sym] = base[i] + mods[i].exports[j].at
    BY DEF SymbolsExact, Filled
  <2>1. i \in 1 .. Len(mods) /\ j \in 1 .. Len(mods[i].exports)
    <3>1. mods \in Seq(Modules(Symbol)) /\ i \in 1 .. Len(mods)
      BY DEF IInv, Typed
    <3> QED BY <3>1, ModuleParts
  <2> QED BY <2>1 DEF IInv, TableSoFar, Passed, Placed, Filled
<1> QED BY <1>1, <1>2, <1>3, PTL DEF LinkSpec

(* Where every fixup is an instruction of its own module, a byte that none  *)
(* of a module's fixups names is, in the output, what the assembler made:   *)
(* fixups may overlap or share bytes, modules be empty, in any order.       *)
THEOREM LinkOwnBytes ==
  ASSUME NEW Symbol, NEW givens \in SUBSET Seq(Modules(Symbol)),
         \A given \in givens : FixupsInside(given)
  PROVE  LinkSpec(givens) => []OwnBytesKept
<1> DEFINE Inv == IInv(Symbol) /\ FixupsInside(mods) /\ CopiedSoFar
<1>1. LinkInit => Inv
  BY LinkStart
<1>2. Inv /\ [LinkNext \/ \E given \in givens : Load(given)]_linkVars => Inv'
  <2> SUFFICES ASSUME Inv, [LinkNext \/ \E given \in givens : Load(given)]_linkVars
               PROVE  Inv'
    OBVIOUS
  <2>1. CASE LinkNext
    BY <2>1, StepKeeps DEF FixupsInside
  <2>2. ASSUME NEW given \in givens, Load(given)
        PROVE  Inv'
    <3>1. mods' = given
      BY <2>2 DEF Load
    <3> QED BY <2>2, <3>1, LoadKeeps DEF FixupsInside
  <2>3. CASE UNCHANGED linkVars
    BY <2>3, StutterKeeps DEF FixupsInside, linkVars
  <2> QED BY <2>1, <2>2, <2>3
<1>3. Inv => OwnBytesKept
  <2> SUFFICES ASSUME Inv, pc = "done", NEW i \in DOMAIN mods,
                      NEW a \in 0 .. Len(mods[i].bin) - 1, a \notin Patched(mods[i])
               PROVE  output[base[i] + a] = mods[i].bin[a + 1]
    BY DEF OwnBytesKept
  <2>1. i \in 1 .. Len(mods)
    BY DEF IInv, Typed
  <2> QED BY <2>1 DEF CopiedSoFar, Filled
<1> QED BY <1>1, <1>2, <1>3, PTL DEF LinkSpec

-----------------------------------------------------------------------------
(* What a program that is written holds, and why one is refused.           *)

(* No two fixups of a module share a byte, as no two instructions do.      *)
FixupsApart(list) ==
  \A i \in 1 .. Len(list) : \A j, l \in 1 .. Len(list[i].fixups) :
    j # l => \/ list[i].fixups[j].at + 4 <= list[i].fixups[l].at
             \/ list[i].fixups[l].at + 4 <= list[i].fixups[j].at

(* The names in the table are those of the exports passed, and no two of   *)
(* these are the same.                                                     *)
NamesSoFar ==
  /\ pc \in {"idle", "place"} => DOMAIN symbols = {}
  /\ pc \in Placed =>
       /\ \A s \in DOMAIN symbols :
            \E i \in 1 .. Len(mods) : \E j \in 1 .. Len(mods[i].exports) :
              Passed(i, j) /\ mods[i].exports[j].sym = s
       /\ \A i, g \in 1 .. Len(mods) :
            \A j \in 1 .. Len(mods[i].exports) : \A h \in 1 .. Len(mods[g].exports) :
              /\ Passed(i, j) /\ Passed(g, h)
              /\ mods[i].exports[j].sym = mods[g].exports[h].sym
              => i = g /\ j = h

PatchPassed(i, j) == pc = "patch" => i < m \/ (i = m /\ j < k)

(* The fixups passed hold the addresses of their symbols.                  *)
Holds(i, f) ==
  /\ f.sym \in DOMAIN symbols
  /\ \A n \in 0 .. 2 : output[base[i] + f.at + 1 + n] = Digit(symbols[f.sym], n)
PatchedSoFar ==
  pc \in {"patch", "done"} =>
    \A i \in 1 .. Len(mods) : \A j \in 1 .. Len(mods[i].fixups) :
      PatchPassed(i, j) => Holds(i, mods[i].fixups[j])

(* A symbol that is exported twice, and one that is not exported at all.   *)
Twice(list) ==
  \E i, g \in 1 .. Len(list) :
    \E j \in 1 .. Len(list[i].exports) : \E h \in 1 .. Len(list[g].exports) :
      (i # g \/ j # h) /\ list[i].exports[j].sym = list[g].exports[h].sym
Missing(list) ==
  \E i \in 1 .. Len(list) : \E j \in 1 .. Len(list[i].fixups) :
    \A g \in 1 .. Len(list) : \A h \in 1 .. Len(list[g].exports) :
      list[g].exports[h].sym # list[i].fixups[j].sym
RefusedRightly == pc = "died" => Twice(mods) \/ Missing(mods)

LEMMA NamesKeep ==
  ASSUME NEW Symbol, IInv(Symbol), NamesSoFar, LinkNext
  PROVE  NamesSoFar'
<1>0. mods' = mods /\ mods \in Seq(Modules(Symbol)) /\ m \in Nat /\ k \in Nat
  BY StepKeeps DEF IInv, Typed
<1>1. CASE Place \/ Copy \/ CopyAll \/ Patch \/ Write
  <2>1. symbols' = symbols /\ (pc = "place" \/ pc \in Filled) /\ pc \in Placed \cup {"place"}
        /\ (pc = "place" => pc' = "place") /\ (pc \in Filled => pc' \in Filled)
    BY <1>1 DEF Place, Copy, CopyAll, Patch, Write, Turn, Filled, Placed
  <2>2. CASE pc = "place"
    BY <2>1, <2>2 DEF NamesSoFar, Placed
  <2>3. CASE pc \in Filled
    <3>1. pc # "define" /\ pc' # "define" /\ pc \in Placed /\ pc' \in Placed /\ pc' \notin {"idle", "place"}
      BY <2>1, <2>3 DEF Filled, Placed
    <3>2. \A i, j : Passed(i, j) /\ Passed(i, j)'
      BY <3>1 DEF Passed
    <3> QED BY <1>0, <2>1, <3>1, <3>2 DEF NamesSoFar
  <2> QED BY <2>1, <2>2, <2>3
<1>2. CASE PlaceAll
  <2>1. pc = "place" /\ pc' = "define" /\ m' = 1 /\ k' = 1 /\ symbols' = symbols
    BY <1>2 DEF PlaceAll, Turn
  <2>2. \A i \in 1 .. Len(mods) : \A j \in 1 .. Len(mods[i].exports) : ~Passed(i, j)'
    BY <2>1 DEF Passed
  <2> QED BY <1>0, <2>1, <2>2 DEF NamesSoFar
<1>3. CASE Allocate
  <2>1. pc = "define" /\ pc' = "copy" /\ m > Len(mods) /\ symbols' = symbols
    BY <1>3 DEF Allocate, Turn
  <2>2. \A i \in 1 .. Len(mods) : i < m
    BY <1>0, <2>1
  <2>3. \A i \in 1 .. Len(mods) : \A j : Passed(i, j) /\ Passed(i, j)'
    BY <2>1, <2>2 DEF Passed
  <2>4. pc \in Placed /\ pc' \in Placed /\ pc' \notin {"idle", "place"}
    BY <2>1 DEF Placed
  <2> QED BY <1>0, <2>1, <2>3, <2>4 DEF NamesSoFar
<1>4. CASE Duplicate \/ Unresolved \/ OutOfRange
  BY <1>4 DEF Duplicate, Unresolved, OutOfRange, Fail, NamesSoFar, Placed
<1>5. CASE Define
  <2>0. pc = "define" /\ pc' = "define" /\ m \in 1 .. Len(mods) /\ Len(Exports) \in Nat
    <3>1. pc = "define" /\ pc' = "define" /\ m \in 1 .. Len(mods)
      BY <1>0, <1>5 DEF Define, IInv, Typed
    <3> QED BY <1>0, <3>1, ModuleParts DEF Exports
  <2>1. CASE k > Len(Exports) /\ NextModule /\ UNCHANGED symbols
    <3>1. \A i \in 1 .. Len(mods) : \A j \in 1 .. Len(mods[i].exports) :
            Passed(i, j)' <=> Passed(i, j)
      BY <1>0, <2>0, <2>1, ModuleParts DEF Passed, Exports, NextModule
    <3> QED BY <1>0, <2>0, <2>1, <3>1 DEF NamesSoFar, Placed
  <2>2. CASE k <= Len(Exports) /\ New(Exports[k].sym) /\ k' = k + 1 /\ m' = m
             /\ DOMAIN symbols' = DOMAIN symbols \cup {Exports[k].sym}
    <3>1. k \in 1 .. Len(mods[m].exports)
      BY <2>0, <2>2 DEF IInv, Typed, Exports
    <3>2. \A i \in 1 .. Len(mods) : \A j \in 1 .. Len(mods[i].exports) :
            Passed(i, j)' <=> Passed(i, j) \/ (i = m /\ j = k)
      BY <1>0, <2>0, <2>2 DEF Passed
    <3>3. \A i \in 1 .. Len(mods) : \A j \in 1 .. Len(mods[i].exports) :
            Passed(i, j) => mods[i].exports[j].sym \in DOMAIN symbols
      BY <2>0 DEF IInv, TableSoFar, Placed
    <3>4. mods[m].exports[k].sym \notin DOMAIN symbols
      BY <2>2 DEF New, Exports
    <3>5. \A s \in DOMAIN symbols' :
            \E i \in 1 .. Len(mods) : \E j \in 1 .. Len(mods[i].exports) :
              Passed(i, j)' /\ mods[i].exports[j].sym = s
      <4> TAKE s \in DOMAIN symbols'
      <4>1. CASE s \in DOMAIN symbols
        BY <2>0, <3>2, <4>1 DEF NamesSoFar, Placed
      <4>2. CASE s = mods[m].exports[k].sym
        BY <2>0, <3>1, <3>2, <4>2
      <4> QED BY <2>2, <4>1, <4>2 DEF Exports
    <3>6. ASSUME NEW i \in 1 .. Len(mods), NEW g \in 1 .. Len(mods),
                 NEW j \in 1 .. Len(mods[i].exports), NEW h \in 1 .. Len(mods[g].exports),
                 Passed(i, j)', Passed(g, h)',
                 mods[i].exports[j].sym = mods[g].exports[h].sym
          PROVE  i = g /\ j = h
      <4>1. CASE Passed(i, j) /\ Passed(g, h)
        BY <2>0, <3>6, <4>1 DEF NamesSoFar, Placed
      <4>2. CASE ~(Passed(i, j) /\ Passed(g, h))
        BY <3>2, <3>3, <3>4, <3>6, <4>2
      <4> QED BY <4>1, <4>2
    <3>7. \A i, g \in 1 .. Len(mods) :
            \A j \in 1 .. Len(mods[i].exports) : \A h \in 1 .. Len(mods[g].exports) :
              /\ Passed(i, j)' /\ Passed(g, h)'
              /\ mods[i].exports[j].sym = mods[g].exports[h].sym
              => i = g /\ j = h
      BY <3>6
    <3>8. pc' \notin {"idle", "place"}
      BY <2>0
    <3> QED BY <1>0, <3>5, <3>7, <3>8 DEF NamesSoFar
  <2> QED BY <1>5, <2>1, <2>2 DEF Define
<1> QED BY <1>1, <1>2, <1>3, <1>4, <1>5 DEF LinkNext

LEMMA RefusedKeeps ==
  ASSUME NEW Symbol, IInv(Symbol), NamesSoFar, FixupsInside(mods), RefusedRightly, LinkNext
  PROVE  RefusedRightly'
<1>0. mods' = mods /\ mods \in Seq(Modules(Symbol)) /\ m \in Nat \ {0} /\ k \in Nat \ {0}
  BY StepKeeps DEF IInv, Typed
<1>1. CASE Duplicate
  <2>1. /\ pc = "define" /\ m \in 1 .. Len(mods) /\ k \in 1 .. Len(mods[m].exports)
        /\ mods[m].exports[k].sym \in DOMAIN symbols
    <3>1. pc = "define" /\ m \in 1 .. Len(mods) /\ k <= Len(mods[m].exports)
          /\ mods[m].exports[k].sym \in DOMAIN symbols
      BY <1>0, <1>1 DEF Duplicate, Exports, New
    <3> QED BY <1>0, <3>1, ModuleParts
  <2>2. PICK i \in 1 .. Len(mods) : \E j \in 1 .. Len(mods[i].exports) :
          Passed(i, j) /\ mods[i].exports[j].sym = mods[m].exports[k].sym
    BY <2>1 DEF NamesSoFar, Placed
  <2>3. PICK j \in 1 .. Len(mods[i].exports) :
          Passed(i, j) /\ mods[i].exports[j].sym = mods[m].exports[k].sym
    BY <2>2
  <2>4. i # m \/ j # k
    BY <1>0, <2>1, <2>3 DEF Passed
  <2>5. Twice(mods)
    BY <2>1, <2>3, <2>4 DEF Twice
  <2> QED BY <1>0, <2>5 DEF RefusedRightly
<1>2. CASE Unresolved
  <2>1. /\ pc = "patch" /\ m \in 1 .. Len(mods) /\ k \in 1 .. Len(mods[m].fixups)
        /\ mods[m].fixups[k].sym \notin DOMAIN symbols
    <3>1. pc = "patch" /\ m \in 1 .. Len(mods) /\ k <= Len(mods[m].fixups)
          /\ mods[m].fixups[k].sym \notin DOMAIN symbols
      BY <1>0, <1>2 DEF Unresolved, Fixups
    <3> QED BY <1>0, <3>1, ModuleParts
  <2>2. \A g \in 1 .. Len(mods) : \A h \in 1 .. Len(mods[g].exports) :
          mods[g].exports[h].sym \in DOMAIN symbols
    BY <2>1 DEF IInv, TableSoFar, Passed, Placed
  <2>3. Missing(mods)
    BY <2>1, <2>2 DEF Missing
  <2> QED BY <1>0, <2>3 DEF RefusedRightly
<1>3. CASE OutOfRange
  <2>1. pc = "patch" /\ m \in 1 .. Len(mods) /\ k <= Len(mods[m].fixups)
        /\ ~(base[m] + mods[m].fixups[k].at + 4 <= addr)
    BY <1>0, <1>3 DEF OutOfRange, Fixups, InRange, PatchAddr
  <2>2. k \in 1 .. Len(mods[m].fixups) /\ Len(mods[m].bin) \in Nat /\ mods[m].fixups[k].at \in Nat
    <3>1. Len(mods[m].fixups) \in Nat /\ mods[m].fixups \in Seq(Entries(Symbol)) /\ Len(mods[m].bin) \in Nat
      BY <1>0, <2>1, ModuleParts
    <3>2. k \in 1 .. Len(mods[m].fixups)
      BY <1>0, <2>1, <3>1
    <3>3. mods[m].fixups[k] \in Entries(Symbol)
      BY <3>1, <3>2
    <3> QED BY <3>1, <3>2, <3>3 DEF Entries
  <2>3. base[m] \in Nat /\ addr \in Nat /\ base[m] + Len(mods[m].bin) <= addr
    BY <2>1 DEF IInv, Typed, InSequence, Placed
  <2>4. mods[m].fixups[k].at + 4 <= Len(mods[m].bin)
    BY <2>1, <2>2 DEF FixupsInside
  <2> DEFINE b == base[m]
             o == mods[m].fixups[k].at
             l == Len(mods[m].bin)
  <2>5. b \in Nat /\ o \in Nat /\ l \in Nat /\ addr \in Nat /\ b + l <= addr /\ o + 4 <= l
        /\ ~(b + o + 4 <= addr)
    BY <2>1, <2>2, <2>3, <2>4
  <2> HIDE DEF b, o, l
  <2> QED BY <2>5
<1>4. CASE ~(Duplicate \/ Unresolved \/ OutOfRange)
  <2>1. pc' # "died"
    BY <1>4 DEF LinkNext, Place, PlaceAll, Define, Allocate, Copy, CopyAll, Patch, Write, Turn
  <2> QED BY <2>1 DEF RefusedRightly
<1> QED BY <1>1, <1>2, <1>3, <1>4

LEMMA PatchedKeeps ==
  ASSUME NEW Symbol, IInv(Symbol), FixupsInside(mods), FixupsApart(mods), PatchedSoFar, LinkNext
  PROVE  PatchedSoFar'
<1>0. mods' = mods /\ mods \in Seq(Modules(Symbol)) /\ m \in Nat \ {0} /\ k \in Nat \ {0}
  BY StepKeeps DEF IInv, Typed
<1>1. CASE Place \/ PlaceAll \/ Define \/ Allocate \/ Copy \/ Duplicate \/ Unresolved \/ OutOfRange
  <2>1. pc' \notin {"patch", "done"}
    BY <1>1 DEF Place, PlaceAll, Define, Allocate, Copy, Turn, Duplicate, Unresolved, OutOfRange, Fail
  <2> QED BY <2>1 DEF PatchedSoFar
<1>2. CASE CopyAll
  <2>1. pc' = "patch" /\ m' = 1 /\ k' = 1
    BY <1>2 DEF CopyAll, Turn
  <2>2. \A i \in 1 .. Len(mods) : \A j \in 1 .. Len(mods[i].fixups) : ~PatchPassed(i, j)'
    BY <2>1 DEF PatchPassed
  <2> QED BY <1>0, <2>2 DEF PatchedSoFar
<1>3. CASE Write
  <2>1. /\ pc = "patch" /\ m > Len(mods) /\ symbols' = symbols /\ output' = output /\ base' = base
    BY <1>3 DEF Write, Turn
  <2>2. \A i \in 1 .. Len(mods) : i < m
    BY <1>0, <2>1
  <2>3. \A i \in 1 .. Len(mods) : \A j : PatchPassed(i, j)
    BY <2>1, <2>2 DEF PatchPassed
  <2> QED BY <1>0, <2>1, <2>3 DEF PatchedSoFar, Holds
<1>4. CASE Patch
  <2>0. /\ pc = "patch" /\ pc' = "patch" /\ m \in 1 .. Len(mods) /\ symbols' = symbols
        /\ base' = base /\ base \in Seq(Nat) /\ Len(base) = Len(mods)
    BY <1>0, <1>4 DEF Patch, IInv, Typed, InSequence, Placed
  <2>1. /\ Fixups \in Seq(Entries(Symbol)) /\ Len(Fixups) \in Nat
    BY <1>0, <2>0, ModuleParts DEF Fixups
  <2>2. CASE k > Len(Fixups) /\ NextModule /\ UNCHANGED output
    <3>1. ASSUME NEW i \in 1 .. Len(mods), NEW j \in 1 .. Len(mods[i].fixups), PatchPassed(i, j)'
          PROVE  PatchPassed(i, j)
      <4>1. m' = m + 1 /\ k' = 1 /\ k > Len(mods[m].fixups) /\ Len(mods[m].fixups) \in Nat
        BY <2>1, <2>2 DEF NextModule, Fixups
      <4>2. Len(mods[i].fixups) \in Nat
        BY <1>0, ModuleParts
      <4>3. i < m + 1
        BY <1>0, <2>0, <3>1, <4>1 DEF PatchPassed
      <4> QED BY <1>0, <2>0, <4>1, <4>2, <4>3 DEF PatchPassed
    <3>2. output' = output
      BY <2>2
    <3>3. ASSUME NEW i \in 1 .. Len(mods), NEW j \in 1 .. Len(mods[i].fixups),
                 PatchPassed(i, j)'
          PROVE  Holds(i, mods[i].fixups[j])'
      <4>1. Holds(i, mods[i].fixups[j])
        BY <2>0, <3>1, <3>3 DEF PatchedSoFar
      <4> QED BY <1>0, <2>0, <3>2, <4>1 DEF Holds
    <3> QED BY <1>0, <2>0, <3>3 DEF PatchedSoFar
  <2>3. ASSUME k <= Len(Fixups), k' = k + 1, m' = m,
               Fixups[k].sym \in DOMAIN symbols,
               output' = [a \in DOMAIN output \cup PatchAddr(Fixups[k]) + 1 .. PatchAddr(Fixups[k]) + 3 |->
                 IF a \in PatchAddr(Fixups[k]) + 1 .. PatchAddr(Fixups[k]) + 3
                 THEN Digit(symbols[Fixups[k].sym], a - (PatchAddr(Fixups[k]) + 1)) ELSE output[a]]
        PROVE  PatchedSoFar'
    <3>1. k \in 1 .. Len(mods[m].fixups) /\ Fixups[k] \in Entries(Symbol)
      BY <1>0, <2>1, <2>3 DEF Fixups
    <3>2. PICK f : f = Fixups[k]
      OBVIOUS
    <3>3. PICK b : b = base[m]
      OBVIOUS
    <3>4. PICK o : o = f.at
      OBVIOUS
    <3>5. f = mods[m].fixups[k] /\ b \in Nat /\ o \in Nat /\ f.sym \in DOMAIN symbols
      BY <2>0, <2>3, <3>1, <3>2, <3>3, <3>4 DEF Fixups, Entries
    <3>6. output' = [a \in DOMAIN output \cup b + o + 1 .. b + o + 3 |->
                 IF a \in b + o + 1 .. b + o + 3
                 THEN Digit(symbols[f.sym], a - (b + o + 1)) ELSE output[a]]
      BY <2>3, <3>2, <3>3, <3>4 DEF PatchAddr
    <3>7. ASSUME NEW i \in 1 .. Len(mods), NEW j \in 1 .. Len(mods[i].fixups), PatchPassed(i, j)'
          PROVE  Holds(i, mods[i].fixups[j])'
      <4>1. CASE i = m /\ j = k
        <5>1. \A n \in 0 .. 2 : b + o + 1 + n \in b + o + 1 .. b + o + 3 /\ b + o + 1 + n - (b + o + 1) = n
          BY <3>5
        <5>2. \A n \in 0 .. 2 : output'[b + o + 1 + n] = Digit(symbols[f.sym], n)
          <6>1. \A a \in b + o + 1 .. b + o + 3 : output'[a] = Digit(symbols[f.sym], a - (b + o + 1))
            BY <3>6
          <6>2. ASSUME NEW n \in 0 .. 2
                PROVE  output'[b + o + 1 + n] = Digit(symbols[f.sym], n)
            <7>1. PICK a : a = b + o + 1 + n
              OBVIOUS
            <7>2. a \in b + o + 1 .. b + o + 3 /\ a - (b + o + 1) = n
              BY <3>5, <7>1
            <7>3. output'[a] = Digit(symbols[f.sym], a - (b + o + 1))
              BY <6>1, <7>2
            <7> QED BY <7>1, <7>2, <7>3
          <6> QED BY <6>2
        <5>3. mods[i].fixups[j] = f /\ base[i] = b /\ f.at = o
          BY <3>3, <3>4, <3>5, <4>1
        <5> QED BY <1>0, <2>0, <3>5, <5>2, <5>3 DEF Holds
      <4>2. CASE ~(i = m /\ j = k)
        <5>1. Len(mods[i].fixups) \in Nat /\ mods[i].fixups \in Seq(Entries(Symbol))
          BY <1>0, ModuleParts
        <5>2. PatchPassed(i, j)
          BY <1>0, <2>0, <2>3, <3>7, <4>2, <5>1 DEF PatchPassed
        <5>3. Holds(i, mods[i].fixups[j])
          BY <2>0, <5>2 DEF PatchedSoFar
        <5>4. PICK g : g = mods[i].fixups[j]
          OBVIOUS
        <5>5. g \in Entries(Symbol) /\ g.at \in Nat
          <6>1. g \in Entries(Symbol)
            BY <5>1, <5>4
          <6> QED BY <6>1 DEF Entries
        <5>6. PICK c : c = base[i]
          OBVIOUS
        <5>7. PICK q : q = g.at
          OBVIOUS
        <5>8. c \in Nat /\ q \in Nat
          BY <2>0, <5>5, <5>6, <5>7
        <5>9. c + q + 4 <= b + o \/ b + o + 4 <= c + q
          <6>1. CASE i = m
            <7>1. j # k /\ c = b
              BY <3>3, <4>2, <5>6, <6>1
            <7>2. q + 4 <= o \/ o + 4 <= q
              BY <3>1, <3>4, <3>5, <5>4, <5>7, <6>1, <7>1 DEF FixupsApart
            <7> QED BY <3>5, <5>8, <7>1, <7>2
          <6>2. CASE i # m
            <7>1. PICK l : l = Len(mods[i].bin)
              OBVIOUS
            <7>2. PICK h : h = Len(mods[m].bin)
              OBVIOUS
            <7>3. l \in Nat /\ h \in Nat
              BY <1>0, <2>0, <7>1, <7>2, ModuleParts
            <7>4. q + 4 <= l /\ o + 4 <= h
              BY <2>0, <3>1, <3>4, <3>5, <5>4, <5>7, <7>1, <7>2 DEF FixupsInside
            <7>5. c + l <= b \/ b + h <= c
              <8>1. i < m \/ m < i
                BY <1>0, <6>2
              <8>2. i \in 1 .. Len(base) /\ m \in 1 .. Len(base)
                BY <2>0
              <8> QED BY <3>3, <5>6, <7>1, <7>2, <8>1, <8>2 DEF IInv, InSequence
            <7> QED BY <3>5, <5>8, <7>3, <7>4, <7>5
          <6> QED BY <6>1, <6>2
        <5>10. \A n \in 0 .. 2 : c + q + 1 + n \notin b + o + 1 .. b + o + 3
          BY <3>5, <5>8, <5>9
        <5>11. \A n \in 0 .. 2 : c + q + 1 + n \in DOMAIN output
          <6>1. PICK l : l = Len(mods[i].bin)
            OBVIOUS
          <6>2. l \in Nat /\ q + 4 <= l
            BY <1>0, <5>4, <5>7, <6>1, ModuleParts DEF FixupsInside
          <6>3. \A n \in 0 .. 2 : q + 1 + n \in 0 .. l - 1
            BY <5>8, <6>2
          <6>4. \A n \in 0 .. 2 : c + (q + 1 + n) \in DOMAIN output
            BY <2>0, <5>6, <6>1, <6>3, Inside DEF Filled
          <6>5. \A n \in 0 .. 2 : c + (q + 1 + n) = c + q + 1 + n
            BY <5>8
          <6> QED BY <6>4, <6>5
        <5>12. \A n \in 0 .. 2 : output'[c + q + 1 + n] = output[c + q + 1 + n]
          BY <3>6, <5>10, <5>11
        <5> QED BY <1>0, <2>0, <5>3, <5>4, <5>6, <5>7, <5>12 DEF Holds
      <4> QED BY <4>1, <4>2
    <3> QED BY <1>0, <2>0, <3>7 DEF PatchedSoFar
  <2> QED BY <1>4, <2>2, <2>3 DEF Patch
<1> QED BY <1>1, <1>2, <1>3, <1>4 DEF LinkNext

(* The modules follow each other from 0 with nothing between them.         *)
Packed ==
  /\ Len(base) > 0 => base[1] = 0 /\ addr = base[Len(base)] + Len(mods[Len(base)].bin)
  /\ Len(base) = 0 => addr = 0
  /\ \A i \in 1 .. Len(base) - 1 : base[i + 1] = base[i] + Len(mods[i].bin)

LEMMA PackedKeeps ==
  ASSUME NEW Symbol, IInv(Symbol), Packed, LinkNext
  PROVE  Packed'
<1>0. mods' = mods /\ mods \in Seq(Modules(Symbol)) /\ base \in Seq(Nat) /\ addr \in Nat
  BY StepKeeps DEF IInv, Typed
<1>1. CASE Place
  <2>1. /\ base' = Append(base, addr) /\ addr' = addr + Len(mods[m].bin) /\ Len(base) = m - 1
        /\ m \in Nat \ {0}
    BY <1>1 DEF Place, IInv, Typed, InSequence
  <2>2. Len(base') = m /\ base'[m] = addr /\ \A i \in 1 .. m - 1 : base'[i] = base[i]
    BY <1>0, <2>1
  <2>3. base'[1] = 0
    BY <1>0, <2>1, <2>2 DEF Packed
  <2>4. ASSUME NEW i \in 1 .. m - 1
        PROVE  base'[i + 1] = base'[i] + Len(mods[i].bin)
    <3>1. CASE i = m - 1
      BY <1>0, <2>1, <2>2, <3>1 DEF Packed
    <3>2. CASE i # m - 1
      <4>1. i \in 1 .. Len(base) - 1 /\ i + 1 \in 1 .. m - 1
        BY <2>1, <3>2
      <4> QED BY <2>2, <4>1 DEF Packed
    <3> QED BY <3>1, <3>2
  <2> QED BY <1>0, <2>1, <2>2, <2>3, <2>4 DEF Packed
<1>2. CASE ~Place
  <2>1. base' = base /\ addr' = addr
    BY <1>2 DEF LinkNext, PlaceAll, Define, Duplicate, Allocate, Copy, CopyAll, Patch,
                Unresolved, OutOfRange, Write, Fail
  <2> QED BY <1>0, <2>1 DEF Packed
<1> QED BY <1>1, <1>2

-----------------------------------------------------------------------------
(* All of it: what holds at every moment of a link of well-made modules.   *)
WellMade(list) == FixupsInside(list) /\ FixupsApart(list)

LinkInv(Symbol) ==
  /\ IInv(Symbol) /\ WellMade(mods)
  /\ Packed /\ NamesSoFar /\ CopiedSoFar /\ PatchedSoFar /\ RefusedRightly

LEMMA LinkInvStart ==
  ASSUME NEW Symbol, LinkInit
  PROVE  LinkInv(Symbol)
<1>1. mods = <<>> /\ pc = "idle" /\ base = <<>> /\ addr = 0 /\ DOMAIN symbols = {}
  BY DEF LinkInit
<1>2. WellMade(mods) /\ Packed /\ NamesSoFar /\ PatchedSoFar /\ RefusedRightly
  BY <1>1 DEF WellMade, FixupsInside, FixupsApart, Packed, NamesSoFar, PatchedSoFar,
              RefusedRightly, Placed
<1> QED BY <1>2, LinkStart DEF LinkInv

LEMMA LinkInvLoad ==
  ASSUME NEW Symbol, NEW given \in Seq(Modules(Symbol)), WellMade(given), LinkInv(Symbol),
         Load(given)
  PROVE  LinkInv(Symbol)'
<1>1. /\ pc = "idle" /\ pc' = "place" /\ mods' = given /\ base' = base /\ addr' = addr
      /\ symbols' = symbols
  BY DEF Load
<1>2. base = <<>> /\ IInv(Symbol)' /\ CopiedSoFar'
  BY <1>1, LoadKeeps DEF LinkInv, IInv, InSequence
<1>3. WellMade(mods)'
  BY <1>1 DEF WellMade, FixupsInside, FixupsApart
<1>4. Packed'
  BY <1>1, <1>2 DEF LinkInv, Packed
<1>5. NamesSoFar' /\ PatchedSoFar' /\ RefusedRightly'
  BY <1>1 DEF LinkInv, NamesSoFar, PatchedSoFar, RefusedRightly, Placed
<1> QED BY <1>2, <1>3, <1>4, <1>5 DEF LinkInv

LEMMA LinkInvStep ==
  ASSUME NEW Symbol, LinkInv(Symbol), LinkNext
  PROVE  LinkInv(Symbol)'
<1>1. IInv(Symbol) /\ FixupsInside(mods) /\ FixupsApart(mods) /\ Packed /\ NamesSoFar
      /\ CopiedSoFar /\ PatchedSoFar /\ RefusedRightly
  BY DEF LinkInv, WellMade
<1>2. IInv(Symbol)' /\ CopiedSoFar' /\ mods' = mods
  BY <1>1, StepKeeps
<1>3. Packed' /\ NamesSoFar' /\ PatchedSoFar' /\ RefusedRightly'
  BY <1>1, PackedKeeps, NamesKeep, PatchedKeeps, RefusedKeeps
<1>4. WellMade(mods)'
  BY <1>1, <1>2 DEF WellMade, FixupsInside, FixupsApart
<1> QED BY <1>2, <1>3, <1>4 DEF LinkInv

LEMMA LinkInvStutter ==
  ASSUME NEW Symbol, LinkInv(Symbol), UNCHANGED linkVars
  PROVE  LinkInv(Symbol)'
<1>1. /\ mods' = mods /\ pc' = pc /\ m' = m /\ k' = k /\ base' = base /\ addr' = addr
      /\ symbols' = symbols /\ output' = output
  BY DEF linkVars
<1>2. IInv(Symbol)' /\ CopiedSoFar'
  BY StutterKeeps DEF LinkInv
<1>3. WellMade(mods)' /\ Packed' /\ RefusedRightly'
  <2>1. WellMade(mods)'
    BY <1>1 DEF LinkInv, WellMade, FixupsInside, FixupsApart
  <2>2. Packed'
    BY <1>1 DEF LinkInv, Packed
  <2>3. (Twice(mods) => Twice(mods)') /\ (Missing(mods) => Missing(mods)')
    BY <1>1 DEF Twice, Missing
  <2> QED BY <1>1, <2>1, <2>2, <2>3 DEF LinkInv, RefusedRightly
<1>4. NamesSoFar'
  BY <1>1 DEF LinkInv, NamesSoFar, Passed
<1>5. PatchedSoFar'
  BY <1>1 DEF LinkInv, PatchedSoFar, PatchPassed, Holds
<1> QED BY <1>2, <1>3, <1>4, <1>5 DEF LinkInv

(* A link that ends well: the modules follow each other from 0, no symbol  *)
(* was exported twice, and every fixup holds the address of its symbol.    *)
LinkedWell ==
  pc = "done" =>
    /\ Packed /\ ~Twice(mods) /\ ~Missing(mods)
    /\ \A i \in 1 .. Len(mods) : \A j \in 1 .. Len(mods[i].fixups) :
         \E g \in 1 .. Len(mods) : \E h \in 1 .. Len(mods[g].exports) :
           /\ mods[g].exports[h].sym = mods[i].fixups[j].sym
           /\ \A n \in 0 .. 2 : output[base[i] + mods[i].fixups[j].at + 1 + n] =
                                Digit(base[g] + mods[g].exports[h].at, n)

LEMMA EndsWell ==
  ASSUME NEW Symbol, LinkInv(Symbol)
  PROVE  LinkedWell
<1> SUFFICES ASSUME pc = "done" PROVE LinkedWell
  BY DEF LinkedWell
<1>1. /\ \A s \in DOMAIN symbols :
           \E i \in 1 .. Len(mods) : \E j \in 1 .. Len(mods[i].exports) :
             mods[i].exports[j].sym = s
      /\ \A i, g \in 1 .. Len(mods) :
           \A j \in 1 .. Len(mods[i].exports) : \A h \in 1 .. Len(mods[g].exports) :
             mods[i].exports[j].sym = mods[g].exports[h].sym => i = g /\ j = h
  BY DEF LinkInv, NamesSoFar, Placed, Passed
<1>2. ~Twice(mods)
  BY <1>1 DEF Twice
<1>3. ASSUME NEW i \in 1 .. Len(mods), NEW j \in 1 .. Len(mods[i].fixups)
      PROVE  \E g \in 1 .. Len(mods) : \E h \in 1 .. Len(mods[g].exports) :
               /\ mods[g].exports[h].sym = mods[i].fixups[j].sym
               /\ \A n \in 0 .. 2 : output[base[i] + mods[i].fixups[j].at + 1 + n] =
                                    Digit(base[g] + mods[g].exports[h].at, n)
  <2>1. Holds(i, mods[i].fixups[j])
    BY DEF LinkInv, PatchedSoFar, PatchPassed
  <2>2. PICK g \in 1 .. Len(mods) : \E h \in 1 .. Len(mods[g].exports) :
          mods[g].exports[h].sym = mods[i].fixups[j].sym
    BY <1>1, <2>1 DEF Holds
  <2>3. PICK h \in 1 .. Len(mods[g].exports) : mods[g].exports[h].sym = mods[i].fixups[j].sym
    BY <2>2
  <2>4. symbols[mods[g].exports[h].sym] = base[g] + mods[g].exports[h].at
    BY DEF LinkInv, IInv, TableSoFar, Passed, Placed
  <2> QED BY <2>1, <2>3, <2>4 DEF Holds
<1>4. ~Missing(mods)
  BY <1>3 DEF Missing
<1> QED BY <1>2, <1>3, <1>4 DEF LinkedWell, LinkInv

(* Where the fixups of every module are instructions of its own, no two of *)
(* them sharing a byte: a link that ends well has resolved every fixup of  *)
(* every module to the one export of its name, and one that is refused was *)
(* given a symbol twice or not at all (main.rs:121, :158).                 *)
THEOREM LinkResolves ==
  ASSUME NEW Symbol, NEW givens \in SUBSET Seq(Modules(Symbol)),
         \A given \in givens : WellMade(given)
  PROVE  LinkSpec(givens) => [](LinkedWell /\ RefusedRightly)
<1>1. LinkInit => LinkInv(Symbol)
  BY LinkInvStart
<1>2. LinkInv(Symbol) /\ [LinkNext \/ \E given \in givens : Load(given)]_linkVars
        => LinkInv(Symbol)'
  BY LinkInvStep, LinkInvLoad, LinkInvStutter
<1>3. LinkInv(Symbol) => LinkedWell /\ RefusedRightly
  BY EndsWell DEF LinkInv
<1> QED BY <1>1, <1>2, <1>3, PTL DEF LinkSpec
=============================================================================
