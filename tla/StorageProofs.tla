----------------------------- MODULE StorageProofs ----------------------------
(***************************************************************************)
(* For every set of declarations, all limits and every program: the types  *)
(* of the layout's state; that the slots of a procedure are disjoint, clear *)
(* of the saved registers and inside the frame; that names resolve in their *)
(* scope; that the stores of ordinary declarations stay in what they store *)
(* to; and that every static variable has its data, once.                  *)
(***************************************************************************)
EXTENDS Storage, FiniteSetTheorems, WellFoundedInduction, TLAPS

-----------------------------------------------------------------------------
(* Widths and offsets *)

(* A set of natural numbers has a least element.                           *)
LEMMA NatLeast ==
  ASSUME NEW T, T \subseteq Nat, T # {}
  PROVE  \E m \in T : \A k \in T : m <= k
<1>1. PICK x \in T : \A y \in T : ~ (<<y, x>> \in OpToRel(<, Nat))
  BY NatLessThanWellFounded, WFMin, Zenon
<1>2. ASSUME NEW y \in T PROVE ~ (y < x)
  <2>1. y \in Nat /\ x \in Nat
    OBVIOUS
  <2>2. ~ (<<y, x>> \in OpToRel(<, Nat))
    BY <1>1, Zenon
  <2> QED BY <2>1, <2>2, Zenon DEF OpToRel
<1>3. \A y \in T : y \in Nat /\ x \in Nat /\ ~(y < x)
  BY <1>2, Zenon
<1>4. \A y \in T : x <= y
  BY <1>3, SMT
<1> QED BY <1>4, Zenon

(* at[k] is the sum of the first k of n widths.                            *)
Sums(at, w, n) == at = [k \in 0 .. n |-> IF k = 0 THEN 0 ELSE at[k - 1] + w[k]]

LEMMA SumsExist ==
  ASSUME NEW n \in Nat, NEW w
  PROVE  \E at : Sums(at, w, n)
<1> DEFINE Good(m) == \E at : Sums(at, w, m)
           Bad == {m \in Nat : ~Good(m)}
<1> SUFFICES ASSUME ~Good(n) PROVE FALSE
  OBVIOUS
<1>1. PICK m \in Bad : \A k \in Bad : m <= k
  <2>1. n \in Bad /\ Bad \subseteq Nat
    OBVIOUS
  <2> HIDE DEF Bad
  <2> QED BY <2>1, NatLeast
<1>2. m \in Nat /\ ~Good(m) /\ \A k \in Nat : k < m => Good(k)
  BY <1>1
<1> HIDE DEF Bad
<1>3. CASE m = 0
  <2> DEFINE at == [k \in 0 .. 0 |-> 0]
  <2>1. Sums(at, w, 0)
    BY DEF Sums
  <2> QED BY <1>2, <1>3, <2>1
<1>4. CASE m # 0
  <2>1. m - 1 \in Nat /\ m - 1 < m
    BY <1>2, <1>4
  <2>2. PICK f : Sums(f, w, m - 1)
    BY <1>2, <2>1
  <2> DEFINE at == [k \in 0 .. m |-> IF k = m THEN f[m - 1] + w[m] ELSE f[k]]
  <2>3. ASSUME NEW k \in 0 .. m PROVE at[k] = IF k = 0 THEN 0 ELSE at[k - 1] + w[k]
    <3>1. CASE k = m
      BY <1>2, <1>4, <3>1
    <3>2. CASE k # m
      <4>1. k \in 0 .. m - 1 /\ at[k] = f[k] /\ (k # 0 => k - 1 \in 0 .. m /\ at[k - 1] = f[k - 1])
        BY <1>2, <3>2
      <4>2. f[k] = IF k = 0 THEN 0 ELSE f[k - 1] + w[k]
        BY <2>2, <4>1 DEF Sums
      <4> QED BY <4>1, <4>2
    <3> QED BY <3>1, <3>2
  <2>4. Sums(at, w, m)
    BY <2>3 DEF Sums
  <2> QED BY <1>2, <2>4
<1> QED BY <1>3, <1>4

(* Sums of natural numbers only grow.                                      *)
LEMMA SumsGrow ==
  ASSUME NEW n \in Nat, NEW w, NEW at, Sums(at, w, n), \A k \in 1 .. n : w[k] \in Nat
  PROVE  /\ at[n] \in Nat
         /\ \A i \in 1 .. n : at[i - 1] \in Nat /\ at[i] = at[i - 1] + w[i] /\ at[i] <= at[n]
<1> DEFINE Good(m) == at[m] \in Nat /\ \A i \in 0 .. m : at[i] \in Nat /\ at[i] <= at[m]
           Bad == {m \in 0 .. n : ~Good(m)}
<1>1. at[0] = 0 /\ \A k \in 1 .. n : at[k] = at[k - 1] + w[k]
  BY DEF Sums
<1>2. Bad = {}
  <2> SUFFICES ASSUME Bad # {} PROVE FALSE
    OBVIOUS
  <2>1. PICK m \in Bad : \A k \in Bad : m <= k
    <3>1. Bad \subseteq Nat
      OBVIOUS
    <3> HIDE DEF Bad
    <3> QED BY <3>1, NatLeast
  <2>2. m \in 0 .. n /\ ~Good(m) /\ \A k \in 0 .. n : k < m => Good(k)
    BY <2>1
  <2> HIDE DEF Bad
  <2>3. CASE m = 0
    BY <1>1, <2>2, <2>3
  <2>4. CASE m # 0
    <3>1. m - 1 \in 0 .. n /\ m - 1 < m /\ m \in 1 .. n
      BY <2>2, <2>4
    <3>2. Good(m - 1)
      BY <2>2, <3>1
    <3>3. at[m] = at[m - 1] + w[m] /\ w[m] \in Nat
      BY <1>1, <3>1
    <3>4. ASSUME NEW i \in 0 .. m PROVE at[i] \in Nat /\ at[i] <= at[m]
      <4>1. CASE i = m
        BY <3>2, <3>3, <4>1
      <4>2. CASE i # m
        <5>1. i \in 0 .. m - 1
          BY <4>2, <3>1
        <5> QED BY <3>2, <3>3, <5>1
      <4> QED BY <4>1, <4>2
    <3> QED BY <2>2, <3>2, <3>3, <3>4
  <2> QED BY <2>3, <2>4
<1>3. Good(n)
  BY <1>2
<1> QED BY <1>1, <1>3

(* Every type but a record's takes bytes, and so does an array of it.      *)
LEMMA PlainWidths ==
  ASSUME NEW t \in Types, NEW dim \in Nat
  PROVE  /\ TypeWidth(t) \in Nat /\ PlainWidth(t, dim) \in Nat
         /\ t # "RECORD" => PlainWidth(t, dim) > 0
<1>1. TypeWidth(t) \in 0 .. 3 /\ (t # "RECORD" => TypeWidth(t) > 0)
  BY DEF TypeWidth, Types
<1> DEFINE w == TypeWidth(t)
<1> HIDE DEF w
<1>2. w \in {0, 1, 2, 3}
  BY <1>1 DEF w
<1>3. w * dim \in Nat /\ (w > 0 /\ dim > 0 => w * dim > 0)
  BY <1>2
<1> QED BY <1>1, <1>2, <1>3 DEF PlainWidth, w

LEMMA KeptFields ==
  ASSUME NEW d \in Decls
  PROVE  /\ Len(Kept(d)) \in Nat
         /\ \A k \in 1 .. Len(Kept(d)) : Kept(d)[k] \in Fields
<1>1. d.fields \in Seq(Fields) /\ FieldMax \in Nat
  BY StorageAssumption
<1> DEFINE m == IF Len(d.fields) < FieldMax THEN Len(d.fields) ELSE FieldMax
<1>2. m \in 0 .. Len(d.fields)
  BY <1>1
<1>3. Kept(d) = SubSeq(d.fields, 1, m)
  BY DEF Kept
<1> HIDE DEF m
<1>4. SubSeq(d.fields, 1, m) \in Seq(Fields)
  BY <1>1, <1>2
<1> QED BY <1>3, <1>4

FieldWidth(d, k) == PlainWidth(Kept(d)[k].ty, Kept(d)[k].dim)

(* The fields of a descriptor lie one after the other, and its width is    *)
(* the end of the last.                                                    *)
LEMMA FieldsInOrder ==
  ASSUME NEW d \in Decls
  PROVE  /\ FieldOffset(d)[Len(Kept(d))] \in Nat
         /\ \A k \in 1 .. Len(Kept(d)) :
              /\ FieldWidth(d, k) \in Nat \ {0} /\ FieldOffset(d)[k - 1] \in Nat
              /\ FieldOffset(d)[k - 1] + FieldWidth(d, k) <= FieldOffset(d)[Len(Kept(d))]
<1> DEFINE n == Len(Kept(d))
           w == [k \in 1 .. n |-> FieldWidth(d, k)]
<1>1. n \in Nat /\ \A k \in 1 .. n : FieldWidth(d, k) \in Nat \ {0}
  <2>1. ASSUME NEW k \in 1 .. n
        PROVE  Kept(d)[k].ty \in Types /\ Kept(d)[k].ty # "RECORD" /\ Kept(d)[k].dim \in Nat
    BY KeptFields DEF Fields
  <2>2. ASSUME NEW k \in 1 .. n PROVE FieldWidth(d, k) \in Nat \ {0}
    <3> DEFINE t == Kept(d)[k].ty
               dim == Kept(d)[k].dim
    <3>1. t \in Types /\ t # "RECORD" /\ dim \in Nat
      BY <2>1
    <3> HIDE DEF t, dim
    <3>2. PlainWidth(t, dim) \in Nat /\ PlainWidth(t, dim) > 0
      BY <3>1, PlainWidths
    <3>3. FieldWidth(d, k) = PlainWidth(t, dim)
      BY DEF FieldWidth, t, dim
    <3> QED BY <3>2, <3>3
  <2> QED BY <2>2, KeptFields
<1>2. FieldOffset(d) = CHOOSE at : at = [k \in 0 .. n |->
                         IF k = 0 THEN 0 ELSE at[k - 1] + PlainWidth(Kept(d)[k].ty, Kept(d)[k].dim)]
  BY DEF FieldOffset
<1>3. FieldOffset(d) = CHOOSE at : Sums(at, w, n)
  <2>1. ASSUME NEW at
        PROVE  [k \in 0 .. n |-> IF k = 0 THEN 0 ELSE at[k - 1] + w[k]]
                 = [k \in 0 .. n |-> IF k = 0 THEN 0
                                     ELSE at[k - 1] + PlainWidth(Kept(d)[k].ty, Kept(d)[k].dim)]
    <3>1. ASSUME NEW k \in 0 .. n, k # 0
          PROVE  w[k] = PlainWidth(Kept(d)[k].ty, Kept(d)[k].dim)
      BY <1>1, <3>1 DEF FieldWidth
    <3> HIDE DEF w, n
    <3> QED BY <3>1
  <2> HIDE DEF w, n
  <2> QED BY <1>2, <2>1 DEF Sums
<1>4. Sums(FieldOffset(d), w, n)
  <2> HIDE DEF w, n
  <2>1. \E at : Sums(at, w, n)
    BY <1>1, SumsExist
  <2> QED BY <1>3, <2>1
<1>5. \A k \in 1 .. n : w[k] = FieldWidth(d, k)
  OBVIOUS
<1>6. /\ FieldOffset(d)[n] \in Nat
      /\ \A i \in 1 .. n : /\ FieldOffset(d)[i - 1] \in Nat
                            /\ FieldOffset(d)[i] = FieldOffset(d)[i - 1] + w[i]
                            /\ FieldOffset(d)[i] <= FieldOffset(d)[n]
  <2> HIDE DEF w, n
  <2> QED BY <1>1, <1>4, <1>5, SumsGrow
<1> QED BY <1>1, <1>5, <1>6

-----------------------------------------------------------------------------
(* Types *)

LEMMA LabelTypes ==
  /\ Names \subseteq Labels
  /\ \A p, n \in Names : Mangle(p, n) \in Labels
BY DEF Labels, Mangle

LEMMA DeclTypes ==
  ASSUME NEW d \in Decls
  PROVE  /\ d.n \in Names /\ d.n \in Labels /\ d.ty \in Types /\ d.dim \in Nat /\ d.stor \in Classes
         /\ d.init \in BOOLEAN /\ WidthNow(d) \in Nat
<1>1. d.n \in Names /\ d.ty \in Types /\ d.dim \in Nat /\ d.stor \in Classes /\ d.init \in BOOLEAN
  BY StorageAssumption
<1>2. d.n \in Labels
  BY <1>1, LabelTypes
<1> QED BY <1>1, <1>2, PlainWidths, FieldsInOrder DEF WidthNow, Width

LEMMA ParamTypes ==
  ASSUME NEW p \in Params
  PROVE  p.n \in Names /\ p.n \in Labels /\ p.ty \in Types /\ TypeWidth(p.ty) \in Nat
BY StorageAssumption, LabelTypes DEF TypeWidth

LEMMA StorageLimits ==
  /\ ScopeMax \in Nat /\ TDescMax \in Nat /\ Procs \in Seq(Names)
BY StorageAssumption

(* A symbol made from a declaration is a symbol.                           *)
LEMMA SymbolTypes ==
  ASSUME LayoutTypes, NEW d \in Decls, NEW stor \in Classes, NEW off \in Int,
         NEW label \in Labels
  PROVE  Symbol(d, stor, off, label) \in Sym
<1>1. Descriptor(d) \in Nat
  BY DEF Descriptor, LayoutTypes
<1> QED BY <1>1, DeclTypes DEF Symbol, Sym

LEMMA EmptySequence ==
  ASSUME NEW S
  PROVE  <<>> \in Seq(S) /\ Len(<<>>) = 0
OBVIOUS

LEMMA PushedLast ==
  ASSUME NEW S, NEW s \in Seq(S), NEW x \in S
  PROVE  Append(s, x)[Len(s) + 1] = x
OBVIOUS

LEMMA PushedFirst ==
  ASSUME NEW S, NEW s \in Seq(S), NEW x \in S
  PROVE  \A i \in 1 .. Len(s) : Append(s, x)[i] = s[i]
OBVIOUS

LEMMA PushedSequence ==
  ASSUME NEW S, NEW s \in Seq(S), Len(s) = 1, NEW x \in S
  PROVE  /\ Append(s, x) \in Seq(S) /\ Len(Append(s, x)) = 2
         /\ Append(s, x)[1] = s[1] /\ Append(s, x)[2] = x
<1>1. Append(s, x) \in Seq(S) /\ Len(Append(s, x)) = 2
  BY SMTT(60)
<1>2. Append(s, x)[1] = s[1]
  BY PushedFirst
<1>3. Append(s, x)[Len(s) + 1] = x
  BY PushedLast
<1>4. Len(s) + 1 = 2
  OBVIOUS
<1> QED BY <1>1, <1>2, <1>3, <1>4

(* Replacing one sequence of a sequence of sequences.                      *)
LEMMA ExceptTypes ==
  ASSUME NEW S, NEW s \in Seq(Seq(S)), NEW k \in 1 .. Len(s), NEW x \in Seq(S)
  PROVE  LET t == [s EXCEPT ![k] = x] IN
           /\ t \in Seq(Seq(S)) /\ Len(t) = Len(s) /\ t[k] = x
           /\ \A d \in 1 .. Len(s) : d # k => t[d] = s[d]
<1>1. DOMAIN s = 1 .. Len(s) /\ Len(s) \in Nat
  OBVIOUS
<1>2. \A d \in 1 .. Len(s) : s[d] \in Seq(S)
  OBVIOUS
<1> QED BY <1>1, <1>2

(* Inserting appends the symbol to the innermost scope, which has room.    *)
LEMMA InsertTypes ==
  ASSUME ScopeTypes, Len(scopes) >= 1, NEW sym \in Sym, NEW n, Inserts(n), Insert(sym)
  PROVE  /\ ScopeTypes' /\ Len(scopes') = Len(scopes)
         /\ \A d \in 1 .. Len(scopes) : d # Len(scopes) => scopes'[d] = scopes[d]
         /\ scopes'[Len(scopes)] = Append(scopes[Len(scopes)], sym)
<1>1. Len(scopes) \in 1 .. Len(scopes) /\ scopes \in Seq(Seq(Sym))
  BY DEF ScopeTypes
<1>2. scopes[Len(scopes)] \in Seq(Sym) /\ Len(scopes[Len(scopes)]) < ScopeMax
  BY <1>1 DEF Current, Depth, Inserts
<1>3. scopes' = [scopes EXCEPT ![Len(scopes)] = Append(scopes[Len(scopes)], sym)]
  BY DEF Insert, Depth
<1>4. /\ Append(scopes[Len(scopes)], sym) \in Seq(Sym)
      /\ Len(Append(scopes[Len(scopes)], sym)) <= ScopeMax
  BY <1>2, StorageLimits
<1>5. /\ scopes' \in Seq(Seq(Sym)) /\ Len(scopes') = Len(scopes)
      /\ scopes'[Len(scopes)] = Append(scopes[Len(scopes)], sym)
      /\ \A d \in 1 .. Len(scopes) : d # Len(scopes) => scopes'[d] = scopes[d]
  BY <1>1, <1>3, <1>4, ExceptTypes
<1>6. \A d \in 1 .. Len(scopes) : Len(scopes'[d]) <= ScopeMax
  BY <1>4, <1>5 DEF ScopeTypes
<1> QED BY <1>5, <1>6 DEF ScopeTypes

LEMMA DescribeTypes ==
  ASSUME LayoutTypes, NEW d \in Decls, Describe(d)
  PROVE  descs' \in Seq(Decls) /\ Len(descs') <= TDescMax /\ lastTd' \in 0 .. Len(descs')
<1>1. CASE d.ty # "RECORD"
  BY <1>1 DEF Describe, LayoutTypes
<1>2. CASE d.ty = "RECORD" /\ HasRoom
  BY <1>2, StorageLimits DEF Describe, LayoutTypes, HasRoom
<1>3. CASE d.ty = "RECORD" /\ ~HasRoom
  BY <1>3 DEF Describe, LayoutTypes
<1> QED BY <1>1, <1>2, <1>3

LEMMA OutcomeTypes ==
  ASSUME WalkTypes, NEW n, NEW b, Outcome(n, b)
  PROVE  refused' \in BOOLEAN /\ lost' \in BOOLEAN
BY DEF Outcome, WalkTypes

LEMMA StorageInit == Init => TypeOK
<1> SUFFICES ASSUME Init PROVE TypeOK OBVIOUS
<1>1. <<<<>>>> \in Seq(Seq(Sym)) /\ Len(<<<<>>>>) = 1 /\ Len(<<<<>>>>[1]) = 0
  OBVIOUS
<1>2. ScopeTypes
  BY <1>1, StorageLimits DEF Init, ScopeTypes
<1>3. DepthOK
  BY <1>1 DEF Init, DepthOK, InProc
<1>4. LayoutTypes
  BY StorageLimits DEF Init, LayoutTypes
<1>5. WalkTypes
  <2>1. locals \in Seq(LocalDecl)
    BY EmptySequence DEF Init
  <2>2. phase = "globals" /\ proc = None /\ nprocs = 0 /\ refused = FALSE /\ lost = FALSE
    BY DEF Init
  <2>3. nprocs \in 0 .. Len(Procs)
    BY <2>2, StorageLimits
  <2>4. refused \in BOOLEAN /\ lost \in BOOLEAN
    BY <2>2
  <2> QED BY <2>1, <2>2, <2>3, <2>4 DEF WalkTypes, InProc
<1> QED BY <1>2, <1>3, <1>4, <1>5 DEF TypeOK

LEMMA GlobalTypes ==
  ASSUME TypeOK, NEW d \in Decls, LayoutGlobal(d)
  PROVE  TypeOK'
<1>0. WalkTypes /\ ScopeTypes /\ DepthOK /\ LayoutTypes
  BY DEF TypeOK
<1>1. phase = "globals" /\ UNCHANGED <<phase, proc, nprocs, locals, frame>>
  BY DEF LayoutGlobal
<1>2. Len(scopes) = 1
  BY <1>0, <1>1 DEF DepthOK, InProc
<1>3. /\ ScopeTypes' /\ Len(scopes') = Len(scopes) /\ staticNext' \in Nat
  <2>1. CASE Inserts(d.n)
    <3> DEFINE stor == IF d.stor = "AUTO" THEN "STATIC" ELSE d.stor
               sym == Symbol(d, stor, staticNext, d.n)
    <3>1. stor \in Classes /\ d.n \in Names /\ staticNext \in Int
      BY <1>0, DeclTypes DEF Classes, LayoutTypes
    <3>2. sym \in Sym
      BY <1>0, <3>1, DeclTypes, SymbolTypes
    <3>3. Insert(sym) /\ staticNext' = staticNext + WidthNow(d)
      BY <2>1 DEF LayoutGlobal
    <3> HIDE DEF sym
    <3>4. staticNext' \in Nat
      BY <1>0, <3>3, DeclTypes DEF LayoutTypes
    <3> QED BY <1>0, <1>2, <2>1, <3>2, <3>3, <3>4, InsertTypes
  <2>2. CASE ~Inserts(d.n)
    BY <1>0, <2>2 DEF LayoutGlobal, ScopeTypes, LayoutTypes
  <2> QED BY <2>1, <2>2
<1>4. LayoutTypes'
  BY <1>0, <1>1, <1>3, DescribeTypes DEF LayoutGlobal, LayoutTypes
<1>5. WalkTypes'
  BY <1>0, <1>1, OutcomeTypes DEF LayoutGlobal, WalkTypes, InProc
<1>6. DepthOK'
  BY <1>1, <1>2, <1>3 DEF DepthOK, InProc
<1> QED BY <1>3, <1>4, <1>5, <1>6 DEF TypeOK

(* A procedure opens an empty scope above the globals.                     *)
LEMMA EnterScopes ==
  ASSUME TypeOK, NEW bare, EnterProc(bare)
  PROVE  /\ ScopeTypes' /\ Len(scopes') = 2 /\ scopes'[1] = scopes[1] /\ scopes'[2] = <<>>
<1>1. ScopeTypes /\ Len(scopes) = 1
  BY DEF EnterProc, TypeOK, DepthOK, InProc
<1>2. <<>> \in Seq(Sym) /\ Len(<<>>) = 0
  BY EmptySequence
<1>3. scopes' = Append(scopes, <<>>)
  BY DEF EnterProc
<1>4. scopes' \in Seq(Seq(Sym)) /\ Len(scopes') = 2 /\ scopes'[1] = scopes[1] /\ scopes'[2] = <<>>
  <2>1. scopes \in Seq(Seq(Sym))
    BY <1>1 DEF ScopeTypes
  <2> QED BY <1>1, <1>2, <1>3, <2>1, PushedSequence
<1>5. \A d \in 1 .. 2 : Len(scopes'[d]) <= ScopeMax
  BY <1>1, <1>2, <1>4, StorageLimits DEF ScopeTypes
<1> QED BY <1>4, <1>5 DEF ScopeTypes

LEMMA EnterTypes ==
  ASSUME TypeOK, NEW bare, EnterProc(bare)
  PROVE  TypeOK'
<1>1. phase' = "params" /\ frame' = 0 /\ nprocs < Len(Procs)
      /\ proc' = Procs[nprocs + 1] /\ nprocs' = nprocs + 1
      /\ UNCHANGED <<locals, staticNext, descs, lastTd, refused, lost>>
  BY DEF EnterProc
<1>2. proc' \in Names /\ nprocs' \in 0 .. Len(Procs)
  BY <1>1, StorageLimits DEF TypeOK, WalkTypes
<1>3. WalkTypes'
  BY <1>1, <1>2 DEF WalkTypes, TypeOK, InProc
<1>4. LayoutTypes'
  BY <1>1 DEF LayoutTypes, TypeOK
<1>5. DepthOK'
  BY <1>1, EnterScopes DEF DepthOK, InProc
<1> QED BY <1>3, <1>4, <1>5, EnterScopes DEF TypeOK

LEMMA ParamKeepsTypes ==
  ASSUME TypeOK, NEW p \in Params, LayoutParam(p)
  PROVE  TypeOK'
<1>0. WalkTypes /\ ScopeTypes /\ DepthOK /\ LayoutTypes
  BY DEF TypeOK
<1>1. phase = "params" /\ UNCHANGED <<phase, proc, nprocs, layout>>
  BY DEF LayoutParam
<1>2. Len(scopes) = 2
  BY <1>0, <1>1 DEF DepthOK, InProc
<1>3. ScopeTypes' /\ Len(scopes') = Len(scopes)
  <2>1. CASE Inserts(p.n)
    <3> DEFINE sym == [n |-> p.n, ty |-> p.ty, dim |-> 0, w |-> TypeWidth(p.ty),
                       stor |-> "AUTO", off |-> ParamBase + Slot * Len(locals), td |-> 0,
                       label |-> p.n, param |-> TRUE]
    <3>1. ParamBase + Slot * Len(locals) \in Int
      BY <1>0 DEF ParamBase, Slot, WalkTypes
    <3>2. sym \in Sym
      BY <3>1, ParamTypes DEF Sym, Classes
    <3>3. Insert(sym)
      BY <2>1 DEF LayoutParam
    <3> HIDE DEF sym
    <3> QED BY <1>0, <1>2, <2>1, <3>2, <3>3, InsertTypes
  <2>2. CASE ~Inserts(p.n)
    BY <1>0, <2>2 DEF LayoutParam, ScopeTypes
  <2> QED BY <2>1, <2>2
<1>4. [n |-> p.n, stor |-> "AUTO", param |-> TRUE, init |-> FALSE] \in LocalDecl
  BY ParamTypes DEF LocalDecl, Classes
<1>5. locals' \in Seq(LocalDecl)
  BY <1>0, <1>4 DEF LayoutParam, WalkTypes
<1>6. WalkTypes'
  BY <1>0, <1>1, <1>5, OutcomeTypes DEF LayoutParam, WalkTypes, InProc
<1>7. LayoutTypes'
  BY <1>0, <1>1 DEF layout, LayoutTypes
<1>8. DepthOK'
  BY <1>1, <1>2, <1>3 DEF DepthOK, InProc
<1> QED BY <1>3, <1>6, <1>7, <1>8 DEF TypeOK

LEMMA LocalTypes ==
  ASSUME TypeOK, NEW d \in Decls, LayoutLocal(d)
  PROVE  TypeOK'
<1>0. WalkTypes /\ ScopeTypes /\ DepthOK /\ LayoutTypes
  BY DEF TypeOK
<1>1. phase' = "locals" /\ phase \in {"params", "locals"} /\ UNCHANGED <<proc, nprocs>>
  BY DEF LayoutLocal
<1>2. Len(scopes) = 2 /\ proc \in Names
  BY <1>0, <1>1 DEF DepthOK, WalkTypes, InProc
<1>3. ScopeTypes' /\ Len(scopes') = Len(scopes) /\ staticNext' \in Nat /\ frame' \in Nat
  <2>1. CASE ~Inserts(d.n)
    BY <1>0, <2>1 DEF LayoutLocal, ScopeTypes, LayoutTypes
  <2>2. CASE Inserts(d.n) /\ d.stor = "STATIC"
    <3> DEFINE sym == Symbol(d, "STATIC", staticNext, Mangle(proc, d.n))
    <3>1. Mangle(proc, d.n) \in Labels /\ staticNext \in Int /\ "STATIC" \in Classes
      BY LabelTypes, <1>0, <1>2, DeclTypes DEF LayoutTypes, Classes
    <3>2. sym \in Sym
      BY <1>0, <3>1, SymbolTypes
    <3>3. Insert(sym) /\ staticNext' = staticNext + WidthNow(d) /\ frame' = frame
      BY <2>2 DEF LayoutLocal
    <3> HIDE DEF sym
    <3>4. staticNext' \in Nat /\ frame' \in Nat
      BY <1>0, <3>3, DeclTypes DEF LayoutTypes
    <3> QED BY <1>0, <1>2, <2>2, <3>2, <3>3, <3>4, InsertTypes
  <2>3. CASE Inserts(d.n) /\ d.stor # "STATIC"
    <3> DEFINE sym == Symbol(d, d.stor, 0 - FrameAfter(WidthNow(d)), d.n)
    <3>1. 0 - FrameAfter(WidthNow(d)) \in Int
      BY <1>0, DeclTypes DEF FrameAfter, LayoutTypes
    <3>2. sym \in Sym
      BY <1>0, <3>1, DeclTypes, SymbolTypes
    <3>3. Insert(sym) /\ frame' = frame + WidthNow(d) /\ staticNext' = staticNext
      BY <2>3 DEF LayoutLocal
    <3> HIDE DEF sym
    <3>4. staticNext' \in Nat /\ frame' \in Nat
      BY <1>0, <3>3, DeclTypes DEF LayoutTypes
    <3> QED BY <1>0, <1>2, <2>3, <3>2, <3>3, <3>4, InsertTypes
  <2> QED BY <2>1, <2>2, <2>3
<1>4. LayoutTypes'
  BY <1>0, <1>3, DescribeTypes DEF LayoutLocal, LayoutTypes
<1>5. Local(d) \in LocalDecl
  BY DeclTypes DEF Local, LocalDecl
<1>6. locals' \in Seq(LocalDecl)
  BY <1>0, <1>5 DEF LayoutLocal, WalkTypes
<1>7. WalkTypes'
  BY <1>0, <1>1, <1>2, <1>6, OutcomeTypes DEF LayoutLocal, WalkTypes, InProc
<1>8. DepthOK'
  BY <1>1, <1>2, <1>3 DEF DepthOK, InProc
<1> QED BY <1>3, <1>4, <1>7, <1>8 DEF TypeOK

LEMMA LeaveTypes ==
  ASSUME TypeOK, LeaveProc
  PROVE  TypeOK'
<1>1. ScopeTypes /\ Len(scopes) = 2
  BY DEF LeaveProc, TypeOK, DepthOK, InProc
<1>2. scopes' = SubSeq(scopes, 1, 1)
  BY <1>1 DEF LeaveProc, ExitScope
<1>3. scopes' \in Seq(Seq(Sym)) /\ Len(scopes') = 1 /\ scopes'[1] = scopes[1]
  BY <1>1, <1>2 DEF ScopeTypes
<1>4. ScopeTypes'
  BY <1>1, <1>3 DEF ScopeTypes
<1>5. phase' = "between" /\ proc' = None /\ locals' = <<>>
      /\ UNCHANGED <<nprocs, layout, refused, lost>>
  BY DEF LeaveProc
<1>6. WalkTypes'
  BY <1>5 DEF TypeOK, WalkTypes, InProc
<1>7. LayoutTypes'
  BY <1>5 DEF TypeOK, LayoutTypes, layout
<1>8. DepthOK'
  BY <1>3, <1>5 DEF DepthOK, InProc
<1> QED BY <1>4, <1>6, <1>7, <1>8 DEF TypeOK

(* Steps that leave scopes, layout and the walk's typed parts alone.       *)
LEMMA PlainTypes ==
  ASSUME TypeOK, UNCHANGED <<scopes, layout, proc, nprocs, locals, refused, lost>>,
         phase' \in {"globals", "params", "locals", "body", "between", "done"},
         InProc' <=> InProc
  PROVE  TypeOK'
<1>1. WalkTypes'
  BY DEF TypeOK, WalkTypes
<1>2. ScopeTypes'
  BY DEF TypeOK, ScopeTypes
<1>3. DepthOK'
  BY DEF TypeOK, DepthOK
<1>4. LayoutTypes'
  BY DEF TypeOK, LayoutTypes, layout
<1> QED BY <1>1, <1>2, <1>3, <1>4 DEF TypeOK

LEMMA StorageStep ==
  ASSUME TypeOK, [Next]_vars
  PROVE  TypeOK'
<1>1. ASSUME NEW d \in Decls, LayoutGlobal(d) \/ LayoutLocal(d) PROVE TypeOK'
  BY <1>1, GlobalTypes, LocalTypes
<1>2. ASSUME NEW bare \in Bare, EnterProc(bare) PROVE TypeOK'
  BY <1>2, EnterTypes
<1>3. ASSUME NEW p \in Params, LayoutParam(p) PROVE TypeOK'
  BY <1>3, ParamKeepsTypes
<1>4. CASE StartBody
  BY <1>4, PlainTypes DEF StartBody, InProc
<1>5. CASE LeaveProc
  BY <1>5, LeaveTypes
<1>6. CASE EmitGlobals
  BY <1>6, PlainTypes DEF EmitGlobals, InProc
<1>7. CASE UNCHANGED vars
  <2>1. UNCHANGED <<scopes, layout, phase, proc, nprocs, locals, refused, lost>>
    BY <1>7 DEF vars, walk
  <2> QED BY <2>1, PlainTypes DEF InProc, TypeOK, WalkTypes
<1> QED BY <1>1, <1>2, <1>3, <1>4, <1>5, <1>6, <1>7 DEF Next, Finished

(* The layout's state keeps its types, two scopes are open inside a        *)
(* procedure and one outside, and no table outgrows its arrays.            *)
THEOREM StorageTypeOK == Spec => []TypeOK
<1>1. TypeOK /\ [Next]_vars => TypeOK'
  BY StorageStep
<1> QED BY <1>1, StorageInit, PTL DEF Spec

-----------------------------------------------------------------------------
(* The frame of a procedure *)

(* Owned slots of one scope, in order of declaration: parameters go up     *)
(* from the saved registers to top, locals go down to the frame's end f.   *)
SlotFits(sym, f, top) ==
  ~ByLabel(sym) =>
    IF sym.param THEN ParamBase <= sym.off /\ sym.off + Slot <= top
                 ELSE 0 - f <= sym.off /\ sym.off + sym.w <= 0
SlotBeyond(old, new) ==
  ~ByLabel(old) /\ ~ByLabel(new) =>
    /\ old.param /\ new.param => old.off + Slot <= new.off
    /\ ~old.param /\ ~new.param => new.off + new.w <= old.off
FrameOK(s, f, top) ==
  /\ \A i \in 1 .. Len(s) : SlotFits(s[i], f, top)
  /\ \A i, j \in 1 .. Len(s) : i < j => SlotBeyond(s[i], s[j])

Top == ParamBase + Slot * Len(locals)
FrameInv == InProc => FrameOK(scopes[2], frame, Top)

(* A longer frame, or more parameters, leave the slots where they fit.     *)
LEMMA FitsLonger ==
  ASSUME NEW sym \in Sym, NEW f \in Int, NEW g \in Int, NEW t \in Int, NEW u \in Int,
         f <= g, t <= u, SlotFits(sym, f, t)
  PROVE  SlotFits(sym, g, u)
<1>1. sym.off \in Int /\ sym.w \in Nat
  BY DEF Sym
<1> QED BY <1>1 DEF SlotFits, Slot, ParamBase

(* One more symbol beyond all the others.                                  *)
LEMMA FrameGrows ==
  ASSUME NEW s \in Seq(Sym), NEW sym \in Sym,
         NEW f \in Int, NEW g \in Int, NEW t \in Int, NEW u \in Int, f <= g, t <= u,
         FrameOK(s, f, t), SlotFits(sym, g, u),
         \A i \in 1 .. Len(s) : SlotBeyond(s[i], sym)
  PROVE  FrameOK(Append(s, sym), g, u)
<1> DEFINE r == Append(s, sym)
<1>1. /\ Len(r) = Len(s) + 1 /\ Len(s) \in Nat
      /\ \A i \in 1 .. Len(s) : r[i] = s[i] /\ s[i] \in Sym
      /\ r[Len(s) + 1] = sym
  <2>1. Len(r) = Len(s) + 1 /\ Len(s) \in Nat
    OBVIOUS
  <2>2. \A i \in 1 .. Len(s) : r[i] = s[i]
    BY PushedFirst
  <2>3. \A i \in 1 .. Len(s) : s[i] \in Sym
    OBVIOUS
  <2>4. r[Len(s) + 1] = sym
    BY PushedLast
  <2> QED BY <2>1, <2>2, <2>3, <2>4
<1> HIDE DEF r
<1>2. ASSUME NEW i \in 1 .. Len(r) PROVE SlotFits(r[i], g, u)
  <2>1. CASE i = Len(s) + 1
    BY <1>1, <2>1
  <2>2. CASE i # Len(s) + 1
    <3>1. i \in 1 .. Len(s) /\ s[i] \in Sym /\ r[i] = s[i]
      BY <1>1, <2>2
    <3>2. SlotFits(s[i], f, t)
      BY <3>1 DEF FrameOK
    <3> QED BY <3>1, <3>2, FitsLonger
  <2> QED BY <2>1, <2>2
<1>3. ASSUME NEW i \in 1 .. Len(r), NEW j \in 1 .. Len(r), i < j PROVE SlotBeyond(r[i], r[j])
  <2>1. i \in 1 .. Len(s) /\ r[i] = s[i]
    BY <1>1, <1>3
  <2>2. CASE j = Len(s) + 1
    BY <1>1, <2>1, <2>2
  <2>3. CASE j # Len(s) + 1
    <3>1. j \in 1 .. Len(s) /\ r[j] = s[j]
      BY <1>1, <2>3
    <3> QED BY <1>3, <2>1, <3>1 DEF FrameOK
  <2> QED BY <2>2, <2>3
<1>4. FrameOK(r, g, u)
  BY <1>2, <1>3 DEF FrameOK
<1> QED BY <1>4 DEF r

(* A parameter goes above the parameters before it.                        *)
LEMMA ParamKeepsFrame ==
  ASSUME TypeOK, FrameInv, NEW p \in Params, LayoutParam(p)
  PROVE  FrameInv'
<1>1. /\ phase = "params" /\ ScopeTypes /\ Len(scopes) = 2
      /\ scopes \in Seq(Seq(Sym)) /\ scopes[2] \in Seq(Sym)
  BY DEF LayoutParam, TypeOK, DepthOK, InProc, ScopeTypes
<1>2. Len(locals) \in Nat /\ Len(locals') = Len(locals) + 1 /\ frame' = frame /\ frame \in Int
  BY DEF LayoutParam, TypeOK, WalkTypes, LayoutTypes, layout
<1>3. Top \in Int /\ Top' = Top + Slot /\ Top >= ParamBase
  BY <1>2 DEF Top, ParamBase, Slot
<1>4. FrameOK(scopes[2], frame, Top)
  BY <1>1 DEF FrameInv, InProc
<1>5. FrameOK(scopes'[2], frame, Top')
  <2>1. CASE Inserts(p.n)
    <3> DEFINE sym == [n |-> p.n, ty |-> p.ty, dim |-> 0, w |-> TypeWidth(p.ty),
                       stor |-> "AUTO", off |-> ParamBase + Slot * Len(locals), td |-> 0,
                       label |-> p.n, param |-> TRUE]
    <3>1. ParamBase + Slot * Len(locals) \in Int
      BY <1>2 DEF ParamBase, Slot
    <3>2. sym \in Sym
      BY <3>1, ParamTypes DEF Sym, Classes
    <3>3. Insert(sym)
      BY <2>1 DEF LayoutParam
    <3>4. sym.off = Top /\ sym.param = TRUE
      BY DEF Top
    <3> HIDE DEF sym
    <3>5. scopes'[2] = Append(scopes[2], sym)
      BY <1>1, <2>1, <3>2, <3>3, InsertTypes
    <3>6. SlotFits(sym, frame, Top')
      BY <1>3, <3>4 DEF SlotFits, Slot
    <3>7. ASSUME NEW i \in 1 .. Len(scopes[2]) PROVE SlotBeyond(scopes[2][i], sym)
      BY <1>4, <3>4 DEF FrameOK, SlotFits, SlotBeyond
    <3>8. Top' \in Int /\ Top <= Top'
      BY <1>3 DEF Slot
    <3>9. FrameOK(Append(scopes[2], sym), frame, Top')
      BY <1>1, <1>2, <1>3, <1>4, <3>2, <3>6, <3>7, <3>8, FrameGrows
    <3> QED BY <3>5, <3>9
  <2>2. CASE ~Inserts(p.n)
    <3>1. scopes' = scopes
      BY <2>2 DEF LayoutParam
    <3>2. \A i \in 1 .. Len(scopes[2]) : scopes[2][i] \in Sym /\ SlotFits(scopes[2][i], frame, Top)
      BY <1>1, <1>4 DEF FrameOK
    <3>3. Top' \in Int /\ Top <= Top'
      BY <1>3 DEF Slot
    <3>4. \A i \in 1 .. Len(scopes[2]) : SlotFits(scopes[2][i], frame, Top')
      BY <1>2, <1>3, <3>2, <3>3, FitsLonger
    <3> QED BY <1>4, <3>1, <3>4 DEF FrameOK
  <2> QED BY <2>1, <2>2
<1> QED BY <1>2, <1>5 DEF FrameInv

(* A local goes below the locals before it, or to a label.                 *)
LEMMA LocalKeepsFrame ==
  ASSUME TypeOK, FrameInv, NEW d \in Decls, LayoutLocal(d)
  PROVE  FrameInv'
<1>1. /\ phase \in {"params", "locals"} /\ ScopeTypes /\ LayoutTypes /\ Len(scopes) = 2
      /\ scopes \in Seq(Seq(Sym)) /\ scopes[2] \in Seq(Sym) /\ proc \in Names
  BY DEF LayoutLocal, TypeOK, DepthOK, InProc, ScopeTypes, WalkTypes
<1>2. Len(locals) \in Nat /\ Len(locals') = Len(locals) + 1 /\ frame \in Nat
  BY DEF LayoutLocal, TypeOK, WalkTypes, LayoutTypes
<1>3. Top \in Int /\ Top' \in Int /\ Top <= Top'
  BY <1>2 DEF Top, ParamBase, Slot
<1>4. FrameOK(scopes[2], frame, Top)
  BY <1>1 DEF FrameInv, InProc
<1>5. FrameOK(scopes'[2], frame', Top')
  <2>1. CASE ~Inserts(d.n)
    <3>1. scopes' = scopes /\ frame' = frame
      BY <2>1 DEF LayoutLocal
    <3>2. \A i \in 1 .. Len(scopes[2]) : scopes[2][i] \in Sym /\ SlotFits(scopes[2][i], frame, Top)
      BY <1>1, <1>4 DEF FrameOK
    <3>3. \A i \in 1 .. Len(scopes[2]) : SlotFits(scopes[2][i], frame, Top')
      BY <1>2, <1>3, <3>2, FitsLonger
    <3> QED BY <1>4, <3>1, <3>3 DEF FrameOK
  <2>2. CASE Inserts(d.n) /\ d.stor = "STATIC"
    <3> DEFINE sym == Symbol(d, "STATIC", staticNext, Mangle(proc, d.n))
    <3>1. Mangle(proc, d.n) \in Labels /\ staticNext \in Int /\ "STATIC" \in Classes
      BY LabelTypes, <1>1, DeclTypes DEF LayoutTypes, Classes
    <3>2. sym \in Sym
      BY <1>1, <3>1, SymbolTypes
    <3>3. Insert(sym) /\ frame' = frame
      BY <2>2 DEF LayoutLocal
    <3>4. ByLabel(sym)
      BY DEF Symbol, ByLabel
    <3> HIDE DEF sym
    <3>5. scopes'[2] = Append(scopes[2], sym)
      BY <1>1, <2>2, <3>2, <3>3, InsertTypes
    <3>6. SlotFits(sym, frame, Top') /\ \A i \in 1 .. Len(scopes[2]) : SlotBeyond(scopes[2][i], sym)
      BY <3>4 DEF SlotFits, SlotBeyond
    <3>7. FrameOK(Append(scopes[2], sym), frame, Top')
      BY <1>1, <1>2, <1>3, <1>4, <3>2, <3>6, FrameGrows
    <3> QED BY <3>3, <3>5, <3>7
  <2>3. CASE Inserts(d.n) /\ d.stor # "STATIC"
    <3> DEFINE sym == Symbol(d, d.stor, 0 - FrameAfter(WidthNow(d)), d.n)
    <3>1. 0 - FrameAfter(WidthNow(d)) \in Int /\ WidthNow(d) \in Nat
      BY <1>1, DeclTypes DEF FrameAfter, LayoutTypes
    <3>2. sym \in Sym
      BY <1>1, <3>1, DeclTypes, SymbolTypes
    <3>3. Insert(sym) /\ frame' = frame + WidthNow(d)
      BY <2>3 DEF LayoutLocal
    <3>4. sym.off = 0 - (frame + WidthNow(d)) /\ sym.w = WidthNow(d) /\ sym.param = FALSE
      BY DEF Symbol, FrameAfter
    <3> HIDE DEF sym
    <3>5. scopes'[2] = Append(scopes[2], sym)
      BY <1>1, <2>3, <3>2, <3>3, InsertTypes
    <3>6. frame' \in Int /\ frame <= frame' /\ sym.off = 0 - frame' /\ sym.off + sym.w = 0 - frame
      BY <1>2, <3>1, <3>3, <3>4
    <3>7. SlotFits(sym, frame', Top')
      BY <1>2, <3>4, <3>6 DEF SlotFits
    <3>8. ASSUME NEW i \in 1 .. Len(scopes[2]) PROVE SlotBeyond(scopes[2][i], sym)
      BY <1>4, <3>4, <3>6 DEF FrameOK, SlotFits, SlotBeyond
    <3>9. FrameOK(Append(scopes[2], sym), frame', Top')
      <4>1. /\ frame \in Int /\ frame' \in Int /\ frame <= frame' /\ scopes[2] \in Seq(Sym)
            /\ Top \in Int /\ Top' \in Int /\ Top <= Top'
        BY <1>1, <1>2, <1>3, <3>6
      <4>2. \A i \in 1 .. Len(scopes[2]) : SlotBeyond(scopes[2][i], sym)
        BY <3>8
      <4> QED BY <1>4, <3>2, <3>7, <4>1, <4>2, FrameGrows
    <3> QED BY <3>5, <3>9
  <2> QED BY <2>1, <2>2, <2>3
<1> QED BY <1>5 DEF FrameInv

LEMMA FrameStep ==
  ASSUME TypeOK, FrameInv, [Next]_vars
  PROVE  FrameInv'
<1>1. ASSUME NEW d \in Decls, LayoutGlobal(d) PROVE FrameInv'
  BY <1>1 DEF LayoutGlobal, FrameInv, InProc
<1>2. ASSUME NEW d \in Decls, LayoutLocal(d) PROVE FrameInv'
  BY <1>2, LocalKeepsFrame
<1>3. ASSUME NEW bare \in Bare, EnterProc(bare) PROVE FrameInv'
  <2>1. scopes'[2] = <<>> /\ Len(scopes'[2]) = 0
    BY <1>3, EnterScopes
  <2> QED BY <2>1 DEF FrameInv, FrameOK
<1>4. ASSUME NEW p \in Params, LayoutParam(p) PROVE FrameInv'
  BY <1>4, ParamKeepsFrame
<1>5. CASE StartBody
  BY <1>5 DEF StartBody, FrameInv, InProc, Top, layout
<1>6. CASE LeaveProc
  BY <1>6 DEF LeaveProc, FrameInv, InProc
<1>7. CASE EmitGlobals
  BY <1>7 DEF EmitGlobals, FrameInv, InProc
<1>8. CASE UNCHANGED vars
  BY <1>8 DEF vars, walk, layout, FrameInv, InProc, Top
<1> QED BY <1>1, <1>2, <1>3, <1>4, <1>5, <1>6, <1>7, <1>8 DEF Next, Finished

(* The bytes of a frame slot.                                              *)
LEMMA OwnedSlot ==
  ASSUME NEW sym \in Sym, ~ByLabel(sym)
  PROVE  /\ Owned(sym).lo = sym.off /\ sym.off \in Int /\ sym.w \in Nat
         /\ Owned(sym).hi = sym.off + (IF sym.param THEN Slot ELSE sym.w)
<1>1. sym.off \in Int /\ sym.w \in Nat
  BY DEF Sym
<1> QED BY <1>1 DEF Owned, Extent, Base, Slot

LEMMA FrameDisjoint == TypeOK /\ FrameInv => SlotsDisjoint
<1> SUFFICES ASSUME TypeOK, FrameInv, Depth = 2 PROVE SlotsDisjoint
  BY DEF SlotsDisjoint
<1> DEFINE s == scopes[2]
<1>1. InProc /\ s \in Seq(Sym) /\ frame \in Nat /\ Top \in Int
  <2>1. InProc
    BY DEF TypeOK, DepthOK, Depth
  <2>2. scopes \in Seq(Seq(Sym)) /\ Len(scopes) = 2
    BY DEF TypeOK, ScopeTypes, Depth
  <2>3. frame \in Nat /\ Len(locals) \in Nat
    BY DEF TypeOK, LayoutTypes, WalkTypes
  <2> QED BY <2>1, <2>2, <2>3 DEF Top, ParamBase, Slot
<1>2. FrameOK(s, frame, Top)
  BY <1>1 DEF FrameInv
<1> HIDE DEF s
<1>3. \A i \in 1 .. Len(s) : s[i] \in Sym /\ SlotFits(s[i], frame, Top)
  BY <1>1, <1>2 DEF FrameOK
<1>4. ASSUME NEW i \in 1 .. Len(s), NEW j \in 1 .. Len(s), i < j,
             ~ByLabel(s[i]), ~ByLabel(s[j])
      PROVE  ~Overlap(Owned(s[i]), Owned(s[j])) /\ ~Overlap(Owned(s[j]), Owned(s[i]))
  <2>1. s[i] \in Sym /\ s[j] \in Sym /\ SlotFits(s[i], frame, Top) /\ SlotFits(s[j], frame, Top)
    BY <1>3
  <2>2. SlotBeyond(s[i], s[j])
    BY <1>2, <1>4 DEF FrameOK
  <2>3. /\ Owned(s[i]).lo = s[i].off /\ s[i].off \in Int /\ s[i].w \in Nat
        /\ Owned(s[i]).hi = s[i].off + (IF s[i].param THEN Slot ELSE s[i].w)
        /\ Owned(s[j]).lo = s[j].off /\ s[j].off \in Int /\ s[j].w \in Nat
        /\ Owned(s[j]).hi = s[j].off + (IF s[j].param THEN Slot ELSE s[j].w)
    BY <1>4, <2>1, OwnedSlot
  <2>4. Owned(s[i]).hi <= Owned(s[j]).lo \/ Owned(s[j]).hi <= Owned(s[i]).lo
    BY <1>4, <2>1, <2>2, <2>3 DEF SlotFits, SlotBeyond, Slot, ParamBase
  <2>5. /\ Owned(s[i]).lo \in Int /\ Owned(s[i]).hi \in Int
        /\ Owned(s[j]).lo \in Int /\ Owned(s[j]).hi \in Int
    BY <2>3 DEF Slot
  <2> QED BY <2>4, <2>5 DEF Overlap
<1>5. ASSUME NEW i \in 1 .. Len(s), ~ByLabel(s[i])
      PROVE  ~Overlap(Owned(s[i]), SavedRegs) /\ Owned(s[i]).lo >= 0 - frame
  <2>1. /\ Owned(s[i]).lo = s[i].off /\ s[i].off \in Int /\ s[i].w \in Nat
        /\ Owned(s[i]).hi = s[i].off + (IF s[i].param THEN Slot ELSE s[i].w)
    BY <1>3, <1>5, OwnedSlot
  <2>2. SlotFits(s[i], frame, Top)
    BY <1>3
  <2>3. SavedRegs.lo = 0 /\ SavedRegs.hi = 9
    BY DEF SavedRegs, ParamBase
  <2>4. (Owned(s[i]).hi <= 0 \/ 9 <= Owned(s[i]).lo) /\ Owned(s[i]).lo >= 0 - frame
    BY <1>1, <1>5, <2>1, <2>2 DEF SlotFits, ParamBase, Slot
  <2> QED BY <2>1, <2>3, <2>4 DEF Overlap, Slot
<1>6. \A i, j \in 1 .. Len(s) :
        i # j /\ ~ByLabel(s[i]) /\ ~ByLabel(s[j]) => ~Overlap(Owned(s[i]), Owned(s[j]))
  <2> TAKE i, j \in 1 .. Len(s)
  <2>1. i = j \/ i < j \/ j < i
    BY <1>1
  <2> QED BY <1>4, <2>1
<1> QED BY <1>5, <1>6 DEF SlotsDisjoint, s

(* The slots of a procedure never overlap each other or the saved          *)
(* registers, and stay inside the frame that its prologue reserves.        *)
THEOREM StorageSlotsDisjoint == Spec => []SlotsDisjoint
<1>1. Init => TypeOK /\ FrameInv
  BY StorageInit DEF Init, FrameInv, InProc
<1>2. (TypeOK /\ FrameInv) /\ [Next]_vars => (TypeOK /\ FrameInv)'
  BY StorageStep, FrameStep
<1> QED BY <1>1, <1>2, FrameDisjoint, PTL DEF Spec

-----------------------------------------------------------------------------
(* Names *)

Has(s, n) == \E i \in 1 .. Len(s) : s[i].n = n

(* While no symbol was lost, a scope has the names that were declared in   *)
(* it, those declared twice included, and no others.                       *)
NameInv ==
  /\ globals \in Seq(Decls) /\ (~InProc => locals = <<>>)
  /\ ~lost => /\ \A n : Has(scopes[1], n) <=> Has(globals, n)
              /\ InProc => \A n : Has(scopes[2], n) <=> Has(locals, n)

LEMMA HasAppended ==
  ASSUME NEW S, NEW s \in Seq(S), NEW x \in S, NEW n
  PROVE  Has(Append(s, x), n) <=> Has(s, n) \/ x.n = n
<1>1. Len(Append(s, x)) = Len(s) + 1 /\ Len(s) \in Nat
  OBVIOUS
<1>2. \A i \in 1 .. Len(s) : Append(s, x)[i] = s[i]
  BY PushedFirst
<1>3. Append(s, x)[Len(s) + 1] = x
  BY PushedLast
<1> QED BY <1>1, <1>2, <1>3 DEF Has

LEMMA HasNone ==
  ASSUME NEW n
  PROVE  ~Has(<<>>, n)
BY DEF Has

LEMMA InScopeHas ==
  ASSUME NEW s, NEW n
  PROVE  InScope(s, n) # {} <=> Has(s, n)
BY DEF InScope, Has

(* A declaration whose symbol is kept or a duplicate: its scope has its    *)
(* name and those it had.                                                  *)
LEMMA DeclaredName ==
  ASSUME ScopeTypes, NEW k, k = Len(scopes), k >= 1, NEW sym \in Sym, NEW m, sym.n = m,
         Len(Current) < ScopeMax, IF Inserts(m) THEN Insert(sym) ELSE UNCHANGED scopes
  PROVE  /\ \A d \in 1 .. k : d # k => scopes'[d] = scopes[d]
         /\ \A n : Has(scopes'[k], n) <=> Has(scopes[k], n) \/ m = n
<1>1. scopes[k] \in Seq(Sym)
  BY DEF ScopeTypes
<1>2. CASE Inserts(m)
  <2>1. /\ \A d \in 1 .. k : d # k => scopes'[d] = scopes[d]
        /\ scopes'[k] = Append(scopes[k], sym)
    BY <1>2, InsertTypes
  <2> QED BY <1>1, <2>1, HasAppended
<1>3. CASE ~Inserts(m)
  <2>1. InScope(Current, m) # {}
    BY <1>3 DEF Inserts
  <2>2. Has(scopes[k], m)
    BY <2>1, InScopeHas DEF Current, Depth
  <2> QED BY <1>3, <2>2 DEF Has
<1> QED BY <1>2, <1>3

(* No symbol is lost now: none was before, and the scope has room.         *)
LEMMA KeptOutcome ==
  ASSUME TypeOK, NEW n, NEW b, Outcome(n, b), ~lost'
  PROVE  ~lost /\ Len(Current) < ScopeMax
<1>1. Len(Current) \in Nat /\ ScopeMax \in Nat
  BY StorageLimits DEF TypeOK, ScopeTypes, DepthOK, Current, Depth
<1>2. lost' = (lost \/ Len(Current) >= ScopeMax \/ ~b)
  BY DEF Outcome
<1>3. ~(lost \/ Len(Current) >= ScopeMax \/ ~b)
  BY <1>2, Zenon
<1> QED BY <1>1, <1>3

LEMMA GlobalNames ==
  ASSUME TypeOK, NameInv, NEW d \in Decls, LayoutGlobal(d)
  PROVE  NameInv'
<1>1. /\ phase = "globals" /\ ~InProc' /\ globals' = Append(globals, d) /\ globals \in Seq(Decls)
      /\ ScopeTypes /\ LayoutTypes /\ Len(scopes) = 1
  BY DEF LayoutGlobal, InProc, TypeOK, DepthOK, NameInv
<1>0. locals' = <<>>
  BY <1>1 DEF LayoutGlobal, InProc, NameInv
<1>2. globals' \in Seq(Decls) /\ \A n : Has(globals', n) <=> Has(globals, n) \/ d.n = n
  BY <1>1, HasAppended
<1>3. ASSUME ~lost' PROVE \A n : Has(scopes'[1], n) <=> Has(globals', n)
  <2> DEFINE stor == IF d.stor = "AUTO" THEN "STATIC" ELSE d.stor
             sym == Symbol(d, stor, staticNext, d.n)
  <2>1. stor \in Classes /\ d.n \in Names /\ staticNext \in Int
    BY <1>1, DeclTypes DEF Classes, LayoutTypes
  <2>2. sym \in Sym /\ sym.n = d.n
    BY <1>1, <2>1, DeclTypes, SymbolTypes DEF Symbol
  <2>3. IF Inserts(d.n) THEN Insert(sym) ELSE UNCHANGED scopes
    BY DEF LayoutGlobal
  <2>4. ~lost /\ Len(Current) < ScopeMax
    BY <1>3, KeptOutcome DEF LayoutGlobal
  <2> HIDE DEF sym
  <2>5. \A n : Has(scopes'[1], n) <=> Has(scopes[1], n) \/ d.n = n
    BY <1>1, <2>2, <2>3, <2>4, DeclaredName
  <2> QED BY <1>2, <2>4, <2>5 DEF NameInv
<1> QED BY <1>0, <1>1, <1>2, <1>3 DEF NameInv

LEMMA ParamNames ==
  ASSUME TypeOK, NameInv, NEW p \in Params, LayoutParam(p)
  PROVE  NameInv'
<1> DEFINE decl == [n |-> p.n, stor |-> "AUTO", param |-> TRUE, init |-> FALSE]
<1>1. /\ InProc /\ InProc' /\ globals' = globals /\ locals' = Append(locals, decl)
      /\ ScopeTypes /\ Len(scopes) = 2 /\ locals \in Seq(LocalDecl)
  BY DEF LayoutParam, InProc, TypeOK, DepthOK, WalkTypes
<1>2. \A n : Has(locals', n) <=> Has(locals, n) \/ p.n = n
  <2>1. decl \in LocalDecl /\ decl.n = p.n
    BY ParamTypes DEF LocalDecl, Classes
  <2> HIDE DEF decl
  <2> QED BY <1>1, <2>1, HasAppended
<1>3. ASSUME ~lost'
      PROVE  /\ ~lost /\ scopes'[1] = scopes[1]
             /\ \A n : Has(scopes'[2], n) <=> Has(scopes[2], n) \/ p.n = n
  <2> DEFINE sym == [n |-> p.n, ty |-> p.ty, dim |-> 0, w |-> TypeWidth(p.ty),
                     stor |-> "AUTO", off |-> ParamBase + Slot * Len(locals), td |-> 0,
                     label |-> p.n, param |-> TRUE]
  <2>1. ParamBase + Slot * Len(locals) \in Int
    BY <1>1 DEF ParamBase, Slot
  <2>2. sym \in Sym /\ sym.n = p.n
    BY <2>1, ParamTypes DEF Sym, Classes
  <2>3. IF Inserts(p.n) THEN Insert(sym) ELSE UNCHANGED scopes
    BY DEF LayoutParam
  <2>4. ~lost /\ Len(Current) < ScopeMax
    BY <1>3, KeptOutcome DEF LayoutParam
  <2> HIDE DEF sym
  <2>5. /\ \A k \in 1 .. 2 : k # 2 => scopes'[k] = scopes[k]
        /\ \A n : Has(scopes'[2], n) <=> Has(scopes[2], n) \/ p.n = n
    BY <1>1, <2>2, <2>3, <2>4, DeclaredName
  <2> QED BY <2>4, <2>5
<1>4. ~lost' => \A n : Has(scopes'[2], n) <=> Has(locals', n)
  BY <1>1, <1>2, <1>3 DEF NameInv
<1> QED BY <1>1, <1>3, <1>4 DEF NameInv

LEMMA LocalNames ==
  ASSUME TypeOK, NameInv, NEW d \in Decls, LayoutLocal(d)
  PROVE  NameInv'
<1>1. /\ InProc /\ InProc' /\ globals' = globals /\ locals' = Append(locals, Local(d))
      /\ ScopeTypes /\ LayoutTypes /\ Len(scopes) = 2 /\ locals \in Seq(LocalDecl) /\ proc \in Names
  BY DEF LayoutLocal, InProc, TypeOK, DepthOK, WalkTypes
<1>2. \A n : Has(locals', n) <=> Has(locals, n) \/ d.n = n
  <2>1. Local(d) \in LocalDecl /\ Local(d).n = d.n
    BY DeclTypes DEF Local, LocalDecl
  <2> QED BY <1>1, <2>1, HasAppended
<1>3. PICK sym \in Sym : sym.n = d.n /\ IF Inserts(d.n) THEN Insert(sym) ELSE UNCHANGED scopes
  <2>1. CASE d.stor = "STATIC"
    <3> DEFINE sym == Symbol(d, "STATIC", staticNext, Mangle(proc, d.n))
    <3>1. Mangle(proc, d.n) \in Labels /\ staticNext \in Int /\ "STATIC" \in Classes
      BY LabelTypes, <1>1, DeclTypes DEF LayoutTypes, Classes
    <3>2. sym \in Sym /\ sym.n = d.n
      BY <1>1, <3>1, SymbolTypes DEF Symbol
    <3>3. IF Inserts(d.n) THEN Insert(sym) ELSE UNCHANGED scopes
      BY <2>1 DEF LayoutLocal
    <3> QED BY <3>2, <3>3
  <2>2. CASE d.stor # "STATIC"
    <3> DEFINE sym == Symbol(d, d.stor, 0 - FrameAfter(WidthNow(d)), d.n)
    <3>1. 0 - FrameAfter(WidthNow(d)) \in Int
      BY <1>1, DeclTypes DEF FrameAfter, LayoutTypes
    <3>2. sym \in Sym /\ sym.n = d.n
      BY <1>1, <3>1, DeclTypes, SymbolTypes DEF Symbol
    <3>3. IF Inserts(d.n) THEN Insert(sym) ELSE UNCHANGED scopes
      BY <2>2 DEF LayoutLocal
    <3> QED BY <3>2, <3>3
  <2> QED BY <2>1, <2>2
<1>5. ASSUME ~lost'
      PROVE  /\ ~lost /\ scopes'[1] = scopes[1]
             /\ \A n : Has(scopes'[2], n) <=> Has(scopes[2], n) \/ d.n = n
  <2>1. ~lost /\ Len(Current) < ScopeMax
    BY <1>5, KeptOutcome DEF LayoutLocal
  <2>2. /\ \A k \in 1 .. 2 : k # 2 => scopes'[k] = scopes[k]
        /\ \A n : Has(scopes'[2], n) <=> Has(scopes[2], n) \/ d.n = n
    BY <1>1, <1>3, <2>1, DeclaredName
  <2> QED BY <2>1, <2>2
<1>6. ~lost' => \A n : Has(scopes'[2], n) <=> Has(locals', n)
  BY <1>1, <1>2, <1>5 DEF NameInv
<1> QED BY <1>1, <1>5, <1>6 DEF NameInv

LEMMA NameStep ==
  ASSUME TypeOK, NameInv, [Next]_vars
  PROVE  NameInv'
<1>1. ASSUME NEW bare \in Bare, EnterProc(bare) PROVE NameInv'
  <2>1. scopes'[1] = scopes[1] /\ scopes'[2] = <<>>
    BY <1>1, EnterScopes
  <2>2. globals' = globals /\ lost' = lost /\ locals' = locals /\ ~InProc /\ InProc'
    BY <1>1 DEF EnterProc, InProc
  <2>3. locals' = <<>>
    BY <2>2 DEF NameInv
  <2> QED BY <2>1, <2>2, <2>3, HasNone DEF NameInv
<1>2. CASE LeaveProc
  <2>1. Len(scopes) = 2 /\ scopes \in Seq(Seq(Sym))
    BY <1>2 DEF LeaveProc, TypeOK, ScopeTypes, DepthOK, InProc
  <2>2. scopes'[1] = scopes[1] /\ globals' = globals /\ lost' = lost /\ ~InProc' /\ locals' = <<>>
    BY <1>2, <2>1 DEF LeaveProc, ExitScope, InProc
  <2> QED BY <2>2 DEF NameInv
<1>3. CASE UNCHANGED <<scopes, globals, locals, lost>> /\ (InProc' <=> InProc)
  BY ZenonT(60), <1>3 DEF NameInv, Has
<1>4. CASE StartBody \/ EmitGlobals \/ UNCHANGED vars
  BY <1>3, <1>4 DEF StartBody, EmitGlobals, InProc, vars, walk
<1> QED BY <1>1, <1>2, <1>4, GlobalNames, ParamNames, LocalNames DEF Next, Finished

(* sym_lookup finds a symbol of the innermost scope that has the name.     *)
LEMMA LookupInnermost ==
  ASSUME Len(scopes) = 2, NEW n, NEW k \in {1, 2}, Has(scopes[k], n),
         k = 1 => ~Has(scopes[2], n)
  PROVE  /\ Resolves(n)
         /\ \E i \in 1 .. Len(scopes[k]) : scopes[k][i].n = n /\ Lookup(n) = scopes[k][i]
<1>1. Holding(n) \subseteq {1, 2} /\ \A d \in {1, 2} : d \in Holding(n) <=> Has(scopes[d], n)
  <2>1. 1 .. Len(scopes) = {1, 2}
    OBVIOUS
  <2> QED BY <2>1, InScopeHas DEF Holding, Depth
<1>2. k \in Holding(n) /\ \A e \in Holding(n) : e <= k
  BY <1>1
<1> DEFINE top == CHOOSE d \in Holding(n) : \A e \in Holding(n) : e <= d
<1>3. top \in Holding(n) /\ \A e \in Holding(n) : e <= top
  BY <1>2
<1> HIDE DEF top
<1>4. top = k
  <2>1. top \in {1, 2} /\ k <= top /\ top <= k
    BY <1>1, <1>2, <1>3
  <2> QED BY <2>1
<1> DEFINE j == CHOOSE i \in InScope(scopes[top], n) : TRUE
<1>5. j \in InScope(scopes[top], n)
  BY <1>4, InScopeHas
<1>6. Lookup(n) = scopes[top][j]
  BY DEF Lookup, top
<1> HIDE DEF j
<1>7. j \in 1 .. Len(scopes[k]) /\ scopes[k][j].n = n
  BY <1>4, <1>5 DEF InScope
<1> QED BY <1>2, <1>4, <1>6, <1>7 DEF Resolves

LEMMA NamesResolve == TypeOK /\ NameInv => NamesResolveInScope
<1> SUFFICES ASSUME TypeOK, NameInv, phase = "body", ~lost, NEW n \in Names
             PROVE  LET own   == \E k \in 1 .. Len(locals) : locals[k].n = n
                        atTop == \E k \in 1 .. Len(globals) : globals[k].n = n
                    IN  /\ Resolves(n) <=> own \/ atTop
                        /\ Resolves(n) =>
                             \E i \in DOMAIN scopes[IF own THEN 2 ELSE 1] :
                               Lookup(n) = scopes[IF own THEN 2 ELSE 1][i]
  BY DEF NamesResolveInScope
<1>1. Len(scopes) = 2 /\ InProc
  BY DEF TypeOK, DepthOK, InProc
<1>2. /\ DOMAIN scopes[1] = 1 .. Len(scopes[1])
      /\ DOMAIN scopes[2] = 1 .. Len(scopes[2])
  <2>1. \A k \in 1 .. Len(scopes) : scopes[k] \in Seq(Sym)
    BY DEF TypeOK, ScopeTypes
  <2>2. 1 \in 1 .. Len(scopes) /\ 2 \in 1 .. Len(scopes)
    BY <1>1
  <2>3. scopes[1] \in Seq(Sym) /\ scopes[2] \in Seq(Sym)
    BY <2>1, <2>2
  <2> QED BY <2>3
<1>3. (Has(scopes[1], n) <=> Has(globals, n)) /\ (Has(scopes[2], n) <=> Has(locals, n))
  BY <1>1 DEF NameInv
<1>4. Resolves(n) <=> Has(locals, n) \/ Has(globals, n)
  <2>1. 1 .. Len(scopes) = {1, 2}
    BY <1>1
  <2> QED BY <2>1, <1>3, InScopeHas DEF Resolves, Holding, Depth
<1>5. CASE Has(locals, n)
  <2>1. \E i \in DOMAIN scopes[2] : Lookup(n) = scopes[2][i]
    BY <1>1, <1>2, <1>3, <1>5, LookupInnermost
  <2> QED BY <1>4, <1>5, <2>1 DEF Has
<1>6. CASE ~Has(locals, n)
  <2>1. Has(globals, n) => \E i \in DOMAIN scopes[1] : Lookup(n) = scopes[1][i]
    BY <1>1, <1>2, <1>3, <1>6, LookupInnermost
  <2> QED BY <1>4, <1>6, <2>1 DEF Has
<1> QED BY <1>5, <1>6

(* A name means the procedure's own declaration, else the program's, else  *)
(* nothing: no symbol of an earlier procedure is ever found, whatever was  *)
(* declared and in whatever order (sym_enter_scope, sym_exit_scope,        *)
(* sym_insert, sym_lookup).                                                *)
THEOREM StorageNamesResolve == Spec => []NamesResolveInScope
<1>1. Init => TypeOK /\ NameInv
  <2> SUFFICES ASSUME Init PROVE TypeOK /\ NameInv
    OBVIOUS
  <2>1. globals \in Seq(Decls)
    BY EmptySequence DEF Init
  <2>2. scopes[1] = <<>> /\ globals = <<>> /\ ~InProc /\ locals = <<>>
    BY DEF Init, InProc
  <2> QED BY StorageInit, <2>1, <2>2, HasNone DEF NameInv
<1>2. (TypeOK /\ NameInv) /\ [Next]_vars => (TypeOK /\ NameInv)'
  BY StorageStep, NameStep
<1> QED BY <1>1, <1>2, NamesResolve, PTL DEF Spec
-----------------------------------------------------------------------------
(* Where stores go *)

(* A symbol of scope d, of procedure p: its class, label, width and        *)
(* descriptor among ds are those of an ordinary declaration.               *)
SymbolOK(sym, d, p, ds, gone) ==
  /\ IF d = 1 THEN sym.stor = "STATIC" /\ sym.label = sym.n
     ELSE sym.stor = "AUTO" \/ (sym.stor = "STATIC" /\ sym.label = Mangle(p, sym.n))
  /\ sym.param => sym.stor = "AUTO" /\ sym.dim = 0 /\ sym.ty # "RECORD"
  /\ sym.dim > 0 => sym.ty \in {"BYTE", "INT24", "PTR"} /\ sym.w = TypeWidth(sym.ty) * sym.dim
  /\ sym.ty = "RECORD" =>
       /\ sym.td \in 0 .. Len(ds)
       /\ sym.td > 0 => ds[sym.td].ty = "RECORD" /\ sym.w = Width(ds[sym.td], TRUE)
  /\ ~gone => sym.param \/ sym.w \notin {0, 2}
ScopeOK(s, d, p, ds, gone) ==
  /\ \A i \in 1 .. Len(s) : SymbolOK(s[i], d, p, ds, gone)
  /\ \A i, j \in 1 .. Len(s) : s[i].n = s[j].n => i = j
PlaceInv == \A d \in 1 .. Len(scopes) : ScopeOK(scopes[d], d, proc, descs, lost)

(* Later descriptors and procedures leave it so.                           *)
LEMMA SymbolStaysOK ==
  ASSUME NEW sym, NEW d, NEW p, NEW q, NEW ds \in Seq(Decls), NEW es \in Seq(Decls),
         NEW gone, NEW missing, SymbolOK(sym, d, p, ds, gone), d = 1 \/ p = q,
         Len(ds) <= Len(es), \A k \in 1 .. Len(ds) : es[k] = ds[k], gone => missing
  PROVE  SymbolOK(sym, d, q, es, missing)
<1>1. Len(ds) \in Nat /\ Len(es) \in Nat
  OBVIOUS
<1>2. ASSUME sym.ty = "RECORD"
      PROVE  /\ sym.td \in 0 .. Len(es)
             /\ sym.td > 0 => es[sym.td].ty = "RECORD" /\ sym.w = Width(es[sym.td], TRUE)
  <2>1. sym.td \in 0 .. Len(ds)
    BY <1>2 DEF SymbolOK
  <2>2. ASSUME sym.td > 0 PROVE es[sym.td].ty = "RECORD" /\ sym.w = Width(es[sym.td], TRUE)
    <3>1. ds[sym.td].ty = "RECORD" /\ sym.w = Width(ds[sym.td], TRUE)
      BY <1>2, <2>2 DEF SymbolOK
    <3>2. sym.td \in 1 .. Len(ds)
      BY <1>1, <2>1, <2>2
    <3>3. es[sym.td] = ds[sym.td]
      BY <3>2
    <3> QED BY <3>1, <3>3
  <2>3. sym.td \in 0 .. Len(es)
    BY <1>1, <2>1
  <2> QED BY <2>2, <2>3
<1> QED BY <1>2 DEF SymbolOK

LEMMA ScopeStaysOK ==
  ASSUME NEW s, NEW d, NEW p, NEW q, NEW ds \in Seq(Decls), NEW es \in Seq(Decls),
         NEW gone, NEW missing, ScopeOK(s, d, p, ds, gone), d = 1 \/ p = q,
         Len(ds) <= Len(es), \A k \in 1 .. Len(ds) : es[k] = ds[k], gone => missing
  PROVE  ScopeOK(s, d, q, es, missing)
<1>1. ASSUME NEW i \in 1 .. Len(s) PROVE SymbolOK(s[i], d, q, es, missing)
  <2>1. SymbolOK(s[i], d, p, ds, gone)
    BY DEF ScopeOK
  <2> QED BY <2>1, SymbolStaysOK
<1> QED BY <1>1 DEF ScopeOK

(* One more symbol of another name.                                        *)
LEMMA ScopeGrows ==
  ASSUME NEW s \in Seq(Sym), NEW sym \in Sym, NEW d, NEW p, NEW ds, NEW gone,
         ScopeOK(s, d, p, ds, gone), SymbolOK(sym, d, p, ds, gone), ~Has(s, sym.n)
  PROVE  ScopeOK(Append(s, sym), d, p, ds, gone)
<1> DEFINE r == Append(s, sym)
<1>1. /\ Len(r) = Len(s) + 1 /\ Len(s) \in Nat
      /\ \A i \in 1 .. Len(s) : r[i] = s[i]
      /\ r[Len(s) + 1] = sym
  <2>1. Len(r) = Len(s) + 1 /\ Len(s) \in Nat
    OBVIOUS
  <2> QED BY <2>1, PushedFirst, PushedLast
<1> HIDE DEF r
<1>2. ASSUME NEW i \in 1 .. Len(r) PROVE SymbolOK(r[i], d, p, ds, gone)
  <2>1. CASE i = Len(s) + 1
    BY <1>1, <2>1
  <2>2. CASE i # Len(s) + 1
    <3>1. i \in 1 .. Len(s) /\ r[i] = s[i]
      BY <1>1, <2>2
    <3>2. SymbolOK(s[i], d, p, ds, gone)
      BY <3>1 DEF ScopeOK
    <3> QED BY <3>1, <3>2
  <2> QED BY <2>1, <2>2
<1>3. ASSUME NEW i \in 1 .. Len(r), NEW j \in 1 .. Len(r), r[i].n = r[j].n PROVE i = j
  <2>1. CASE i = Len(s) + 1 \/ j = Len(s) + 1
    BY <1>1, <1>3, <2>1 DEF Has
  <2>2. CASE i # Len(s) + 1 /\ j # Len(s) + 1
    <3>1. i \in 1 .. Len(s) /\ j \in 1 .. Len(s) /\ r[i] = s[i] /\ r[j] = s[j]
      BY <1>1, <2>2
    <3> QED BY <1>3, <3>1 DEF ScopeOK
  <2> QED BY <2>1, <2>2
<1>4. ScopeOK(r, d, p, ds, gone)
  BY <1>2, <1>3 DEF ScopeOK
<1> QED BY <1>4 DEF r

(* A declaration leaves the scopes right if the symbol it makes is.        *)
LEMMA DeclaredPlaces ==
  ASSUME TypeOK, PlaceInv, NEW sym \in Sym, NEW m, sym.n = m,
         IF Inserts(m) THEN Insert(sym) ELSE UNCHANGED scopes,
         SymbolOK(sym, Len(scopes), proc, descs', lost'), proc' = proc, lost => lost',
         descs' \in Seq(Decls), Len(descs) <= Len(descs'),
         \A k \in 1 .. Len(descs) : descs'[k] = descs[k]
  PROVE  PlaceInv'
<1>1. /\ ScopeTypes /\ scopes \in Seq(Seq(Sym)) /\ Len(scopes) \in Nat /\ Len(scopes) >= 1
      /\ descs \in Seq(Decls)
  BY DEF TypeOK, ScopeTypes, DepthOK, LayoutTypes
<1>2. \A d \in 1 .. Len(scopes) : ScopeOK(scopes[d], d, proc, descs', lost')
  BY <1>1, ScopeStaysOK DEF PlaceInv
<1>3. CASE Inserts(m)
  <2> DEFINE k == Len(scopes)
  <2>1. /\ Len(scopes') = k /\ \A d \in 1 .. k : d # k => scopes'[d] = scopes[d]
        /\ scopes'[k] = Append(scopes[k], sym)
    <3>1. Insert(sym)
      BY <1>3, Zenon
    <3> QED BY <1>1, <1>3, <3>1, InsertTypes
  <2>2. k \in 1 .. k /\ scopes[k] \in Seq(Sym)
    BY <1>1
  <2>3. ~Has(scopes[k], sym.n)
    BY <1>3, InScopeHas DEF Inserts, Current, Depth
  <2>4. ScopeOK(Append(scopes[k], sym), k, proc, descs', lost')
    BY <1>2, <2>2, <2>3, ScopeGrows
  <2>5. \A d \in 1 .. k : ScopeOK(scopes'[d], d, proc, descs', lost')
    BY <1>2, <2>1, <2>4
  <2> QED BY <2>1, <2>5 DEF PlaceInv
<1>4. CASE ~Inserts(m)
  BY <1>2, <1>4 DEF PlaceInv
<1> QED BY <1>3, <1>4

LEMMA DescribedAfter ==
  ASSUME LayoutTypes, NEW d \in Decls, Describe(d)
  PROVE  /\ descs' \in Seq(Decls) /\ Len(descs) <= Len(descs')
         /\ \A k \in 1 .. Len(descs) : descs'[k] = descs[k]
         /\ d.ty = "RECORD" => /\ Descriptor(d) \in 0 .. Len(descs')
                               /\ Descriptor(d) > 0 => HasRoom /\ descs'[Descriptor(d)] = d
<1>1. descs \in Seq(Decls) /\ Len(descs) \in Nat
  BY DEF LayoutTypes
<1>2. CASE d.ty = "RECORD" /\ HasRoom
  <2>1. descs' = Append(descs, d) /\ Descriptor(d) = Len(descs) + 1
    BY <1>2 DEF Describe, Descriptor
  <2>2. descs' \in Seq(Decls) /\ Len(descs') = Len(descs) + 1
    BY <1>1, <2>1
  <2>3. (\A k \in 1 .. Len(descs) : descs'[k] = descs[k]) /\ descs'[Len(descs) + 1] = d
    BY <1>1, <2>1, PushedFirst, PushedLast
  <2> QED BY <1>1, <1>2, <2>1, <2>2, <2>3
<1>3. CASE d.ty = "RECORD" /\ ~HasRoom
  BY <1>1, <1>3 DEF Describe, Descriptor
<1>4. CASE d.ty # "RECORD"
  BY <1>1, <1>4 DEF Describe
<1> QED BY <1>2, <1>3, <1>4

(* The symbol of an ordinary declaration.                                  *)
LEMMA OrdinarySymbol ==
  ASSUME TypeOK, NEW d \in Decls, Ordinary(d), Describe(d),
         Outcome(d.n, d.ty = "RECORD" => HasRoom), NEW k, NEW stor, NEW off, NEW label,
         IF k = 1 THEN stor = "STATIC" /\ label = d.n
         ELSE stor = "AUTO" \/ (stor = "STATIC" /\ label = Mangle(proc, d.n))
  PROVE  SymbolOK(Symbol(d, stor, off, label), k, proc, descs', lost')
<1> DEFINE sym == Symbol(d, stor, off, label)
<1>1. /\ sym.n = d.n /\ sym.ty = d.ty /\ sym.dim = d.dim /\ sym.w = WidthNow(d)
      /\ sym.stor = stor /\ sym.td = Descriptor(d) /\ sym.label = label /\ sym.param = FALSE
  BY DEF Symbol
<1> HIDE DEF sym
<1>2. d.ty \in Types /\ d.dim \in Nat /\ LayoutTypes
  BY DeclTypes DEF TypeOK
<1>3. d.dim > 0 => d.ty \in {"BYTE", "INT24", "PTR"} /\ WidthNow(d) = TypeWidth(d.ty) * d.dim
  BY <1>2 DEF Ordinary, Types, WidthNow, Width, PlainWidth
<1>4. d.ty = "RECORD" =>
        /\ Descriptor(d) \in 0 .. Len(descs')
        /\ Descriptor(d) > 0 => descs'[Descriptor(d)] = d /\ WidthNow(d) = Width(d, TRUE)
  <2>1. HasRoom => HasRoom = TRUE
    BY DEF HasRoom
  <2> QED BY <1>2, <2>1, DescribedAfter DEF WidthNow
<1>5. ~lost' => WidthNow(d) \notin {0, 2}
  <2>1. CASE d.ty = "RECORD" /\ ~HasRoom
    BY <2>1 DEF Outcome
  <2>2. CASE d.ty = "RECORD" /\ HasRoom
    BY <2>2 DEF Ordinary, WidthNow, Width
  <2>3. CASE d.ty # "RECORD"
    BY <2>3 DEF Ordinary, WidthNow, Width
  <2> QED BY <2>1, <2>2, <2>3
<1>6. SymbolOK(sym, k, proc, descs', lost')
  BY <1>1, <1>3, <1>4, <1>5 DEF SymbolOK
<1> QED BY <1>6 DEF sym

LEMMA GlobalPlaces ==
  ASSUME TypeOK, PlaceInv, NEW d \in Decls, Ordinary(d), LayoutGlobal(d)
  PROVE  PlaceInv'
<1> DEFINE stor == IF d.stor = "AUTO" THEN "STATIC" ELSE d.stor
           sym == Symbol(d, stor, staticNext, d.n)
<1>1. Len(scopes) = 1 /\ LayoutTypes /\ staticNext \in Int /\ d.n \in Names
  BY DeclTypes DEF LayoutGlobal, TypeOK, DepthOK, InProc, LayoutTypes
<1>2. stor = "STATIC" /\ stor \in Classes
  BY DEF Ordinary, Classes
<1>3. Describe(d) /\ Outcome(d.n, d.ty = "RECORD" => HasRoom) /\ proc' = proc
  BY DEF LayoutGlobal
<1>4. IF Inserts(d.n) THEN Insert(sym) ELSE UNCHANGED scopes
  BY DEF LayoutGlobal
<1> HIDE DEF stor
<1>5. SymbolOK(sym, Len(scopes), proc, descs', lost')
  BY <1>1, <1>2, <1>3, OrdinarySymbol
<1>6. sym \in Sym
  BY <1>1, <1>2, DeclTypes, SymbolTypes
<1>7. sym.n = d.n
  BY DEF Symbol
<1>8. lost => lost'
  BY <1>3 DEF Outcome
<1>9. /\ descs' \in Seq(Decls) /\ Len(descs) <= Len(descs')
      /\ \A k \in 1 .. Len(descs) : descs'[k] = descs[k]
  BY <1>1, <1>3, DescribedAfter
<1> HIDE DEF sym
<1> QED BY <1>3, <1>4, <1>5, <1>6, <1>7, <1>8, <1>9, DeclaredPlaces

LEMMA ParamPlaces ==
  ASSUME TypeOK, PlaceInv, NEW p \in Params, LayoutParam(p)
  PROVE  PlaceInv'
<1> DEFINE sym == [n |-> p.n, ty |-> p.ty, dim |-> 0, w |-> TypeWidth(p.ty),
                   stor |-> "AUTO", off |-> ParamBase + Slot * Len(locals), td |-> 0,
                   label |-> p.n, param |-> TRUE]
<1>1. /\ Len(scopes) = 2 /\ Len(locals) \in Nat /\ descs \in Seq(Decls)
      /\ p.n \in Names /\ p.ty \in Types /\ p.ty # "RECORD" /\ TypeWidth(p.ty) \in Nat
  BY ParamTypes, StorageAssumption
     DEF LayoutParam, TypeOK, DepthOK, InProc, WalkTypes, LayoutTypes
<1>2. sym \in Sym
  <2>1. ParamBase + Slot * Len(locals) \in Int
    BY <1>1 DEF ParamBase, Slot
  <2> QED BY <1>1, <2>1, ParamTypes DEF Sym, Classes
<1>3. SymbolOK(sym, Len(scopes), proc, descs', lost')
  BY <1>1 DEF SymbolOK
<1>4. IF Inserts(p.n) THEN Insert(sym) ELSE UNCHANGED scopes
  BY DEF LayoutParam
<1>5. proc' = proc /\ descs' = descs /\ (lost => lost')
  BY DEF LayoutParam, layout, Outcome
<1>6. sym.n = p.n
  OBVIOUS
<1> HIDE DEF sym
<1>7. /\ descs' \in Seq(Decls) /\ Len(descs) <= Len(descs')
      /\ \A k \in 1 .. Len(descs) : descs'[k] = descs[k]
  BY <1>1, <1>5
<1> QED BY <1>2, <1>3, <1>4, <1>5, <1>6, <1>7, DeclaredPlaces

LEMMA LocalPlaces ==
  ASSUME TypeOK, PlaceInv, NEW d \in Decls, Ordinary(d), LayoutLocal(d)
  PROVE  PlaceInv'
<1>1. /\ Len(scopes) = 2 /\ LayoutTypes /\ staticNext \in Int /\ d.n \in Names /\ proc \in Names
  BY DeclTypes DEF LayoutLocal, TypeOK, DepthOK, InProc, LayoutTypes, WalkTypes
<1>2. Describe(d) /\ Outcome(d.n, d.ty = "RECORD" => HasRoom) /\ proc' = proc
  BY DEF LayoutLocal
<1>3. lost => lost'
  BY <1>2 DEF Outcome
<1>4. /\ descs' \in Seq(Decls) /\ Len(descs) <= Len(descs')
      /\ \A k \in 1 .. Len(descs) : descs'[k] = descs[k]
  BY <1>1, <1>2, DescribedAfter
<1>5. CASE d.stor = "STATIC"
  <2> DEFINE sym == Symbol(d, "STATIC", staticNext, Mangle(proc, d.n))
  <2>1. IF Inserts(d.n) THEN Insert(sym) ELSE UNCHANGED scopes
    BY <1>5 DEF LayoutLocal
  <2>2. SymbolOK(sym, Len(scopes), proc, descs', lost')
    BY <1>1, <1>2, OrdinarySymbol
  <2>3. sym \in Sym
    <3>1. Mangle(proc, d.n) \in Labels /\ "STATIC" \in Classes
      BY LabelTypes, <1>1 DEF Classes
    <3> QED BY <1>1, <3>1, SymbolTypes
  <2>4. sym.n = d.n
    BY DEF Symbol
  <2> HIDE DEF sym
  <2> QED BY <1>2, <1>3, <1>4, <2>1, <2>2, <2>3, <2>4, DeclaredPlaces
<1>6. CASE d.stor # "STATIC"
  <2> DEFINE off == 0 - FrameAfter(WidthNow(d))
             sym == Symbol(d, d.stor, off, d.n)
  <2>1. IF Inserts(d.n) THEN Insert(sym) ELSE UNCHANGED scopes
    BY <1>6 DEF LayoutLocal
  <2>2. d.stor = "AUTO" /\ d.stor \in Classes /\ off \in Int
    BY <1>1, <1>6, DeclTypes DEF Ordinary, Classes, FrameAfter, LayoutTypes
  <2> HIDE DEF off
  <2>3. SymbolOK(sym, Len(scopes), proc, descs', lost')
    BY <1>1, <1>2, <2>2, OrdinarySymbol
  <2>4. sym \in Sym
    BY <1>1, <2>2, DeclTypes, SymbolTypes
  <2>5. sym.n = d.n
    BY DEF Symbol
  <2> HIDE DEF sym
  <2> QED BY <1>2, <1>3, <1>4, <2>1, <2>3, <2>4, <2>5, DeclaredPlaces
<1> QED BY <1>5, <1>6

LEMMA PlaceStep ==
  ASSUME TypeOK, PlaceInv, \A d \in Decls : Ordinary(d), [Next]_vars
  PROVE  PlaceInv'
<1>1. /\ scopes \in Seq(Seq(Sym)) /\ descs \in Seq(Decls) /\ Len(descs) \in Nat
      /\ \A k \in 1 .. Len(descs) : descs[k] = descs[k]
  BY DEF TypeOK, ScopeTypes, LayoutTypes
<1>2. ASSUME NEW bare \in Bare, EnterProc(bare) PROVE PlaceInv'
  <2>1. /\ Len(scopes) = 1 /\ Len(scopes') = 2 /\ scopes'[1] = scopes[1]
        /\ scopes'[2] = <<>> /\ Len(scopes'[2]) = 0
    <3>1. Len(scopes) = 1
      BY <1>2 DEF EnterProc, TypeOK, DepthOK, InProc
    <3> QED BY <1>2, <3>1, EnterScopes
  <2>2. descs' = descs /\ lost' = lost
    BY <1>2 DEF EnterProc
  <2>3. ScopeOK(scopes'[1], 1, proc', descs', lost')
    <3>1. ScopeOK(scopes[1], 1, proc, descs, lost)
      BY <2>1 DEF PlaceInv
    <3>2. ScopeOK(scopes[1], 1, proc', descs, lost)
      BY <1>1, <3>1, ScopeStaysOK
    <3> QED BY <2>1, <2>2, <3>2
  <2>4. ScopeOK(scopes'[2], 2, proc', descs', lost')
    BY <2>1 DEF ScopeOK
  <2>5. \A d \in 1 .. Len(scopes') : d = 1 \/ d = 2
    BY <2>1
  <2> QED BY <2>3, <2>4, <2>5 DEF PlaceInv
<1>3. CASE LeaveProc
  <2>1. Len(scopes) = 2
    BY <1>3 DEF LeaveProc, TypeOK, DepthOK, InProc
  <2>2. Len(scopes') = 1 /\ scopes'[1] = scopes[1] /\ descs' = descs /\ lost' = lost
    BY <1>1, <1>3, <2>1 DEF LeaveProc, ExitScope, layout
  <2>3. ScopeOK(scopes[1], 1, proc, descs, lost)
    BY <2>1 DEF PlaceInv
  <2>4. ScopeOK(scopes[1], 1, proc', descs, lost)
    BY <1>1, <2>3, ScopeStaysOK
  <2>5. \A d \in 1 .. Len(scopes') : d = 1
    BY <2>2
  <2> QED BY <2>2, <2>4, <2>5 DEF PlaceInv
<1>4. CASE UNCHANGED <<scopes, proc, descs, lost>>
  BY <1>4 DEF PlaceInv
<1>5. CASE StartBody \/ EmitGlobals \/ UNCHANGED vars
  BY <1>4, <1>5 DEF StartBody, EmitGlobals, vars, walk, layout
<1> QED BY <1>2, <1>3, <1>5, GlobalPlaces, ParamPlaces, LocalPlaces DEF Next, Finished

(* Bytes from .. from + size - 1 of a symbol are inside what it owns.      *)
Size(sym) == IF sym.param THEN Slot ELSE sym.w
Inside(x, sym) == x.at = Owned(sym).at /\ Owned(sym).lo <= x.lo /\ x.hi <= Owned(sym).hi
Bytes(x) == x.lo \in Int /\ x.hi \in Int

LEMMA ExtentInside ==
  ASSUME NEW sym \in Sym, NEW from \in Nat, NEW size \in Nat, from + size <= Size(sym)
  PROVE  Inside(Extent(sym, from, size), sym) /\ Bytes(Extent(sym, from, size))
<1>1. sym.off \in Int /\ sym.w \in Nat
  BY DEF Sym
<1>2. Base(sym) \in Int /\ Size(sym) \in Nat
  BY <1>1 DEF Base, Size, Slot
<1>3. Owned(sym) = Extent(sym, 0, Size(sym))
  BY DEF Owned, Size
<1> QED BY <1>2, <1>3 DEF Inside, Bytes, Extent

LEMMA StoreSizes ==
  ASSUME NEW w \in Nat
  PROVE  StoreSize(w) \in {1, 3} /\ StoreSize(w) <= 3 /\ (w \notin {0, 2} => StoreSize(w) <= w)
BY DEF StoreSize

(* A store to an element is inside the array, and misses other elements.   *)
LEMMA ElementInside ==
  ASSUME NEW sym \in Sym, NEW d, NEW p, NEW ds, NEW gone, SymbolOK(sym, d, p, ds, gone),
         NEW i \in 0 .. sym.dim - 1
  PROVE  /\ Inside(StoreElement(sym, i), sym) /\ Bytes(StoreElement(sym, i))
         /\ \A j \in 0 .. sym.dim - 1 :
              i # j => ~Overlap(StoreElement(sym, i), StoreElement(sym, j))
<1>1. sym.dim \in Nat /\ sym.dim > 0 /\ sym.off \in Int /\ sym.w \in Nat
  BY DEF Sym
<1>2. /\ sym.ty \in {"BYTE", "INT24", "PTR"} /\ sym.w = TypeWidth(sym.ty) * sym.dim
      /\ sym.param => sym.dim = 0
  BY <1>1 DEF SymbolOK
<1>3. PICK z \in {1, 3} : /\ Scale(sym.ty) = z /\ StoreSize(TypeWidth(sym.ty)) = z
                          /\ TypeWidth(sym.ty) = z
  <2>1. CASE sym.ty = "BYTE"
    BY <2>1 DEF Scale, StoreSize, TypeWidth
  <2>2. CASE sym.ty # "BYTE"
    BY <1>2, <2>2 DEF Scale, StoreSize, TypeWidth
  <2> QED BY <2>1, <2>2
<1>4. Size(sym) = z * sym.dim
  <2>1. sym.param \in BOOLEAN
    BY DEF Sym
  <2>2. ~sym.param
    BY <1>1, <1>2
  <2> QED BY <1>2, <1>3, <2>2 DEF Size
<1>5. \A j \in 0 .. sym.dim - 1 : StoreElement(sym, j) = Extent(sym, j * z, z)
  BY <1>3 DEF StoreElement
<1>6. i * z \in Nat /\ z \in Nat /\ i * z + z <= z * sym.dim
  <2>1. CASE z = 1
    BY <1>1, <2>1
  <2>2. CASE z = 3
    BY <1>1, <2>2
  <2> QED BY <1>3, <2>1, <2>2
<1>7. Inside(Extent(sym, i * z, z), sym) /\ Bytes(Extent(sym, i * z, z))
  BY <1>4, <1>6, ExtentInside
<1>8. ASSUME NEW j \in 0 .. sym.dim - 1, i # j
      PROVE  ~Overlap(Extent(sym, i * z, z), Extent(sym, j * z, z))
  <2>1. Base(sym) \in Int
    BY <1>1 DEF Base
  <2>2. CASE z = 1
    BY <1>1, <1>8, <2>1, <2>2 DEF Overlap, Extent
  <2>3. CASE z = 3
    BY <1>1, <1>8, <2>1, <2>3 DEF Overlap, Extent
  <2> QED BY <1>3, <2>2, <2>3
<1> QED BY <1>5, <1>7, <1>8

(* A store to a field is inside the record.                                *)
LEMMA FieldInside ==
  ASSUME descs \in Seq(Decls), \A e \in Decls : Ordinary(e), NEW sym \in Sym, NEW d, NEW p,
         NEW gone, SymbolOK(sym, d, p, descs, gone), sym.ty = "RECORD", sym.td > 0,
         NEW k \in 1 .. Len(Kept(descs[sym.td]))
  PROVE  Inside(StoreField(sym, k), sym) /\ Bytes(StoreField(sym, k))
<1> DEFINE e == descs[sym.td]
           from == FieldOffset(e)[k - 1]
           w == FieldWidth(e, k)
<1>1. sym.td \in 0 .. Len(descs)
  BY DEF SymbolOK
<1>2. e \in Decls
  BY <1>1
<1>3. e.ty = "RECORD" /\ sym.w = Width(e, TRUE)
  BY DEF SymbolOK
<1>4. StoreField(sym, k) = Extent(sym, from, StoreSize(w))
  BY DEF StoreField, FieldExtent, FieldWidth
<1>5. w # 2
  <2>1. Ordinary(e)
    BY <1>2
  <2> QED BY <1>3, <2>1 DEF Ordinary, FieldWidth
<1>6. ~sym.param
  BY DEF SymbolOK
<1> HIDE DEF e
<1>7. w \in Nat \ {0} /\ from \in Nat /\ from + w <= FieldOffset(e)[Len(Kept(e))]
  BY <1>2, FieldsInOrder DEF e
<1>8. Size(sym) = FieldOffset(e)[Len(Kept(e))] /\ Size(sym) \in Nat
  <2>1. Size(sym) = sym.w /\ sym.w \in Nat
    BY <1>6 DEF Size, Sym
  <2> QED BY <1>3, <2>1 DEF Width
<1> HIDE DEF from, w
<1>9. StoreSize(w) \in Nat /\ StoreSize(w) <= w
  BY <1>5, <1>7, StoreSizes
<1>10. from + StoreSize(w) <= Size(sym)
  BY <1>7, <1>8, <1>9
<1>11. Inside(Extent(sym, from, StoreSize(w)), sym) /\ Bytes(Extent(sym, from, StoreSize(w)))
  BY <1>7, <1>9, <1>10, ExtentInside
<1> QED BY <1>4, <1>11

LEMMA StoresInside ==
  ASSUME TypeOK, \A e \in Decls : Ordinary(e), NEW sym \in Sym, NEW d, ~lost,
         SymbolOK(sym, d, proc, descs, lost), NEW x \in Stores(sym)
  PROVE  Inside(x, sym) /\ Bytes(x)
<1>1. descs \in Seq(Decls)
  BY DEF TypeOK, LayoutTypes
<1>2. CASE x = StoreVar(sym)
  <2>1. sym.w \in Nat /\ sym.param \in BOOLEAN
    BY DEF Sym
  <2>2. sym.param \/ sym.w \notin {0, 2}
    BY DEF SymbolOK
  <2>3. 0 + StoreSize(sym.w) <= Size(sym) /\ StoreSize(sym.w) \in Nat
    <3>1. StoreSize(sym.w) \in {1, 3} /\ (sym.w \notin {0, 2} => StoreSize(sym.w) <= sym.w)
      BY <2>1, StoreSizes
    <3>2. CASE sym.param
      BY <3>1, <3>2 DEF Size, Slot
    <3>3. CASE ~sym.param
      BY <2>1, <2>2, <3>1, <3>3 DEF Size
    <3> QED BY <3>2, <3>3
  <2> QED BY <1>2, <2>3, ExtentInside DEF StoreVar
<1>3. ASSUME NEW i \in 0 .. sym.dim - 1, x = StoreElement(sym, i) PROVE Inside(x, sym) /\ Bytes(x)
  BY <1>3, ElementInside
<1>4. ASSUME sym.ty = "RECORD", sym.td > 0, NEW k \in 1 .. Len(Kept(descs[sym.td])),
             x = StoreField(sym, k)
      PROVE  Inside(x, sym) /\ Bytes(x)
  BY <1>1, <1>4, FieldInside
<1> QED BY <1>2, <1>3, <1>4 DEF Stores

LEMMA SymbolAt ==
  ASSUME TypeOK, PlaceInv, NEW c \in Symbols
  PROVE  /\ c[1] \in 1 .. Len(scopes) /\ c[1] \in {1, 2} /\ c[2] \in 1 .. Len(scopes[c[1]])
         /\ c = <<c[1], c[2]>> /\ At(c) = scopes[c[1]][c[2]] /\ At(c) \in Sym
         /\ SymbolOK(At(c), c[1], proc, descs, lost)
<1>0. PICK d \in 1 .. Len(scopes) : c \in {<<d, i>> : i \in 1 .. Len(scopes[d])}
  BY DEF Symbols, Depth
<1>1. PICK i \in 1 .. Len(scopes[d]) : c = <<d, i>>
  BY <1>0
<1>2. c[1] = d /\ c[2] = i /\ At(c) = scopes[d][i]
  BY <1>1 DEF At
<1>3. scopes \in Seq(Seq(Sym)) /\ Len(scopes) \in {1, 2}
  BY DEF TypeOK, ScopeTypes, DepthOK
<1>4. d \in {1, 2} /\ scopes[d] \in Seq(Sym)
  BY <1>3
<1>5. scopes[d][i] \in Sym
  BY <1>4
<1>6. SymbolOK(scopes[d][i], d, proc, descs, lost)
  BY DEF PlaceInv, ScopeOK
<1> QED BY <1>1, <1>2, <1>4, <1>5, <1>6

LEMMA OwnedAt ==
  ASSUME NEW sym
  PROVE  Owned(sym).at = IF ByLabel(sym) THEN <<"data", sym.label>> ELSE <<"frame">>
BY DEF Owned, Extent

LEMMA PlacesDiffer ==
  ASSUME NEW l
  PROVE  <<"data", l>> # <<"frame">>
<1>1. Len(<<"data", l>>) = 2 /\ Len(<<"frame">>) = 1
  OBVIOUS
<1> QED BY <1>1

(* Only frame slots are not by label, and those belong to a procedure.     *)
LEMMA FrameSymbol ==
  ASSUME TypeOK, PlaceInv, NEW c \in Symbols, ~ByLabel(At(c))
  PROVE  c[1] = 2 /\ Depth = 2 /\ c[2] \in 1 .. Len(scopes[2])
<1>1. c[1] = 2
  BY SymbolAt DEF SymbolOK, ByLabel
<1>2. Len(scopes) \in {1, 2}
  BY DEF TypeOK, DepthOK
<1> QED BY <1>1, <1>2, SymbolAt DEF Depth

LEMMA OwnedApart ==
  ASSUME TypeOK, SlotsDisjoint, PlaceInv, NoNameIsLabel,
         NEW c \in Symbols, NEW b \in Symbols, c # b
  PROVE  ~Overlap(Owned(At(c)), Owned(At(b)))
<1>1. CASE ~ByLabel(At(c)) /\ ~ByLabel(At(b))
  <2>1. c[1] = 2 /\ b[1] = 2 /\ Depth = 2
    BY <1>1, FrameSymbol
  <2>2. c[2] \in 1 .. Len(scopes[2]) /\ b[2] \in 1 .. Len(scopes[2])
    BY <1>1, FrameSymbol
  <2>3. c[2] # b[2] /\ At(c) = scopes[2][c[2]] /\ At(b) = scopes[2][b[2]]
    BY <2>1, SymbolAt
  <2> QED BY <1>1, <2>1, <2>2, <2>3 DEF SlotsDisjoint
<1>2. CASE \/ ByLabel(At(c)) /\ ~ByLabel(At(b))
           \/ ~ByLabel(At(c)) /\ ByLabel(At(b))
  <2>1. Owned(At(c)).at = IF ByLabel(At(c)) THEN <<"data", At(c).label>> ELSE <<"frame">>
    BY OwnedAt
  <2>2. Owned(At(b)).at = IF ByLabel(At(b)) THEN <<"data", At(b).label>> ELSE <<"frame">>
    BY OwnedAt
  <2>3. Owned(At(c)).at # Owned(At(b)).at
    BY <1>2, <2>1, <2>2, PlacesDiffer
  <2> QED BY <2>3 DEF Overlap
<1>3. CASE ByLabel(At(c)) /\ ByLabel(At(b))
  <2>1. At(c).n \in Names /\ At(b).n \in Names
    <3>1. At(c) \in Sym /\ At(b) \in Sym
      BY SymbolAt
    <3> QED BY <3>1 DEF Sym
  <2>2. At(c).label = IF c[1] = 1 THEN At(c).n ELSE Joined[proc][At(c).n]
    BY <1>3, SymbolAt DEF SymbolOK, ByLabel, Mangle
  <2>3. At(b).label = IF b[1] = 1 THEN At(b).n ELSE Joined[proc][At(b).n]
    BY <1>3, SymbolAt DEF SymbolOK, ByLabel, Mangle
  <2>4. At(c).label # At(b).label
    <3>1. CASE c[1] = b[1]
      <4>1. At(c) = scopes[c[1]][c[2]] /\ At(b) = scopes[c[1]][b[2]]
        BY <3>1, SymbolAt
      <4>2. c[2] # b[2] /\ c[1] \in 1 .. Len(scopes)
        BY <3>1, SymbolAt
      <4>3. At(c).n # At(b).n
        <5>1. c[2] \in 1 .. Len(scopes[c[1]]) /\ b[2] \in 1 .. Len(scopes[c[1]])
          BY <3>1, SymbolAt
        <5>2. ScopeOK(scopes[c[1]], c[1], proc, descs, lost)
          BY <4>2 DEF PlaceInv
        <5> QED BY <4>1, <4>2, <5>1, <5>2 DEF ScopeOK
      <4>4. CASE c[1] = 1
        BY <2>2, <2>3, <3>1, <4>3, <4>4
      <4>5. CASE c[1] = 2
        <5>1. proc \in Names
          BY <4>2, <4>5 DEF TypeOK, DepthOK, WalkTypes
        <5> QED BY <2>1, <2>2, <2>3, <3>1, <4>3, <4>5, <5>1, StorageAssumption
      <4> QED BY <4>4, <4>5, SymbolAt
    <3>2. CASE c[1] # b[1]
      <4>1. proc \in Names
        <5>1. Len(scopes) = 2
          <6>1. c[1] \in {1, 2} /\ b[1] \in {1, 2} /\ c[1] \in 1 .. Len(scopes) /\ b[1] \in 1 .. Len(scopes)
            BY SymbolAt
          <6>2. Len(scopes) \in {1, 2}
            BY DEF TypeOK, DepthOK
          <6>3. CASE Len(scopes) = 1
            <7>1. 1 .. Len(scopes) = {1}
              BY <6>3
            <7> QED BY <3>2, <6>1, <7>1
          <6> QED BY <6>2, <6>3
        <5> QED BY <5>1 DEF TypeOK, DepthOK, WalkTypes
      <4>2. \A n \in Names, m \in Names : n # Joined[proc][m]
        BY <4>1 DEF NoNameIsLabel
      <4> QED BY <2>1, <2>2, <2>3, <3>2, <4>2, SymbolAt
    <3> QED BY <3>1, <3>2
  <2>5. Owned(At(c)).at = <<"data", At(c).label>> /\ Owned(At(b)).at = <<"data", At(b).label>>
    BY <1>3, OwnedAt
  <2> QED BY <2>4, <2>5 DEF Overlap
<1> QED BY <1>1, <1>2, <1>3

LEMMA OwnedBytes ==
  ASSUME NEW sym \in Sym
  PROVE  Bytes(Owned(sym))
<1>1. sym.off \in Int /\ sym.w \in Nat
  BY DEF Sym
<1> QED BY <1>1 DEF Owned, Extent, Base, Slot, Bytes

(* What is inside one of two extents apart does not meet the other.        *)
LEMMA InsideApart ==
  ASSUME NEW sym, NEW x, NEW y, Inside(x, sym), Bytes(x), Bytes(Owned(sym)), Bytes(y),
         ~Overlap(Owned(sym), y)
  PROVE  ~Overlap(x, y)
BY DEF Inside, Bytes, Overlap

LEMMA StoresStayPut ==
  ASSUME TypeOK, SlotsDisjoint, PlaceInv, \A e \in Decls : Ordinary(e), NoNameIsLabel
  PROVE  AssignmentsStayPut
<1>1. ASSUME NEW c \in Symbols PROVE ElementsApart(c)
  BY SymbolAt, ElementInside DEF ElementsApart
<1>2. ASSUME ~lost, NEW c \in Symbols, NEW x \in Stores(At(c))
      PROVE  /\ ~Overlap(x, SavedRegs)
             /\ \A b \in Symbols : b # c => ~Overlap(x, Owned(At(b)))
             /\ ByLabel(At(c)) => x.hi <= At(c).w
  <2>1. At(c) \in Sym /\ SymbolOK(At(c), c[1], proc, descs, lost)
    BY SymbolAt
  <2>2. Inside(x, At(c)) /\ Bytes(x) /\ Bytes(Owned(At(c)))
    BY <1>2, <2>1, StoresInside, OwnedBytes
  <2>3. ~Overlap(Owned(At(c)), SavedRegs)
    <3>1. CASE ByLabel(At(c))
      BY <3>1, OwnedAt, PlacesDiffer DEF Overlap, SavedRegs
    <3>2. CASE ~ByLabel(At(c))
      <4>1. At(c) = scopes[2][c[2]] /\ c[2] \in 1 .. Len(scopes[2]) /\ Depth = 2
        BY <3>2, FrameSymbol, SymbolAt
      <4> QED BY <3>2, <4>1 DEF SlotsDisjoint
    <3> QED BY <3>1, <3>2
  <2>4. Bytes(SavedRegs)
    BY DEF Bytes, SavedRegs, ParamBase
  <2>5. ~Overlap(x, SavedRegs)
    BY <2>2, <2>3, <2>4, InsideApart
  <2>6. ASSUME NEW b \in Symbols, b # c PROVE ~Overlap(x, Owned(At(b)))
    <3>1. ~Overlap(Owned(At(c)), Owned(At(b))) /\ Bytes(Owned(At(b)))
      BY <2>6, OwnedApart, SymbolAt, OwnedBytes
    <3> QED BY <2>2, <3>1, InsideApart
  <2>7. ASSUME ByLabel(At(c)) PROVE x.hi <= At(c).w
    <3>1. ~At(c).param
      BY <2>1, <2>7, SymbolAt DEF SymbolOK, ByLabel
    <3>2. Owned(At(c)).hi = 0 + 0 + At(c).w /\ At(c).w \in Nat
      BY <2>1, <2>7, <3>1 DEF Owned, Extent, Base, Sym
    <3> QED BY <2>2, <3>2 DEF Inside, Bytes
  <2> QED BY <2>5, <2>6, <2>7
<1> QED BY <1>1, <1>2 DEF AssignmentsStayPut

(* If no declaration is of two bytes, an empty record, an array of records *)
(* or BASED or EXTERNAL, and no name is the label PROC__VAR of a static,   *)
(* then no assignment of any body changes a byte of another variable or    *)
(* element or of the saved registers (cg_store_var, cg_array_store,        *)
(* cg_field_store, layout_proc).                                           *)
THEOREM StorageStoresStayPut ==
  ASSUME \A d \in Decls : Ordinary(d), NoNameIsLabel
  PROVE  Spec => []AssignmentsStayPut
<1>1. Init => TypeOK /\ FrameInv /\ PlaceInv
  <2>1. Init => TypeOK /\ FrameInv
    BY StorageInit DEF Init, FrameInv, InProc
  <2>2. Init => PlaceInv
    BY DEF Init, PlaceInv, ScopeOK
  <2> QED BY <2>1, <2>2
<1>2. (TypeOK /\ FrameInv /\ PlaceInv) /\ [Next]_vars => (TypeOK /\ FrameInv /\ PlaceInv)'
  BY StorageStep, FrameStep, PlaceStep
<1>3. TypeOK /\ FrameInv /\ PlaceInv => AssignmentsStayPut
  BY FrameDisjoint, StoresStayPut
<1> QED BY <1>1, <1>2, <1>3, PTL DEF Spec
-----------------------------------------------------------------------------
(* Static data *)

Entry == [label : Labels, sz : Nat]

(* A list of data with the labels L and no others, each once.              *)
Once(list, L) ==
  /\ list \in Seq(Entry)
  /\ \A i, j \in 1 .. Len(list) : list[i].label = list[j].label => i = j
  /\ \A l : l \in L <=> \E i \in 1 .. Len(list) : list[i].label = l

LEMMA OnceNone ==
  Once(<<>>, {})
BY DEF Once

LEMMA OnceAppended ==
  ASSUME NEW list, NEW L, Once(list, L), NEW x \in Entry, x.label \notin L
  PROVE  Once(Append(list, x), L \cup {x.label})
<1>1. list \in Seq(Entry) /\ Len(list) \in Nat
  BY DEF Once
<1>2. Append(list, x) \in Seq(Entry) /\ Len(Append(list, x)) = Len(list) + 1
  BY <1>1
<1>3. /\ \A i \in 1 .. Len(list) : Append(list, x)[i] = list[i]
      /\ Append(list, x)[Len(list) + 1] = x
  BY <1>1, PushedFirst, PushedLast
<1>4. \A i \in 1 .. Len(list) : list[i].label # x.label
  BY DEF Once
<1> DEFINE new == Append(list, x)
<1>5. /\ new \in Seq(Entry) /\ Len(new) = Len(list) + 1
      /\ \A i \in 1 .. Len(list) : new[i] = list[i]
      /\ new[Len(list) + 1] = x
  BY <1>2, <1>3
<1> HIDE DEF new
<1>6. \A i, j \in 1 .. Len(new) : new[i].label = new[j].label => i = j
  BY <1>1, <1>4, <1>5 DEF Once
<1>7. ASSUME NEW l PROVE l \in L \cup {x.label} <=> \E i \in 1 .. Len(new) : new[i].label = l
  BY <1>1, <1>5 DEF Once
<1>8. Once(new, L \cup {x.label})
  BY <1>5, <1>6, <1>7 DEF Once
<1> QED BY <1>8 DEF new

LEMMA OnceJoined ==
  ASSUME NEW list, NEW more, NEW L, NEW M, Once(list, L), Once(more, M), L \cap M = {}
  PROVE  Once(list \o more, L \cup M)
<1> DEFINE new == list \o more
<1>1. list \in Seq(Entry) /\ more \in Seq(Entry) /\ Len(list) \in Nat /\ Len(more) \in Nat
  BY DEF Once
<1>2. /\ new \in Seq(Entry) /\ Len(new) = Len(list) + Len(more)
      /\ \A i \in 1 .. Len(list) : new[i] = list[i]
      /\ \A i \in 1 .. Len(more) : new[Len(list) + i] = more[i]
  BY <1>1
<1> HIDE DEF new
<1>3. \A i \in 1 .. Len(new) :
        \/ i \in 1 .. Len(list) /\ new[i] = list[i]
        \/ i - Len(list) \in 1 .. Len(more) /\ new[i] = more[i - Len(list)]
  <2> SUFFICES ASSUME NEW i \in 1 .. Len(new), i \notin 1 .. Len(list)
               PROVE  i - Len(list) \in 1 .. Len(more) /\ new[i] = more[i - Len(list)]
    BY <1>2
  <2>1. i - Len(list) \in 1 .. Len(more) /\ Len(list) + (i - Len(list)) = i
    BY <1>1, <1>2
  <2> QED BY <1>2, <2>1
<1>4. /\ \A i \in 1 .. Len(list) : list[i].label \in L
      /\ \A i \in 1 .. Len(more) : more[i].label \in M
  BY DEF Once
<1>5. ASSUME NEW i \in 1 .. Len(new), NEW j \in 1 .. Len(new), new[i].label = new[j].label
      PROVE  i = j
  <2>1. CASE i \in 1 .. Len(list) /\ j \in 1 .. Len(list)
    BY <1>2, <1>5, <2>1 DEF Once
  <2>2. CASE i \notin 1 .. Len(list) /\ j \notin 1 .. Len(list)
    <3>1. /\ i - Len(list) \in 1 .. Len(more) /\ new[i] = more[i - Len(list)]
          /\ j - Len(list) \in 1 .. Len(more) /\ new[j] = more[j - Len(list)]
      BY <1>3, <2>2
    <3>2. i - Len(list) = j - Len(list)
      BY <1>5, <3>1 DEF Once
    <3> QED BY <1>1, <3>2
  <2>3. CASE i \in 1 .. Len(list) /\ j \notin 1 .. Len(list)
    BY <1>2, <1>3, <1>4, <1>5, <2>3
  <2>4. CASE i \notin 1 .. Len(list) /\ j \in 1 .. Len(list)
    BY <1>2, <1>3, <1>4, <1>5, <2>4
  <2> QED BY <2>1, <2>2, <2>3, <2>4
<1>6. ASSUME NEW l PROVE l \in L \cup M <=> \E i \in 1 .. Len(new) : new[i].label = l
  <2>1. ASSUME l \in L PROVE \E i \in 1 .. Len(new) : new[i].label = l
    <3>1. PICK i \in 1 .. Len(list) : list[i].label = l
      BY <2>1 DEF Once
    <3>2. i \in 1 .. Len(new) /\ new[i].label = l
      BY <1>1, <1>2, <3>1
    <3> QED BY <3>2
  <2>2. ASSUME l \in M PROVE \E i \in 1 .. Len(new) : new[i].label = l
    <3>1. PICK i \in 1 .. Len(more) : more[i].label = l
      BY <2>2 DEF Once
    <3>2. Len(list) + i \in 1 .. Len(new) /\ new[Len(list) + i].label = l
      BY <1>1, <1>2, <3>1
    <3> QED BY <3>2
  <2>3. ASSUME NEW i \in 1 .. Len(new), new[i].label = l PROVE l \in L \cup M
    BY <1>3, <1>4, <2>3
  <2> QED BY <2>1, <2>2, <2>3
<1>7. Once(new, L \cup M)
  BY <1>2, <1>5, <1>6 DEF Once
<1> QED BY <1>7 DEF new

(* The data of the first n of a list of declarations: e, where yes.        *)
Gathers(out, yes, e, n) ==
  out = [k \in 0 .. n |-> IF k = 0 THEN <<>>
                          ELSE IF yes[k] THEN Append(out[k - 1], e[k]) ELSE out[k - 1]]

LEMMA GathersExist ==
  ASSUME NEW n \in Nat, NEW yes, NEW e
  PROVE  \E out : Gathers(out, yes, e, n)
<1> DEFINE Good(m) == \E out : Gathers(out, yes, e, m)
           Bad == {m \in Nat : ~Good(m)}
<1> SUFFICES ASSUME ~Good(n) PROVE FALSE
  OBVIOUS
<1>1. PICK m \in Bad : \A k \in Bad : m <= k
  <2>1. n \in Bad /\ Bad \subseteq Nat
    OBVIOUS
  <2> HIDE DEF Bad
  <2> QED BY <2>1, NatLeast
<1>2. m \in Nat /\ ~Good(m) /\ \A k \in Nat : k < m => Good(k)
  BY <1>1
<1> HIDE DEF Bad
<1>3. CASE m = 0
  <2> DEFINE out == [k \in 0 .. 0 |-> <<>>]
  <2>1. Gathers(out, yes, e, 0)
    BY DEF Gathers
  <2> QED BY <1>2, <1>3, <2>1
<1>4. CASE m # 0
  <2>1. m - 1 \in Nat /\ m - 1 < m
    BY <1>2, <1>4
  <2>2. PICK f : Gathers(f, yes, e, m - 1)
    BY <1>2, <2>1
  <2> DEFINE top == IF yes[m] THEN Append(f[m - 1], e[m]) ELSE f[m - 1]
             out == [k \in 0 .. m |-> IF k = m THEN top ELSE f[k]]
  <2>3. ASSUME NEW k \in 0 .. m
        PROVE  out[k] = IF k = 0 THEN <<>>
                        ELSE IF yes[k] THEN Append(out[k - 1], e[k]) ELSE out[k - 1]
    <3>1. CASE k = m
      <4>1. out[m] = top /\ out[m - 1] = f[m - 1]
        BY <1>2, <1>4
      <4> HIDE DEF out
      <4> QED BY <1>4, <3>1, <4>1 DEF top
    <3>2. CASE k # m
      <4>1. k \in 0 .. m - 1 /\ out[k] = f[k] /\ (k # 0 => k - 1 \in 0 .. m /\ out[k - 1] = f[k - 1])
        BY <1>2, <3>2
      <4>2. f[k] = IF k = 0 THEN <<>>
                   ELSE IF yes[k] THEN Append(f[k - 1], e[k]) ELSE f[k - 1]
        BY <2>2, <4>1 DEF Gathers
      <4> HIDE DEF out
      <4> QED BY <4>1, <4>2
    <3> QED BY <3>1, <3>2
  <2>4. Gathers(out, yes, e, m)
    BY <2>3 DEF Gathers
  <2> QED BY <1>2, <2>4
<1> QED BY <1>3, <1>4

(* Where the entries chosen have labels of their own, each is gathered     *)
(* once.                                                                   *)
Proper(yes, e, n) ==
  /\ \A k \in 1 .. n : yes[k] => e[k] \in Entry
  /\ \A j, k \in 1 .. n : yes[j] /\ yes[k] /\ e[j].label = e[k].label => j = k
LabelsUpTo(yes, e, n) == {e[k].label : k \in {j \in 1 .. n : yes[j]}}

LEMMA GathersOnce ==
  ASSUME NEW n \in Nat, NEW yes, NEW e, NEW out, Gathers(out, yes, e, n), Proper(yes, e, n)
  PROVE  Once(out[n], LabelsUpTo(yes, e, n))
<1> DEFINE L(m) == LabelsUpTo(yes, e, m)
           Good(m) == Once(out[m], L(m))
           Bad == {m \in 0 .. n : ~Good(m)}
<1>0. n \in 0 .. n /\ Bad \subseteq Nat
  OBVIOUS
<1> SUFFICES ASSUME n \in Bad PROVE FALSE
  <2>1. Good(n) <=> n \notin Bad
    BY <1>0
  <2> HIDE DEF Bad
  <2> QED BY <2>1
<1>1. PICK m \in Bad : \A k \in Bad : m <= k
  <2> HIDE DEF Bad
  <2> QED BY <1>0, NatLeast
<1>2. m \in 0 .. n /\ ~Good(m) /\ \A k \in 0 .. n : k < m => Good(k)
  <2>1. m \in Bad
    BY <1>1
  <2>2. \A k \in 0 .. n : k < m => k \notin Bad
    BY <1>0, <1>1
  <2> HIDE DEF Good
  <2> QED BY <2>1, <2>2
<1> HIDE DEF Bad
<1>9. /\ out[0] = <<>>
      /\ \A k \in 1 .. n : out[k] = IF yes[k] THEN Append(out[k - 1], e[k]) ELSE out[k - 1]
  <2>1. out = [k \in 0 .. n |-> IF k = 0 THEN <<>>
                               ELSE IF yes[k] THEN Append(out[k - 1], e[k]) ELSE out[k - 1]]
    BY DEF Gathers
  <2>2. 0 \in 0 .. n /\ \A k \in 1 .. n : k \in 0 .. n /\ k # 0
    OBVIOUS
  <2> QED BY <2>1, <2>2, Zenon
<1>3. CASE m = 0
  <2>1. out[0] = <<>>
    BY <1>9
  <2>2. L(0) = {}
    BY DEF LabelsUpTo
  <2> QED BY <1>2, <1>3, <2>1, <2>2, OnceNone
<1>4. CASE m # 0
  <2>1. m \in 1 .. n /\ m - 1 \in 0 .. n /\ m - 1 < m
    BY <1>2, <1>4
  <2>2. Once(out[m - 1], L(m - 1))
    BY <1>2, <2>1
  <2>3. out[m] = IF yes[m] THEN Append(out[m - 1], e[m]) ELSE out[m - 1]
    BY <1>9, <2>1, Zenon
  <2>4. CASE yes[m]
    <3>1. L(m) = L(m - 1) \cup {e[m].label}
      <4>1. {k \in 1 .. m : yes[k]} = {k \in 1 .. m - 1 : yes[k]} \cup {m}
        BY <2>1, <2>4
      <4> QED BY <4>1 DEF LabelsUpTo
    <3>2. e[m].label \notin L(m - 1) /\ e[m] \in Entry
      BY <2>1, <2>4 DEF Proper, LabelsUpTo
    <3> HIDE DEF L
    <3> QED BY <1>2, <2>1, <2>2, <2>3, <2>4, <3>1, <3>2, OnceAppended
  <2>5. CASE ~yes[m]
    <3>1. L(m) = L(m - 1)
      <4>1. {k \in 1 .. m : yes[k]} = {k \in 1 .. m - 1 : yes[k]}
        BY <2>1, <2>5
      <4> QED BY <4>1 DEF LabelsUpTo
    <3> HIDE DEF L
    <3> QED BY <1>2, <2>2, <2>3, <2>5, <3>1
  <2> QED BY <2>4, <2>5
<1> QED BY <1>3, <1>4

(* What the walk of declarations emits, if each chosen one has a symbol    *)
(* and no two have one label.                                              *)
Labelled(ds, chosen, label) ==
  /\ \A k \in chosen : /\ Resolves(ds[k].n) /\ DataEntry(ds[k]) \in Entry
                       /\ Lookup(ds[k].n).label = label[k]
  /\ \A j, k \in chosen : label[j] = label[k] => j = k
LabelsOf(label, chosen) == {label[k] : k \in chosen}

LEMMA DataOnce ==
  ASSUME NEW ds, Len(ds) \in Nat, NEW chosen, chosen \subseteq 1 .. Len(ds), NEW label,
         Labelled(ds, chosen, label)
  PROVE  Once(DataOf(ds, chosen), LabelsOf(label, chosen))
<1> DEFINE n == Len(ds)
           yes == [k \in 1 .. n |-> k \in chosen /\ Resolves(ds[k].n)]
           e == [k \in 1 .. n |-> DataEntry(ds[k])]
           Walk(out) == out = [k \in 0 .. n |->
                          IF k = 0 THEN <<>>
                          ELSE IF k \in chosen /\ Resolves(ds[k].n)
                               THEN Append(out[k - 1], DataEntry(ds[k])) ELSE out[k - 1]]
<1>1. ASSUME NEW out PROVE Walk(out) <=> Gathers(out, yes, e, n)
  <2>1. [k \in 0 .. n |-> IF k = 0 THEN <<>>
                          ELSE IF k \in chosen /\ Resolves(ds[k].n)
                               THEN Append(out[k - 1], DataEntry(ds[k])) ELSE out[k - 1]]
        = [k \in 0 .. n |-> IF k = 0 THEN <<>>
                          ELSE IF yes[k] THEN Append(out[k - 1], e[k]) ELSE out[k - 1]]
    <3>1. \A k \in 1 .. n : (yes[k] <=> k \in chosen /\ Resolves(ds[k].n)) /\ e[k] = DataEntry(ds[k])
      OBVIOUS
    <3>2. \A k \in 0 .. n : k # 0 => k \in 1 .. n
      OBVIOUS
    <3> HIDE DEF yes, e
    <3> QED BY <3>1, <3>2
  <2> QED BY <2>1, Zenon DEF Gathers
<1>2. \E out : Walk(out)
  <2>1. n \in Nat
    OBVIOUS
  <2>2. \E out : Gathers(out, yes, e, n)
    BY <2>1, GathersExist, Zenon
  <2> QED BY <1>1, <2>2, Zenon
<1> DEFINE out == CHOOSE out : Walk(out)
<1>3. Walk(out)
  BY <1>2, Zenon
<1>4. DataOf(ds, chosen) = out[n]
  BY DEF DataOf
<1>5. Gathers(out, yes, e, n)
  BY <1>1, <1>3, Zenon
<1>6. /\ \A k \in 1 .. n : yes[k] <=> k \in chosen
      /\ \A k \in chosen : e[k] \in Entry /\ e[k].label = label[k]
      /\ \A j, k \in chosen : label[j] = label[k] => j = k
  BY DEF DataEntry, Labelled
<1> HIDE DEF yes, e, out, Walk
<1>7. /\ \A k \in 1 .. n : yes[k] => e[k] \in Entry
      /\ \A j, k \in 1 .. n : yes[j] /\ yes[k] /\ e[j].label = e[k].label => j = k
  BY <1>6
<1>8. Once(out[n], LabelsUpTo(yes, e, n))
  <2>1. n \in Nat
    OBVIOUS
  <2> HIDE DEF n
  <2>2. Proper(yes, e, n)
    BY <1>7 DEF Proper
  <2> QED BY <1>5, <2>1, <2>2, GathersOnce, Zenon
<1>9. LabelsUpTo(yes, e, n) = LabelsOf(label, chosen)
  <2>1. {k \in 1 .. n : yes[k]} = chosen
    BY <1>6
  <2> QED BY <2>1, <1>6 DEF LabelsUpTo, LabelsOf
<1> QED BY <1>4, <1>8, <1>9

(* The symbol of a name that the innermost scope has is one of it.         *)
LEMMA LookupCurrent ==
  ASSUME NEW k, k = Len(scopes), k \in {1, 2}, NEW n, Has(scopes[k], n)
  PROVE  /\ Resolves(n)
         /\ \E i \in 1 .. Len(scopes[k]) : scopes[k][i].n = n /\ Lookup(n) = scopes[k][i]
<1>1. k \in Holding(n) /\ \A e \in Holding(n) : e <= k
  <2>1. k \in 1 .. k /\ \A e \in 1 .. k : e <= k
    OBVIOUS
  <2> QED BY <2>1, InScopeHas DEF Holding, Depth
<1> DEFINE top == CHOOSE d \in Holding(n) : \A e \in Holding(n) : e <= d
<1>2. top \in Holding(n) /\ \A e \in Holding(n) : e <= top
  BY <1>1
<1> HIDE DEF top
<1>3. top = k
  <2>1. top <= k /\ k <= top /\ top \in 1 .. k
    BY <1>1, <1>2 DEF Holding, Depth
  <2> QED BY <2>1
<1> DEFINE j == CHOOSE i \in InScope(scopes[top], n) : TRUE
<1>4. j \in InScope(scopes[top], n)
  BY <1>3, InScopeHas
<1>5. Lookup(n) = scopes[top][j]
  BY DEF Lookup, top
<1> HIDE DEF j
<1> QED BY <1>1, <1>3, <1>4, <1>5 DEF Resolves, InScope

LEMMA EntryTypes ==
  ASSUME NEW d, d.init \in BOOLEAN, Lookup(d.n) \in Sym
  PROVE  DataEntry(d) \in Entry
BY DEF DataEntry, DataSize, Entry, Sym

Calm == ~refused /\ ~lost
Distinct(ds) == \A i, j \in 1 .. Len(ds) : ds[i].n = ds[j].n => i = j

(* While every declaration had its way: each is the only one of its name,  *)
(* and its symbol has the label that its place and class give.             *)
LabelInv ==
  Calm =>
    /\ Distinct(globals) /\ Distinct(locals)
    /\ \A i \in 1 .. Len(scopes[1]) : scopes[1][i].label = scopes[1][i].n
    /\ InProc =>
         \A k \in 1 .. Len(locals) :
           locals[k].stor = "STATIC" =>
             \A i \in 1 .. Len(scopes[2]) :
               scopes[2][i].n = locals[k].n => scopes[2][i].label = Mangle(proc, locals[k].n)

(* The labels of the globals, of the STATIC locals of the procedure, and   *)
(* those a procedure walked before can have.                               *)
GlobalLabels == {globals[k].n : k \in 1 .. Len(globals)}
StaticLocals == {k \in 1 .. Len(locals) : locals[k].stor = "STATIC"}
OwnLabels == {Mangle(proc, locals[k].n) : k \in StaticLocals}
Left == IF InProc THEN nprocs - 1 ELSE nprocs
LeftLabels == {Mangle(Procs[i], n) : i \in 1 .. Left, n \in Names}

(* What is in .data is the statics of the procedures left, each once; what *)
(* is not there yet is the procedure's own and the globals.                *)
DataInv ==
  /\ ~naked /\ (InProc => nprocs >= 1 /\ proc = Procs[nprocs])
  /\ Calm /\ phase # "done" =>
       \E past \in SUBSET LeftLabels :
         Once(data, past) /\ named \subseteq past \cup GlobalLabels \cup OwnLabels
  /\ Calm /\ phase = "done" /\ ~Library => \E all : Once(data, all) /\ named \subseteq all

(* A declaration that left all calm was inserted, under a name that the    *)
(* scope did not have.                                                     *)
LEMMA CalmInserts ==
  ASSUME TypeOK, NEW n, NEW b, Outcome(n, b), Calm'
  PROVE  Calm /\ Inserts(n) /\ ~Has(scopes[Len(scopes)], n)
<1>1. ~lost' /\ ~refused'
  BY DEF Calm
<1>2. ~lost /\ Len(Current) < ScopeMax
  BY <1>1, KeptOutcome
<1>3. ~refused /\ InScope(Current, n) = {}
  <2>1. refused' = (refused \/ InScope(Current, n) # {})
    BY DEF Outcome
  <2> QED BY <1>1, <2>1, Zenon
<1>4. ~Has(scopes[Len(scopes)], n)
  BY <1>3, InScopeHas DEF Current, Depth
<1> QED BY <1>2, <1>3, <1>4 DEF Calm, Inserts

LEMMA DistinctAppended ==
  ASSUME NEW S, NEW ds \in Seq(S), NEW d \in S, Distinct(ds), ~Has(ds, d.n)
  PROVE  Distinct(Append(ds, d))
<1>1. Len(Append(ds, d)) = Len(ds) + 1 /\ Len(ds) \in Nat
  OBVIOUS
<1>2. /\ \A i \in 1 .. Len(ds) : Append(ds, d)[i] = ds[i]
      /\ Append(ds, d)[Len(ds) + 1] = d
  BY PushedFirst, PushedLast
<1> DEFINE new == Append(ds, d)
<1>3. /\ Len(new) = Len(ds) + 1 /\ Len(ds) \in Nat
      /\ \A i \in 1 .. Len(ds) : new[i] = ds[i]
      /\ new[Len(ds) + 1] = d
  BY <1>1, <1>2
<1> HIDE DEF new
<1>4. Distinct(new)
  BY <1>3 DEF Distinct, Has
<1> QED BY <1>4 DEF new

LEMMA GlobalLabelsKept ==
  ASSUME TypeOK, NameInv, LabelInv, NEW d \in Decls, LayoutGlobal(d)
  PROVE  LabelInv'
<1> SUFFICES ASSUME Calm' PROVE LabelInv'
  BY DEF LabelInv
<1> DEFINE stor == IF d.stor = "AUTO" THEN "STATIC" ELSE d.stor
           sym == Symbol(d, stor, staticNext, d.n)
<1>1. /\ Len(scopes) = 1 /\ ScopeTypes /\ LayoutTypes /\ staticNext \in Int /\ d.n \in Names
      /\ globals' = Append(globals, d) /\ locals' = locals /\ ~InProc' /\ globals \in Seq(Decls)
  BY DeclTypes DEF LayoutGlobal, TypeOK, DepthOK, InProc, LayoutTypes, NameInv
<1>2. Calm /\ Inserts(d.n) /\ ~Has(scopes[1], d.n)
  BY <1>1, CalmInserts DEF LayoutGlobal
<1>3. ~Has(globals, d.n)
  BY <1>2 DEF NameInv, Calm
<1>4. Distinct(globals') /\ Distinct(locals')
  BY <1>1, <1>2, <1>3, DistinctAppended DEF LabelInv
<1>5. sym \in Sym /\ sym.label = sym.n
  <2>1. stor \in Classes
    BY DeclTypes DEF Classes
  <2> HIDE DEF stor
  <2>2. sym.label = sym.n
    BY DEF Symbol
  <2> QED BY <1>1, <2>1, <2>2, DeclTypes, SymbolTypes
<1>6. Insert(sym)
  BY <1>2 DEF LayoutGlobal
<1> HIDE DEF sym
<1>7. scopes'[1] = Append(scopes[1], sym) /\ scopes[1] \in Seq(Sym)
  BY <1>1, <1>2, <1>5, <1>6, InsertTypes DEF ScopeTypes
<1>8. \A i \in 1 .. Len(scopes'[1]) : scopes'[1][i].label = scopes'[1][i].n
  <2>1. /\ Len(scopes'[1]) = Len(scopes[1]) + 1 /\ Len(scopes[1]) \in Nat
        /\ \A i \in 1 .. Len(scopes[1]) : scopes'[1][i] = scopes[1][i]
        /\ scopes'[1][Len(scopes[1]) + 1] = sym
    BY <1>5, <1>7, PushedFirst, PushedLast
  <2>2. \A i \in 1 .. Len(scopes[1]) : scopes[1][i].label = scopes[1][i].n
    BY <1>2 DEF LabelInv
  <2>3. ASSUME NEW i \in 1 .. Len(scopes'[1])
        PROVE  i \in 1 .. Len(scopes[1]) \/ i = Len(scopes[1]) + 1
    BY <2>1
  <2> QED BY <1>5, <2>1, <2>2, <2>3
<1> QED BY <1>1, <1>4, <1>8 DEF LabelInv

(* In a procedure: the scope and the declarations grow by one of each.     *)
LEMMA InnerLabelsKept ==
  ASSUME TypeOK, NameInv, LabelInv, InProc, InProc', Calm', NEW decl \in LocalDecl, NEW sym \in Sym, NEW b,
         Outcome(decl.n, b), Insert(sym), sym.n = decl.n,
         decl.stor = "STATIC" => sym.label = Mangle(proc, decl.n),
         locals' = Append(locals, decl), globals' = globals, proc' = proc
  PROVE  LabelInv'
<1>1. /\ Len(scopes) = 2 /\ ScopeTypes /\ locals \in Seq(LocalDecl) /\ scopes \in Seq(Seq(Sym))
  BY DEF TypeOK, DepthOK, WalkTypes, ScopeTypes
<1>2. Calm /\ Inserts(decl.n) /\ ~Has(scopes[2], decl.n)
  BY <1>1, CalmInserts
<1>3. ~Has(locals, decl.n)
  BY <1>2 DEF NameInv, Calm
<1>4. Distinct(globals') /\ Distinct(locals')
  BY <1>1, <1>2, <1>3, DistinctAppended DEF LabelInv
<1>5. scopes'[1] = scopes[1] /\ scopes'[2] = Append(scopes[2], sym) /\ scopes[2] \in Seq(Sym)
  BY <1>1, <1>2, InsertTypes
<1>6. /\ Len(scopes'[2]) = Len(scopes[2]) + 1 /\ Len(scopes[2]) \in Nat
      /\ \A i \in 1 .. Len(scopes[2]) : scopes'[2][i] = scopes[2][i]
      /\ scopes'[2][Len(scopes[2]) + 1] = sym
  BY <1>5, PushedFirst, PushedLast
<1>7. /\ Len(locals') = Len(locals) + 1 /\ Len(locals) \in Nat
      /\ \A k \in 1 .. Len(locals) : locals'[k] = locals[k]
      /\ locals'[Len(locals) + 1] = decl
  BY <1>1, PushedFirst, PushedLast
<1>8. ASSUME NEW k \in 1 .. Len(locals'), locals'[k].stor = "STATIC",
             NEW i \in 1 .. Len(scopes'[2]), scopes'[2][i].n = locals'[k].n
      PROVE  scopes'[2][i].label = Mangle(proc, locals'[k].n)
  <2>1. CASE k \in 1 .. Len(locals) /\ i \in 1 .. Len(scopes[2])
    BY <1>2, <1>6, <1>7, <1>8, <2>1 DEF LabelInv
  <2>2. CASE k \in 1 .. Len(locals) /\ i \notin 1 .. Len(scopes[2])
    <3>1. locals[k].n = decl.n
      BY <1>6, <1>7, <1>8, <2>2
    <3> QED BY <1>3, <2>2, <3>1 DEF Has
  <2>3. CASE k \notin 1 .. Len(locals) /\ i \in 1 .. Len(scopes[2])
    <3>1. scopes'[2][i] = scopes[2][i] /\ locals'[k] = decl
      BY <1>6, <1>7, <2>3
    <3>2. scopes[2][i].n = decl.n
      BY <1>8, <3>1
    <3> QED BY <1>2, <2>3, <3>2 DEF Has
  <2>4. CASE k \notin 1 .. Len(locals) /\ i \notin 1 .. Len(scopes[2])
    <3>1. locals'[k] = decl /\ scopes'[2][i] = sym
      BY <1>6, <1>7, <2>4
    <3> QED BY <1>8, <3>1
  <2> QED BY <2>1, <2>2, <2>3, <2>4
<1> QED BY <1>2, <1>4, <1>5, <1>8 DEF LabelInv

LEMMA LabelStep ==
  ASSUME TypeOK, NameInv, LabelInv, [Next]_vars
  PROVE  LabelInv'
<1>1. ASSUME NEW p \in Params, LayoutParam(p) PROVE LabelInv'
  <2> SUFFICES ASSUME Calm' PROVE LabelInv'
    BY DEF LabelInv
  <2> DEFINE decl == [n |-> p.n, stor |-> "AUTO", param |-> TRUE, init |-> FALSE]
             sym == [n |-> p.n, ty |-> p.ty, dim |-> 0, w |-> TypeWidth(p.ty),
                     stor |-> "AUTO", off |-> ParamBase + Slot * Len(locals), td |-> 0,
                     label |-> p.n, param |-> TRUE]
  <2>1. /\ InProc /\ InProc' /\ locals' = Append(locals, decl) /\ globals' = globals
        /\ proc' = proc /\ Outcome(p.n, TRUE) /\ locals \in Seq(LocalDecl)
    BY <1>1 DEF LayoutParam, InProc, TypeOK, WalkTypes
  <2>2. decl \in LocalDecl /\ decl.n = p.n /\ decl.stor # "STATIC"
    BY ParamTypes DEF LocalDecl, Classes
  <2>3. sym \in Sym /\ sym.n = p.n
    <3>1. Len(locals) \in Nat
      BY <2>1
    <3>2. ParamBase + Slot * Len(locals) \in Int
      BY <3>1 DEF ParamBase, Slot
    <3> QED BY <3>2, ParamTypes DEF Sym, Classes
  <2>4. Insert(sym)
    <3>1. Inserts(p.n)
      BY <2>1, CalmInserts
    <3> QED BY <1>1, <3>1 DEF LayoutParam
  <2> HIDE DEF decl, sym
  <2> QED BY <2>1, <2>2, <2>3, <2>4, InnerLabelsKept
<1>2. ASSUME NEW d \in Decls, LayoutLocal(d) PROVE LabelInv'
  <2> SUFFICES ASSUME Calm' PROVE LabelInv'
    BY DEF LabelInv
  <2>1. /\ InProc /\ InProc' /\ locals' = Append(locals, Local(d)) /\ globals' = globals
        /\ proc' = proc /\ Outcome(d.n, d.ty = "RECORD" => HasRoom)
        /\ LayoutTypes /\ proc \in Names
    BY <1>2 DEF LayoutLocal, InProc, TypeOK, WalkTypes
  <2>2. Local(d) \in LocalDecl /\ Local(d).n = d.n /\ Local(d).stor = d.stor
    BY DeclTypes DEF Local, LocalDecl
  <2>3. Inserts(d.n)
    BY <2>1, CalmInserts
  <2>4. PICK sym \in Sym : /\ Insert(sym) /\ sym.n = d.n
                           /\ d.stor = "STATIC" => sym.label = Mangle(proc, d.n)
    <3>1. CASE d.stor = "STATIC"
      <4> DEFINE sym == Symbol(d, "STATIC", staticNext, Mangle(proc, d.n))
      <4>1. Mangle(proc, d.n) \in Labels /\ staticNext \in Int /\ "STATIC" \in Classes
        BY LabelTypes, <2>1, DeclTypes DEF LayoutTypes, Classes
      <4>2. sym \in Sym /\ sym.n = d.n /\ sym.label = Mangle(proc, d.n)
        BY <2>1, <4>1, SymbolTypes DEF Symbol
      <4>3. Insert(sym)
        BY <1>2, <2>3, <3>1 DEF LayoutLocal
      <4> QED BY <4>2, <4>3
    <3>2. CASE d.stor # "STATIC"
      <4> DEFINE sym == Symbol(d, d.stor, 0 - FrameAfter(WidthNow(d)), d.n)
      <4>1. 0 - FrameAfter(WidthNow(d)) \in Int
        BY <2>1, DeclTypes DEF FrameAfter, LayoutTypes
      <4>2. sym \in Sym /\ sym.n = d.n
        BY <2>1, <4>1, DeclTypes, SymbolTypes DEF Symbol
      <4>3. Insert(sym)
        BY <1>2, <2>3, <3>2 DEF LayoutLocal
      <4> QED BY <3>2, <4>2, <4>3
    <3> QED BY <3>1, <3>2
  <2> QED BY <2>1, <2>2, <2>4, InnerLabelsKept
<1>3. ASSUME NEW bare \in Bare, EnterProc(bare) PROVE LabelInv'
  <2>1. scopes'[1] = scopes[1]
    BY <1>3, EnterScopes
  <2>2. /\ globals' = globals /\ lost' = lost /\ refused' = refused /\ locals' = locals
        /\ ~InProc
    BY <1>3 DEF EnterProc, InProc
  <2>3. locals' = <<>> /\ Len(locals') = 0
    BY <2>2 DEF NameInv
  <2> QED BY <2>1, <2>2, <2>3 DEF LabelInv, Calm, Distinct
<1>4. CASE LeaveProc
  <2>1. Len(scopes) = 2 /\ scopes \in Seq(Seq(Sym))
    BY <1>4 DEF LeaveProc, TypeOK, ScopeTypes, DepthOK, InProc
  <2>2. /\ scopes'[1] = scopes[1] /\ globals' = globals /\ lost' = lost /\ refused' = refused
        /\ ~InProc' /\ locals' = <<>> /\ Len(locals') = 0
    BY <1>4, <2>1 DEF LeaveProc, ExitScope, InProc
  <2> QED BY <2>2 DEF LabelInv, Calm, Distinct
<1>5. CASE UNCHANGED <<scopes, globals, locals, lost, refused, proc>> /\ (InProc' <=> InProc)
  <2>1. Calm' <=> Calm
    BY <1>5 DEF Calm
  <2> QED BY ZenonT(60), <1>5, <2>1 DEF LabelInv, Distinct
<1>6. CASE StartBody \/ EmitGlobals \/ UNCHANGED vars
  BY <1>5, <1>6 DEF StartBody, EmitGlobals, InProc, vars, walk
<1> QED BY <1>1, <1>2, <1>3, <1>4, <1>6, GlobalLabelsKept DEF Next, Finished

LEMMA OwnLabelsGrow ==
  ASSUME TypeOK, NEW decl \in LocalDecl, locals' = Append(locals, decl), proc' = proc
  PROVE  /\ OwnLabels \subseteq OwnLabels'
         /\ decl.stor = "STATIC" => Mangle(proc, decl.n) \in OwnLabels'
<1>1. /\ Len(locals') = Len(locals) + 1 /\ Len(locals) \in Nat
      /\ \A k \in 1 .. Len(locals) : locals'[k] = locals[k]
      /\ locals'[Len(locals) + 1] = decl
  BY PushedFirst, PushedLast DEF TypeOK, WalkTypes
<1>2. /\ StaticLocals \subseteq StaticLocals'
      /\ \A k \in StaticLocals : locals'[k] = locals[k]
      /\ decl.stor = "STATIC" => Len(locals) + 1 \in StaticLocals'
  BY <1>1 DEF StaticLocals
<1> QED BY <1>1, <1>2 DEF OwnLabels

LEMMA NoOwnLabels ==
  ASSUME locals = <<>>
  PROVE  OwnLabels = {}
BY DEF OwnLabels, StaticLocals

(* The labels of a procedure are not those of the ones before it.          *)
LEMMA LabelsApart ==
  ASSUME TypeOK, DataInv, InProc, LabelsTell,
         \A i, j \in DOMAIN Procs : Procs[i] = Procs[j] => i = j
  PROVE  LeftLabels \cap OwnLabels = {}
<1>1. /\ nprocs \in Nat /\ nprocs >= 1 /\ proc = Procs[nprocs] /\ DOMAIN Procs = 1 .. Len(Procs)
      /\ nprocs <= Len(Procs) /\ Len(Procs) \in Nat
  BY StorageLimits DEF TypeOK, WalkTypes, DataInv
<1>2. \A i \in 1 .. nprocs - 1 : Procs[i] # proc
  BY <1>1
<1>3. \A i \in 1 .. nprocs - 1 : Procs[i] \in Names
  BY <1>1, StorageLimits
<1>4. proc \in Names /\ \A k \in StaticLocals : locals[k].n \in Names
  <2>1. proc \in Names /\ locals \in Seq(LocalDecl)
    BY DEF TypeOK, WalkTypes
  <2>2. \A k \in 1 .. Len(locals) : locals[k] \in LocalDecl
    BY <2>1
  <2> QED BY <2>1, <2>2 DEF StaticLocals, LocalDecl
<1>5. ASSUME NEW i \in 1 .. nprocs - 1, NEW n \in Names, NEW k \in StaticLocals
      PROVE  Mangle(Procs[i], n) # Mangle(proc, locals[k].n)
  BY <1>2, <1>3, <1>4, <1>5 DEF LabelsTell, Mangle
<1> QED BY <1>5 DEF LeftLabels, Left, OwnLabels

LEMMA LeaveData ==
  ASSUME TypeOK, NameInv, LabelInv, DataInv, LeaveProc, LabelsTell,
         \A i, j \in DOMAIN Procs : Procs[i] = Procs[j] => i = j
  PROVE  DataInv'
<1>1. /\ phase = "body" /\ phase' = "between" /\ ~naked /\ naked' = naked /\ InProc /\ ~InProc'
      /\ data' = data \o DataOf(locals, {k \in DOMAIN locals : locals[k].stor = "STATIC"})
      /\ nprocs' = nprocs /\ globals' = globals /\ named' = named
      /\ refused' = refused /\ lost' = lost /\ locals' = <<>>
  BY DEF LeaveProc, DataInv, InProc
<1> SUFFICES ASSUME Calm
             PROVE  \E past \in SUBSET LeftLabels' :
                      Once(data', past) /\ named' \subseteq past \cup GlobalLabels' \cup OwnLabels'
  BY <1>1 DEF DataInv, Calm
<1>2. PICK past \in SUBSET LeftLabels :
        Once(data, past) /\ named \subseteq past \cup GlobalLabels \cup OwnLabels
  BY <1>1 DEF DataInv
<1>3. /\ Len(scopes) = 2 /\ locals \in Seq(LocalDecl) /\ Len(locals) \in Nat
      /\ DOMAIN locals = 1 .. Len(locals) /\ scopes[2] \in Seq(Sym)
  <2>1. Len(scopes) = 2 /\ locals \in Seq(LocalDecl) /\ scopes \in Seq(Seq(Sym))
    BY <1>1 DEF TypeOK, DepthOK, WalkTypes, ScopeTypes
  <2>2. 2 \in 1 .. Len(scopes)
    BY <2>1
  <2>3. scopes[2] \in Seq(Sym)
    <3>1. \A k \in 1 .. Len(scopes) : scopes[k] \in Seq(Sym)
      BY DEF TypeOK, ScopeTypes
    <3> QED BY <2>2, <3>1, Zenon
  <2>4. Len(locals) \in Nat /\ DOMAIN locals = 1 .. Len(locals)
    BY <2>1
  <2> QED BY <2>1, <2>3, <2>4
<1> DEFINE label == [k \in 1 .. Len(locals) |-> Mangle(proc, locals[k].n)]
<1>4. StaticLocals \subseteq 1 .. Len(locals)
  BY DEF StaticLocals
<1>5. ASSUME NEW k \in StaticLocals
      PROVE  /\ Resolves(locals[k].n) /\ DataEntry(locals[k]) \in Entry
             /\ Lookup(locals[k].n).label = label[k]
  <2>1. k \in 1 .. Len(locals) /\ locals[k].stor = "STATIC" /\ locals[k] \in LocalDecl
    BY <1>3 DEF StaticLocals
  <2>2. Has(locals, locals[k].n)
    BY <2>1 DEF Has
  <2>3. Has(scopes[2], locals[k].n)
    BY <1>1, <2>2 DEF NameInv, Calm
  <2>4. PICK i \in 1 .. Len(scopes[2]) :
          scopes[2][i].n = locals[k].n /\ Lookup(locals[k].n) = scopes[2][i]
    BY <1>3, <2>3, LookupCurrent
  <2>5. Resolves(locals[k].n)
    BY <1>3, <2>3, LookupCurrent
  <2>6. Lookup(locals[k].n) \in Sym /\ locals[k].init \in BOOLEAN
    BY <1>3, <2>1, <2>4 DEF LocalDecl
  <2>7. Lookup(locals[k].n).label = label[k]
    BY <1>1, <2>1, <2>4 DEF LabelInv
  <2> QED BY <2>5, <2>6, <2>7, EntryTypes
<1>6. ASSUME NEW j \in StaticLocals, NEW k \in StaticLocals, label[j] = label[k]
      PROVE  j = k
  <2>1. locals[j].n \in Names /\ locals[k].n \in Names /\ proc \in Names
    <3>1. locals[j] \in LocalDecl /\ locals[k] \in LocalDecl
      BY <1>3, <1>4
    <3> QED BY <1>1, <3>1 DEF LocalDecl, TypeOK, WalkTypes
  <2>3. locals[j].n = locals[k].n
    BY <1>4, <1>6, <2>1 DEF Mangle, LabelsTell
  <2> QED BY <1>4, <2>3 DEF LabelInv, Distinct
<1>7. LabelsOf(label, StaticLocals) = OwnLabels
  BY <1>4 DEF OwnLabels, LabelsOf
<1> HIDE DEF label
<1>8. Once(DataOf(locals, StaticLocals), OwnLabels)
  <2>1. Labelled(locals, StaticLocals, label)
    BY <1>5, <1>6 DEF Labelled
  <2>2. Once(DataOf(locals, StaticLocals), LabelsOf(label, StaticLocals))
    BY <1>3, <1>4, <2>1, DataOnce, Zenon
  <2> QED BY <1>7, <2>2
<1>9. StaticLocals = {k \in DOMAIN locals : locals[k].stor = "STATIC"}
  BY <1>3 DEF StaticLocals
<1>10. Once(data', past \cup OwnLabels)
  <2>1. past \cap OwnLabels = {}
    BY <1>1, <1>2, LabelsApart
  <2> QED BY <1>1, <1>2, <1>8, <1>9, <2>1, OnceJoined
<1>11. past \cup OwnLabels \subseteq LeftLabels'
  <2>1. nprocs \in Nat /\ nprocs >= 1 /\ proc = Procs[nprocs]
    BY <1>1 DEF DataInv, TypeOK, WalkTypes
  <2>2. LeftLabels' = {Mangle(Procs[i], n) : i \in 1 .. nprocs, n \in Names}
    BY <1>1 DEF LeftLabels, Left
  <2>3. LeftLabels = {Mangle(Procs[i], n) : i \in 1 .. nprocs - 1, n \in Names}
    BY <1>1 DEF LeftLabels, Left
  <2>4. LeftLabels \subseteq LeftLabels'
    BY <2>1, <2>2, <2>3
  <2>5. \A k \in StaticLocals : locals[k].n \in Names
    <3>1. \A k \in 1 .. Len(locals) : locals[k] \in LocalDecl
      BY <1>3
    <3> QED BY <1>4, <3>1 DEF LocalDecl
  <2>6. OwnLabels \subseteq LeftLabels'
    BY <2>1, <2>2, <2>5 DEF OwnLabels
  <2> QED BY <1>2, <2>4, <2>6
<1>12. GlobalLabels' = GlobalLabels
  BY <1>1 DEF GlobalLabels
<1>13. named' \subseteq (past \cup OwnLabels) \cup GlobalLabels' \cup OwnLabels'
  BY <1>1, <1>2, <1>12
<1> QED BY <1>10, <1>11, <1>13, Zenon

LEMMA EmitData ==
  ASSUME TypeOK, NameInv, LabelInv, DataInv, EmitGlobals, NoNameIsLabel
  PROVE  DataInv'
<1>1. /\ phase # "done" /\ phase' = "done" /\ ~naked /\ naked' = naked /\ ~InProc /\ ~InProc'
      /\ ~Library => data' = data \o DataOf(globals, DOMAIN globals)
      /\ named' = named /\ refused' = refused /\ lost' = lost
  BY DEF EmitGlobals, DataInv, InProc
<1> SUFFICES ASSUME Calm, ~Library
             PROVE  \E all : Once(data', all) /\ named' \subseteq all
  BY <1>1 DEF DataInv, Calm
<1>2. PICK past \in SUBSET LeftLabels :
        Once(data, past) /\ named \subseteq past \cup GlobalLabels \cup OwnLabels
  BY <1>1 DEF DataInv
<1>3. /\ Len(scopes) = 1 /\ globals \in Seq(Decls) /\ Len(globals) \in Nat
      /\ DOMAIN globals = 1 .. Len(globals) /\ scopes[1] \in Seq(Sym)
  <2>1. Len(scopes) = 1 /\ globals \in Seq(Decls) /\ scopes \in Seq(Seq(Sym))
    BY <1>1 DEF TypeOK, DepthOK, NameInv, ScopeTypes
  <2>2. scopes[1] \in Seq(Sym)
    <3>1. \A k \in 1 .. Len(scopes) : scopes[k] \in Seq(Sym)
      BY DEF TypeOK, ScopeTypes
    <3>2. 1 \in 1 .. Len(scopes)
      BY <2>1
    <3> QED BY <3>1, <3>2, Zenon
  <2> QED BY <2>1, <2>2
<1> DEFINE chosen == 1 .. Len(globals)
           label == [k \in chosen |-> globals[k].n]
<1>4. ASSUME NEW k \in chosen
      PROVE  /\ Resolves(globals[k].n) /\ DataEntry(globals[k]) \in Entry
             /\ Lookup(globals[k].n).label = label[k]
  <2>1. globals[k] \in Decls
    BY <1>3
  <2>2. Has(globals, globals[k].n)
    BY DEF Has
  <2>3. Has(scopes[1], globals[k].n)
    BY <2>2 DEF NameInv, Calm
  <2>4. PICK i \in 1 .. Len(scopes[1]) :
          scopes[1][i].n = globals[k].n /\ Lookup(globals[k].n) = scopes[1][i]
    BY <1>3, <2>3, LookupCurrent
  <2>5. Resolves(globals[k].n)
    BY <1>3, <2>3, LookupCurrent
  <2>6. Lookup(globals[k].n) \in Sym /\ globals[k].init \in BOOLEAN
    BY <1>3, <2>1, <2>4, DeclTypes
  <2>7. Lookup(globals[k].n).label = label[k]
    BY <2>4 DEF LabelInv
  <2> QED BY <2>5, <2>6, <2>7, EntryTypes
<1>5. ASSUME NEW j \in chosen, NEW k \in chosen, label[j] = label[k]
      PROVE  j = k
  BY <1>5 DEF LabelInv, Distinct
<1>6. LabelsOf(label, chosen) = GlobalLabels
  BY DEF GlobalLabels, LabelsOf
<1>7. chosen \subseteq 1 .. Len(globals) /\ chosen = DOMAIN globals
  BY <1>3
<1> HIDE DEF label, chosen
<1>8. Once(DataOf(globals, chosen), GlobalLabels)
  <2>1. Labelled(globals, chosen, label)
    BY <1>4, <1>5 DEF Labelled
  <2>2. Once(DataOf(globals, chosen), LabelsOf(label, chosen))
    BY <1>3, <1>7, <2>1, DataOnce, Zenon
  <2> QED BY <1>6, <2>2
<1>9. past \cap GlobalLabels = {}
  <2>1. past \cap Names = {}
    <3>1. \A i \in 1 .. Left : Procs[i] \in Names
      <4>1. nprocs \in 0 .. Len(Procs) /\ Left = nprocs /\ Procs \in Seq(Names)
        BY <1>1, StorageLimits DEF TypeOK, WalkTypes, Left
      <4> QED BY <4>1
    <3> QED BY <1>2, <3>1 DEF LeftLabels, Mangle, NoNameIsLabel
  <2>2. GlobalLabels \subseteq Names
    BY <1>3, DeclTypes DEF GlobalLabels
  <2> QED BY <2>1, <2>2
<1>10. Once(data', past \cup GlobalLabels)
  <2>1. data' = data \o DataOf(globals, chosen)
    BY <1>1, <1>7
  <2> QED BY <1>2, <1>8, <1>9, <2>1, OnceJoined
<1>11. OwnLabels = {}
  BY <1>1, NoOwnLabels DEF NameInv
<1> QED BY <1>1, <1>2, <1>10, <1>11

LEMMA DataStep ==
  ASSUME TypeOK, NameInv, LabelInv, DataInv, [Next]_vars, NoNameIsLabel, LabelsTell,
         Bare = {FALSE}, \A i, j \in DOMAIN Procs : Procs[i] = Procs[j] => i = j
  PROVE  DataInv'
<1>1. ASSUME NEW d \in Decls, LayoutGlobal(d) PROVE DataInv'
  <2>1. /\ phase = "globals" /\ phase' = "globals" /\ proc' = proc /\ naked' = naked
        /\ nprocs' = nprocs /\ locals' = locals /\ data' = data
        /\ globals' = Append(globals, d) /\ globals \in Seq(Decls)
        /\ named' \subseteq named \cup {d.n}
    BY <1>1 DEF LayoutGlobal, NameInv
  <2>2. /\ (InProc' <=> InProc) /\ LeftLabels' = LeftLabels /\ OwnLabels' = OwnLabels
    BY <2>1 DEF InProc, LeftLabels, Left, OwnLabels, StaticLocals
  <2>3. GlobalLabels' = GlobalLabels \cup {d.n}
    <3>1. /\ Len(globals') = Len(globals) + 1 /\ Len(globals) \in Nat
          /\ \A k \in 1 .. Len(globals) : globals'[k] = globals[k]
          /\ globals'[Len(globals) + 1] = d
      BY <2>1, PushedFirst, PushedLast
    <3>2. 1 .. Len(globals') = 1 .. Len(globals) \cup {Len(globals) + 1}
      BY <3>1
    <3> QED BY <3>1, <3>2 DEF GlobalLabels
  <2>4. Calm' => Calm
    BY <1>1, CalmInserts DEF LayoutGlobal
  <2> QED BY <2>1, <2>2, <2>3, <2>4 DEF DataInv
<1>2. ASSUME NEW p \in Params, LayoutParam(p) PROVE DataInv'
  <2> DEFINE decl == [n |-> p.n, stor |-> "AUTO", param |-> TRUE, init |-> FALSE]
  <2>1. /\ InProc /\ InProc' /\ phase # "done" /\ phase' # "done" /\ proc' = proc /\ naked' = naked
        /\ nprocs' = nprocs /\ data' = data /\ named' = named /\ globals' = globals
        /\ locals' = Append(locals, decl)
    BY <1>2 DEF LayoutParam, InProc
  <2>2. decl \in LocalDecl
    BY ParamTypes DEF LocalDecl, Classes
  <2> HIDE DEF decl
  <2>3. LeftLabels' = LeftLabels /\ GlobalLabels' = GlobalLabels /\ OwnLabels \subseteq OwnLabels'
    BY <2>1, <2>2, OwnLabelsGrow DEF LeftLabels, Left, GlobalLabels
  <2>4. Calm' => Calm
    BY <1>2, CalmInserts DEF LayoutParam
  <2> QED BY <2>1, <2>3, <2>4 DEF DataInv
<1>3. ASSUME NEW d \in Decls, LayoutLocal(d) PROVE DataInv'
  <2>1. /\ InProc /\ InProc' /\ phase # "done" /\ phase' # "done" /\ proc' = proc /\ naked' = naked
        /\ nprocs' = nprocs /\ data' = data /\ globals' = globals
        /\ locals' = Append(locals, Local(d))
        /\ named' \subseteq named \cup (IF d.stor = "STATIC" THEN {Mangle(proc, d.n)} ELSE {})
    BY <1>3 DEF LayoutLocal, InProc
  <2>2. Local(d) \in LocalDecl /\ Local(d).n = d.n /\ Local(d).stor = d.stor
    BY DeclTypes DEF Local, LocalDecl
  <2>3. /\ LeftLabels' = LeftLabels /\ GlobalLabels' = GlobalLabels /\ OwnLabels \subseteq OwnLabels'
        /\ d.stor = "STATIC" => Mangle(proc, d.n) \in OwnLabels'
    BY <2>1, <2>2, OwnLabelsGrow DEF LeftLabels, Left, GlobalLabels
  <2>4. Calm' => Calm
    BY <1>3, CalmInserts DEF LayoutLocal
  <2>5. named \subseteq OwnLabels' \cup named' \cup named
    OBVIOUS
  <2> QED BY <2>1, <2>3, <2>4 DEF DataInv
<1>4. ASSUME NEW bare \in Bare, EnterProc(bare) PROVE DataInv'
  <2>1. /\ ~InProc /\ InProc' /\ phase # "done" /\ phase' # "done" /\ proc' = Procs[nprocs + 1]
        /\ naked' = bare /\ nprocs' = nprocs + 1 /\ data' = data /\ named' = named
        /\ globals' = globals /\ locals' = locals /\ refused' = refused /\ lost' = lost
    BY <1>4 DEF EnterProc, InProc
  <2>2. nprocs \in Nat
    BY DEF TypeOK, WalkTypes
  <2>3. LeftLabels' = LeftLabels /\ GlobalLabels' = GlobalLabels
    BY <2>1, <2>2 DEF LeftLabels, Left, GlobalLabels
  <2>4. OwnLabels = {}
    BY <2>1, NoOwnLabels DEF NameInv
  <2>5. ~naked' /\ nprocs' >= 1 /\ proc' = Procs[nprocs']
    BY <2>1, <2>2
  <2> QED BY <2>1, <2>3, <2>4, <2>5 DEF DataInv, Calm
<1>5. CASE StartBody
  <2>1. /\ InProc /\ InProc' /\ phase # "done" /\ phase' # "done" /\ proc' = proc /\ naked' = naked
        /\ nprocs' = nprocs /\ data' = data /\ named' = named
        /\ globals' = globals /\ locals' = locals /\ refused' = refused /\ lost' = lost
    BY <1>5 DEF StartBody, InProc
  <2>2. LeftLabels' = LeftLabels /\ GlobalLabels' = GlobalLabels /\ OwnLabels' = OwnLabels
    BY <2>1 DEF LeftLabels, Left, GlobalLabels, OwnLabels, StaticLocals
  <2> QED BY <2>1, <2>2 DEF DataInv, Calm
<1>6. CASE UNCHANGED vars
  <2>1. /\ phase' = phase /\ proc' = proc /\ naked' = naked
        /\ nprocs' = nprocs /\ data' = data /\ named' = named
        /\ globals' = globals /\ locals' = locals /\ refused' = refused /\ lost' = lost
    BY <1>6 DEF vars, walk
  <2>2. /\ LeftLabels' = LeftLabels /\ GlobalLabels' = GlobalLabels /\ OwnLabels' = OwnLabels
        /\ (InProc' <=> InProc)
    BY <2>1 DEF LeftLabels, Left, GlobalLabels, OwnLabels, StaticLocals, InProc
  <2> QED BY <2>1, <2>2 DEF DataInv, Calm
<1> QED BY <1>1, <1>2, <1>3, <1>4, <1>5, <1>6, LeaveData, EmitData DEF Next, Finished

LEMMA DataHeld == DataInv => StaticsHaveData
<1> SUFFICES ASSUME DataInv, phase = "done", ~Library, Calm, NEW l \in named
             PROVE  Cardinality({k \in 1 .. Len(data) : data[k].label = l}) = 1
  BY DEF StaticsHaveData, Calm
<1>1. PICK all : Once(data, all) /\ named \subseteq all
  BY DEF DataInv
<1>2. PICK i \in 1 .. Len(data) : data[i].label = l
  BY <1>1 DEF Once
<1>3. {k \in 1 .. Len(data) : data[k].label = l} = {i}
  BY <1>1, <1>2 DEF Once
<1> QED BY <1>3, FS_Singleton

(* If every program's procedures have names of their own and none is       *)
(* NAKED, no name is the label PROC__VAR of a static, and no label is made *)
(* of two different pairs of names: whatever is declared in how many       *)
(* procedures, when the assembly is complete every static a body could     *)
(* name has data, once (cg_emit_proc_static_data, cg_emit_static_data,     *)
(* layout_globals, layout_locals).                                         *)
THEOREM StorageStaticsHaveData ==
  ASSUME \A i, j \in DOMAIN Procs : Procs[i] = Procs[j] => i = j, Bare = {FALSE},
         NoNameIsLabel, LabelsTell
  PROVE  Spec => []StaticsHaveData
<1> DEFINE Inv == TypeOK /\ NameInv /\ LabelInv /\ DataInv
<1>1. Init => Inv
  <2> SUFFICES ASSUME Init PROVE Inv
    OBVIOUS
  <2>1. /\ globals = <<>> /\ locals = <<>> /\ ~InProc /\ ~naked /\ data = <<>> /\ named = {}
        /\ phase # "done" /\ scopes[1] = <<>>
    BY DEF Init, InProc
  <2>2. NameInv
    BY <2>1, EmptySequence, HasNone DEF NameInv
  <2>3. LabelInv
    BY <2>1 DEF LabelInv, Distinct
  <2>4. DataInv
    BY <2>1, OnceNone DEF DataInv
  <2> QED BY StorageInit, <2>2, <2>3, <2>4
<1>2. Inv /\ [Next]_vars => Inv'
  BY StorageStep, NameStep, LabelStep, DataStep
<1>3. Inv => StaticsHaveData
  BY DataHeld
<1> QED BY <1>1, <1>2, <1>3, PTL DEF Spec
=============================================================================
