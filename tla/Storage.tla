-------------------------------- MODULE Storage -------------------------------
(***************************************************************************)
(* Where the compiler puts variables, and what its stores touch: the       *)
(* scoped symbol table (symtab.h), the type descriptors (types.h), the     *)
(* layout of globals, parameters and locals (layout.h), the static data    *)
(* and the address of every kind of access (codegen.h).                    *)
(*                                                                         *)
(* A program is chosen as it is walked: its globals, then for each         *)
(* procedure parameters, locals (nested blocks share the procedure's       *)
(* scope), and a body that may access any name.  An access emits code and  *)
(* changes no state here: the operators below give the bytes it touches.   *)
(***************************************************************************)
EXTENDS Integers, Sequences, FiniteSets

CONSTANTS Names, FieldNames,          \* identifiers, up to letter case
          Joined,                     \* Joined[p][n]: p, two underscores, and n
          Procs, Bare,                \* the procedures in order, and whether they
                                      \* may have OPTIONS(NAKED): part of BOOLEAN
          Decls,                      \* the declarations a program may hold
          Params,                     \* and its parameters
          ScopeMax, TDescMax, FieldMax,   \* SYM_SCOPE_MAX, TDESC_MAX, TDESC_FIELD_MAX
          MaxGlobals, MaxParams, MaxLocals,   \* bounds on the program
          Library                     \* %DEFINE LIBRARY

Types == {"BYTE", "INT16", "INT24", "PTR", "RECORD"}
Classes == {"AUTO", "STATIC", "EXTERNAL", "BASED"}
Fields == [n : FieldNames, ty : Types \ {"RECORD"}, dim : Nat]

(* type_width; the types of one width are one type here.                   *)
TypeWidth(t) == CASE t = "BYTE" -> 1 [] t = "INT16" -> 2 [] t \in {"INT24", "PTR"} -> 3 [] OTHER -> 0

(* Width of an array or a scalar: layout_dcl_width's last part.            *)
PlainWidth(t, dim) == IF dim > 0 THEN TypeWidth(t) * dim ELSE TypeWidth(t)

(* The fields a descriptor keeps, and their offsets.                       *)
Kept(d) == SubSeq(d.fields, 1, IF Len(d.fields) < FieldMax THEN Len(d.fields) ELSE FieldMax)
FieldOffset(d) ==
  LET at[k \in 0 .. Len(Kept(d))] ==
        IF k = 0 THEN 0 ELSE at[k - 1] + PlainWidth(Kept(d)[k].ty, Kept(d)[k].dim)
  IN  at

(* layout_dcl_width, with or without a descriptor left for a record.       *)
Width(d, room) ==
  IF d.ty # "RECORD" THEN PlainWidth(d.ty, d.dim)
  ELSE IF room THEN FieldOffset(d)[Len(Kept(d))] ELSE 0

(* The label of a STATIC of a procedure is PROC__VAR, a name like any:     *)
(* what it was joined from cannot be told from it, as A and B__C join to   *)
(* what A__B and C do, and it can be the name of a global.                 *)
Labels == Names \cup {Joined[p][n] : p \in Names, n \in Names}
PlainLabel(p, n) == n               \* mutant: the name alone
Mangle(p, n) == Joined[p][n]

ASSUME StorageAssumption ==
  /\ \A d \in Decls :
       /\ d.n \in Names /\ d.ty \in Types /\ d.dim \in Nat /\ d.stor \in Classes
       /\ d.fields \in Seq(Fields) /\ d.init \in BOOLEAN
  /\ Joined \in [Names -> [Names -> Labels]]
  /\ \A p, n, m \in Names : Joined[p][n] = Joined[p][m] \/ Joined[n][p] = Joined[m][p] => n = m
  /\ \A p \in Params : p.n \in Names /\ p.ty \in Types \ {"RECORD"}
  /\ ScopeMax \in Nat /\ TDescMax \in Nat /\ FieldMax \in Nat
  /\ MaxGlobals \in Nat /\ MaxParams \in Nat /\ MaxLocals \in Nat
  /\ Procs \in Seq(Names) /\ Bare \subseteq BOOLEAN /\ Library \in BOOLEAN

(* What the labels need of a program's names, and no check of the compiler *)
(* sees to: no name is a label, and labels tell what they were joined from.*)
NoNameIsLabel == \A p, n \in Names : Joined[p][n] \notin Names
LabelsTell == \A p, q, n, m \in Names : Joined[p][n] = Joined[q][m] => p = q /\ n = m

VARIABLES
  phase,            \* "globals", "params", "locals", "body", "between", "done"
  scopes,           \* the open scopes of the symbol table, outermost first
  frame,            \* layout_frame_size
  staticNext,       \* layout_static_next, from STATIC_BASE
  descs, lastTd,    \* the type descriptors (0: none), layout_last_tdesc
  data,             \* the labels emitted in .data, with their sizes
  proc, naked,      \* the procedure being compiled, its OPTIONS(NAKED)
  nprocs,           \* history: procedures walked
  globals, locals,  \* the declarations of the program and of the procedure
  named,            \* history: the labels static symbols were given
  refused, lost     \* history: a name was declared twice in a scope; a symbol
                    \* or a descriptor found no room

walk == <<phase, proc, naked, nprocs, globals, locals>>
layout == <<frame, staticNext, descs, lastTd>>
vars == <<walk, scopes, layout, data, named, refused, lost>>

None == "none"

Init ==
  /\ phase = "globals" /\ scopes = <<<<>>>>
  /\ frame = 0 /\ staticNext = 0 /\ descs = <<>> /\ lastTd = 0
  /\ data = <<>> /\ proc = None /\ naked = FALSE /\ nprocs = 0
  /\ globals = <<>> /\ locals = <<>> /\ named = {} /\ refused = FALSE /\ lost = FALSE

-----------------------------------------------------------------------------
(* The symbol table *)

Depth == Len(scopes)
Current == scopes[Depth]
InScope(s, n) == {i \in 1 .. Len(s) : s[i].n = n}

(* sym_insert refuses a duplicate in the current scope, and a full one;    *)
(* the error is noted in sym_err, which no caller looks at.                *)
InsertsAlways(n) == InScope(Current, n) = {}     \* mutant: the room is not checked
Inserts(n) == InScope(Current, n) = {} /\ Len(Current) < ScopeMax
Insert(sym) == scopes' = [scopes EXCEPT ![Depth] = Append(@, sym)]
Outcome(n, described) ==
  /\ refused' = (refused \/ InScope(Current, n) # {})
  /\ lost' = (lost \/ Len(Current) >= ScopeMax \/ ~described)

(* sym_lookup: the innermost scope that has the name; None.                *)
Holding(n) == {d \in 1 .. Depth : InScope(scopes[d], n) # {}}
Resolves(n) == Holding(n) # {}
Lookup(n) ==
  LET d == CHOOSE d \in Holding(n) : \A e \in Holding(n) : e <= d
      i == CHOOSE i \in InScope(scopes[d], n) : TRUE
  IN  scopes[d][i]

-----------------------------------------------------------------------------
(* Layout *)

HasRoom == Len(descs) < TDescMax
WidthNow(d) == Width(d, HasRoom)

(* A record declaration takes a descriptor, whatever becomes of its name.  *)
Describe(d) ==
  IF d.ty # "RECORD" THEN UNCHANGED <<descs, lastTd>>
  ELSE IF HasRoom THEN descs' = Append(descs, d) /\ lastTd' = Len(descs) + 1
  ELSE lastTd' = 0 /\ UNCHANGED descs

Descriptor(d) ==
  IF d.ty = "RECORD" THEN (IF HasRoom THEN Len(descs) + 1 ELSE 0)
  ELSE IF d.ty = "PTR" THEN lastTd ELSE 0

Symbol(d, stor, off, label) ==
  [n |-> d.n, ty |-> d.ty, dim |-> d.dim, w |-> WidthNow(d), stor |-> stor,
   off |-> off, td |-> Descriptor(d), label |-> label, param |-> FALSE]

(* layout_globals: everything at file scope has a static address, and      *)
(* AUTO is STATIC there.                                                   *)
LayoutGlobal(d) ==
  /\ phase = "globals" /\ Len(globals) < MaxGlobals
  /\ globals' = Append(globals, d)
  /\ IF Inserts(d.n)
     THEN /\ Insert(Symbol(d, IF d.stor = "AUTO" THEN "STATIC" ELSE d.stor, staticNext, d.n))
          /\ staticNext' = staticNext + WidthNow(d)
          /\ named' = named \cup {d.n}
     ELSE UNCHANGED <<scopes, staticNext, named>>
  /\ Outcome(d.n, d.ty = "RECORD" => HasRoom) /\ Describe(d)
  /\ UNCHANGED <<phase, proc, naked, nprocs, locals, frame, data>>

(* layout_proc: a new scope, an empty frame.                               *)
EnterProc(bare) ==
  /\ phase \in {"globals", "between"} /\ nprocs < Len(Procs)
  /\ phase' = "params" /\ proc' = Procs[nprocs + 1] /\ naked' = bare /\ nprocs' = nprocs + 1
  /\ scopes' = Append(scopes, <<>>) /\ frame' = 0
  /\ UNCHANGED <<globals, locals, staticNext, descs, lastTd, data, named, refused, lost>>

ParamBase == 9      \* PARAM_BASE_OFFSET: above the three saved registers
Slot == 3           \* every parameter is pushed as one word

(* layout_params; the offset counts the parameters before it, inserted or  *)
(* not.  locals holds the parameters too, in front.                        *)
LayoutParam(p) ==
  /\ phase = "params" /\ Len(locals) < MaxParams
  /\ locals' = Append(locals, [n |-> p.n, stor |-> "AUTO", param |-> TRUE, init |-> FALSE])
  /\ IF Inserts(p.n)
     THEN Insert([n |-> p.n, ty |-> p.ty, dim |-> 0, w |-> TypeWidth(p.ty), stor |-> "AUTO",
                  off |-> ParamBase + Slot * Len(locals), td |-> 0, label |-> p.n,
                  param |-> TRUE])
     ELSE UNCHANGED scopes
  /\ Outcome(p.n, TRUE)
  /\ UNCHANGED <<phase, proc, naked, nprocs, globals, layout, data, named>>

BodyDecls == Len(SelectSeq(locals, LAMBDA d : ~d.param))
Local(d) == [n |-> d.n, stor |-> d.stor, param |-> FALSE, init |-> d.init]

FrameBefore(w) == frame         \* mutant: the offset is taken before the slot is
FrameAfter(w) == frame + w

(* layout_locals: STATIC gets a mangled label, everything else a slot      *)
(* below fp.                                                               *)
LayoutLocal(d) ==
  /\ phase \in {"params", "locals"} /\ BodyDecls < MaxLocals
  /\ phase' = "locals" /\ locals' = Append(locals, Local(d))
  /\ IF ~Inserts(d.n) THEN UNCHANGED <<scopes, staticNext, frame, named>>
     ELSE IF d.stor = "STATIC"
     THEN /\ Insert(Symbol(d, "STATIC", staticNext, Mangle(proc, d.n)))
          /\ staticNext' = staticNext + WidthNow(d)
          /\ named' = named \cup {Mangle(proc, d.n)}
          /\ UNCHANGED frame
     ELSE /\ Insert(Symbol(d, d.stor, 0 - FrameAfter(WidthNow(d)), d.n))
          /\ frame' = frame + WidthNow(d)
          /\ UNCHANGED <<staticNext, named>>
  /\ Outcome(d.n, d.ty = "RECORD" => HasRoom) /\ Describe(d)
  /\ UNCHANGED <<proc, naked, nprocs, globals, data>>

StartBody ==
  /\ phase \in {"params", "locals"}
  /\ phase' = "body"
  /\ UNCHANGED <<proc, naked, nprocs, globals, locals, scopes, layout, data, named, refused, lost>>

-----------------------------------------------------------------------------
(* Static data *)

(* cg_emit_static_var: a numeric INIT emits one byte or word, all else the *)
(* whole width.                                                            *)
DataSize(sym, init) == IF init THEN (IF sym.w = 1 THEN 1 ELSE 3) ELSE sym.w
DataEntry(d) == [label |-> Lookup(d.n).label, sz |-> DataSize(Lookup(d.n), d.init)]

(* The walk of the declarations ds: data for each chosen one with a symbol. *)
DataOf(ds, chosen) ==
  LET out[k \in 0 .. Len(ds)] ==
        IF k = 0 THEN <<>>
        ELSE IF k \in chosen /\ Resolves(ds[k].n) THEN Append(out[k - 1], DataEntry(ds[k]))
        ELSE out[k - 1]
  IN  out[Len(ds)]

KeepScope(s) == s               \* mutant: sym_exit_scope is not called
ExitScope(s) == SubSeq(s, 1, Len(s) - 1)

(* The end of cg_proc, and sym_exit_scope: the data of STATIC locals,      *)
(* except that a NAKED procedure returned before it.                       *)
LeaveProc ==
  /\ phase = "body"
  /\ phase' = "between"
  /\ data' = IF naked THEN data
             ELSE data \o DataOf(locals, {k \in DOMAIN locals : locals[k].stor = "STATIC"})
  /\ scopes' = ExitScope(scopes)
  /\ locals' = <<>> /\ proc' = None
  /\ UNCHANGED <<naked, nprocs, globals, layout, named, refused, lost>>

(* cg_emit_static_data                                                     *)
EmitGlobals ==
  /\ phase \in {"globals", "between"}
  /\ phase' = "done"
  /\ data' = IF Library THEN data ELSE data \o DataOf(globals, DOMAIN globals)
  /\ UNCHANGED <<proc, naked, nprocs, globals, locals, scopes, layout, named, refused, lost>>

Finished == phase = "done" /\ UNCHANGED vars

Next ==
  \/ \E d \in Decls : LayoutGlobal(d) \/ LayoutLocal(d)
  \/ \E bare \in Bare : EnterProc(bare)
  \/ \E p \in Params : LayoutParam(p)
  \/ StartBody \/ LeaveProc \/ EmitGlobals
  \/ Finished

Spec == Init /\ [][Next]_vars

-----------------------------------------------------------------------------
(* Accesses.  A place is the frame or a label; an extent is a place and    *)
(* the bytes lo .. hi - 1 of it.                                           *)

ByLabel(sym) == sym.stor \in {"STATIC", "EXTERNAL"}
Base(sym) == IF ByLabel(sym) THEN 0 ELSE sym.off
Extent(sym, from, size) ==
  [at |-> IF ByLabel(sym) THEN <<"data", sym.label>> ELSE <<"frame">>,
   lo |-> Base(sym) + from, hi |-> Base(sym) + from + size]

(* sb or sw, whatever the width between.                                   *)
StoreWord(w) == 3               \* mutant: always sw
StoreSize(w) == IF w = 1 THEN 1 ELSE 3

(* cg_store_var; cg_array_store, which scales only words; cg_field_store.  *)
StoreVar(sym) == Extent(sym, 0, StoreSize(sym.w))

Scale(t) == IF TypeWidth(t) = 3 THEN 3 ELSE 1
StoreElement(sym, i) == Extent(sym, i * Scale(sym.ty), StoreSize(TypeWidth(sym.ty)))

(* td_field_lookup: the first field of a descriptor with the name; 0.      *)
FieldAt(td, f) ==
  LET ks == {k \in 1 .. Len(Kept(descs[td])) : Kept(descs[td])[k].n = f}
  IN  IF ks = {} THEN 0 ELSE CHOOSE k \in ks : \A j \in ks : k <= j
FieldExtent(td, k) ==
  LET fld == Kept(descs[td])[k] IN
    [lo |-> FieldOffset(descs[td])[k - 1], w |-> PlainWidth(fld.ty, fld.dim)]
StoreField(sym, k) ==
  LET part == FieldExtent(sym.td, k) IN Extent(sym, part.lo, StoreSize(part.w))

(* cg_deref_addr: the pointer's own descriptor if it has the field, else   *)
(* the first of all that has; 0: an error.                                 *)
DerefRecord(sym, f) ==
  IF sym.td > 0 /\ FieldAt(sym.td, f) > 0 THEN sym.td
  ELSE LET ks == {k \in 1 .. Len(descs) : FieldAt(k, f) > 0}
       IN  IF ks = {} THEN 0 ELSE CHOOSE k \in ks : \A j \in ks : k <= j
-----------------------------------------------------------------------------
(* Properties *)

InProc == phase \in {"params", "locals", "body"}
LocalDecl == [n : Names, stor : Classes, param : BOOLEAN, init : BOOLEAN]
Sym == [n : Names, ty : Types, dim : Nat, w : Nat, stor : Classes, off : Int, td : Nat,
        label : Labels, param : BOOLEAN]

(* Every variable keeps its type; a scope never outgrows its part of the   *)
(* table, and there are as many open as the walk is deep.                  *)
WalkTypes ==
  /\ phase \in {"globals", "params", "locals", "body", "between", "done"}
  /\ proc \in Names \cup {None} /\ (InProc => proc \in Names)
  /\ nprocs \in 0 .. Len(Procs) /\ locals \in Seq(LocalDecl)
  /\ refused \in BOOLEAN /\ lost \in BOOLEAN
ScopeTypes ==
  /\ scopes \in Seq(Seq(Sym))
  /\ \A d \in 1 .. Len(scopes) : Len(scopes[d]) <= ScopeMax
DepthOK == Len(scopes) = IF InProc THEN 2 ELSE 1
LayoutTypes ==
  /\ frame \in Nat /\ staticNext \in Nat
  /\ descs \in Seq(Decls) /\ Len(descs) <= TDescMax /\ lastTd \in 0 .. Len(descs)
TypeOK == WalkTypes /\ ScopeTypes /\ DepthOK /\ LayoutTypes

(* The bytes a symbol owns.                                                *)
Owned(sym) == Extent(sym, 0, IF sym.param THEN Slot ELSE sym.w)
Overlap(x, y) == x.at = y.at /\ x.lo < y.hi /\ y.lo < x.hi

Symbols == UNION {{<<d, i>> : i \in 1 .. Len(scopes[d])} : d \in 1 .. Depth}
At(c) == scopes[c[1]][c[2]]

(* The stores that name a symbol, its elements or its fields.              *)
Stores(sym) ==
  {StoreVar(sym)}
    \cup {StoreElement(sym, i) : i \in 0 .. sym.dim - 1}
    \cup (IF sym.ty = "RECORD" /\ sym.td > 0
          THEN {StoreField(sym, k) : k \in 1 .. Len(Kept(descs[sym.td]))} ELSE {})

(* What a call saves: r1, r2 and fp of the caller.                         *)
SavedRegs == [at |-> <<"frame">>, lo |-> 0, hi |-> ParamBase]

(* The slots of one procedure are apart from each other, from the saved    *)
(* registers and from what lies below the frame that the prologue reserves.*)
SlotsDisjoint ==
  Depth = 2 =>
    /\ \A i, j \in 1 .. Len(scopes[2]) :
         i # j /\ ~ByLabel(scopes[2][i]) /\ ~ByLabel(scopes[2][j])
           => ~Overlap(Owned(scopes[2][i]), Owned(scopes[2][j]))
    /\ \A i \in 1 .. Len(scopes[2]) :
         ~ByLabel(scopes[2][i]) => /\ ~Overlap(Owned(scopes[2][i]), SavedRegs)
                                   /\ Owned(scopes[2][i]).lo >= 0 - frame

(* Assigning an element of an array leaves the other elements alone.       *)
ElementsApart(c) ==
  \A i, j \in 0 .. At(c).dim - 1 :
    i # j => ~Overlap(StoreElement(At(c), i), StoreElement(At(c), j))

(* No assignment in a body changes a byte of another variable, of another  *)
(* element, or of the saved registers: it stays in the frame, or in the    *)
(* label's own data.                                                       *)
AssignmentsStayPut ==
  phase = "body" =>
    \A c \in Symbols :
      /\ ElementsApart(c)
      /\ ~lost => \A x \in Stores(At(c)) :
           /\ ~Overlap(x, SavedRegs)
           /\ \A b \in Symbols : b # c => ~Overlap(x, Owned(At(b)))
           /\ ByLabel(At(c)) => x.hi <= At(c).w

(* The declarations whose stores fit what is laid out for them: nothing of *)
(* two bytes, which sw overruns; no empty record, nor an array of records. *)
Ordinary(d) ==
  /\ d.stor \in {"AUTO", "STATIC"} /\ d.ty # "INT16" /\ Width(d, TRUE) \notin {0, 2}
  /\ d.ty = "RECORD" => /\ d.dim = 0
                        /\ \A k \in 1 .. Len(Kept(d)) :
                             PlainWidth(Kept(d)[k].ty, Kept(d)[k].dim) # 2

(* A name means the procedure's own declaration of it, else the program's, *)
(* else nothing, and never a declaration of an earlier procedure.          *)
NamesResolveInScope ==
  phase = "body" /\ ~lost =>
    \A n \in Names :
      LET own   == \E k \in 1 .. Len(locals) : locals[k].n = n
          atTop == \E k \in 1 .. Len(globals) : globals[k].n = n
      IN  /\ Resolves(n) <=> own \/ atTop
          /\ Resolves(n) =>
               \E i \in DOMAIN scopes[IF own THEN 2 ELSE 1] :
                 Lookup(n) = scopes[IF own THEN 2 ELSE 1][i]

(* When the assembly is complete, every static variable a body could name  *)
(* has data, once. (Not where a name was declared twice in a scope: the    *)
(* data walk then emits the first symbol again.)                           *)
StaticsHaveData ==
  phase = "done" /\ ~Library /\ ~refused /\ ~lost =>
    \A l \in named : Cardinality({k \in 1 .. Len(data) : data[k].label = l}) = 1

(* docs/usage.md:118: "Pointer associated with preceding BASED record".    *)
PointersTakeBased ==
  \A c \in Symbols :
    At(c).ty = "PTR" /\ At(c).td > 0 /\ (\E k \in 1 .. At(c).td : descs[k].stor = "BASED")
      => descs[At(c).td].stor = "BASED"
=============================================================================
