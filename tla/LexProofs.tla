------------------------------ MODULE LexProofs -------------------------------
(***************************************************************************)
(* For every set of files, every contents, and all limits: the types of    *)
(* the lexer's state, that tokens are emitted exactly in the selected      *)
(* branches, that lookups see the last define, and that what the parser is *)
(* given is the expansion of the program.                                  *)
(***************************************************************************)
EXTENDS LexExpansion, WellFoundedInduction, TLAPS

-----------------------------------------------------------------------------
(* Types *)

LEMMA LexLimits ==
  /\ IncMaxDepth \in Nat /\ DefMax \in Nat /\ CondMax \in Nat
  /\ Main \in Files /\ Texts \subseteq [Files -> Seq(Items)]
  /\ Fold \in [Names -> Names] /\ Undefined \notin Values /\ Any \notin Values
BY LexAssumption

(* What a directive holds has the sets' types.                             *)
LEMMA DefineTypes ==
  ASSUME NEW i \in Items, i.k = "define"
  PROVE  i.n \in Names /\ i.v \in Values
<1>1. PICK n \in Names, v \in Values : i = Def(n, v)
  BY LexAssumption DEF Tok, Def, If, Else, Endif, Inc, Stray
<1> QED BY <1>1 DEF Def

LEMMA HereTypes ==
  ASSUME PlaceTypes, ~AtEnd
  PROVE  Here \in Items
<1>1. text[src] \in Seq(Items) /\ pos \in 1 .. Len(text[src])
  BY DEF PlaceTypes, AtEnd
<1> QED BY <1>1 DEF Here

LEMMA PastMoves ==
  ASSUME PlaceTypes, Past
  PROVE  PlaceTypes'
BY DEF PlaceTypes, Past

LEMMA LexTypesInit == Init => TypeOK
<1> SUFFICES ASSUME Init PROVE TypeOK OBVIOUS
<1>1. PlaceTypes
  BY LexLimits DEF Init, PlaceTypes
<1>2. DefTypes
  BY LexLimits DEF Init, DefTypes
<1>3. CondTypes
  <2>1. nest \in Seq(Branch)
    BY DEF Init
  <2>2. condDepth \in 0 .. CondMax
    BY LexLimits DEF Init
  <2>3. condActive \in [0 .. CondMax - 1 -> BOOLEAN] /\ condSeen \in [0 .. CondMax - 1 -> BOOLEAN]
    BY DEF Init
  <2> QED BY <2>1, <2>2, <2>3 DEF Init, CondTypes
<1>4. FlagTypes
  BY DEF Init, FlagTypes
<1> QED BY <1>1, <1>2, <1>3, <1>4 DEF TypeOK

(* %INCLUDE: a frame pushed is a place in a file.                          *)
LEMMA IncludePlace ==
  ASSUME PlaceTypes, ReadInclude
  PROVE  PlaceTypes'
<1>1. CASE Here.f \in Files /\ IncRoom
  <2>1. ReturnAddress \in Frame
    BY DEF ReturnAddress, Frame, PlaceTypes
  <2>2. /\ incStack' = Append(incStack, ReturnAddress)
        /\ src' = Here.f /\ pos' = 1 /\ line' = 0 /\ text' = text
    BY <1>1 DEF ReadInclude
  <2>3. incStack' \in Seq(Frame) /\ Len(incStack') <= IncMaxDepth
    BY <1>1, <2>1, <2>2, LexLimits DEF PlaceTypes, IncRoom
  <2> QED BY <1>1, <2>2, <2>3 DEF PlaceTypes
<1>2. CASE ~(Here.f \in Files /\ IncRoom)
  BY <1>2, PastMoves DEF ReadInclude
<1> QED BY <1>1, <1>2

LEMMA LeavePlace ==
  ASSUME PlaceTypes, LeaveInclude
  PROVE  PlaceTypes'
<1>1. incStack[Len(incStack)] \in Frame
  BY DEF LeaveInclude, PlaceTypes
<1>2. incStack' \in Seq(Frame) /\ Len(incStack') <= IncMaxDepth
  BY LexLimits DEF LeaveInclude, PlaceTypes
<1>3. src' \in Files /\ pos' \in Nat \ {0} /\ line' \in Nat /\ text' = text
  BY <1>1 DEF LeaveInclude, Frame
<1> QED BY <1>2, <1>3 DEF PlaceTypes

(* %DEFINE: an entry replaced or appended is a name with a value.          *)
LEMMA DefineTable ==
  ASSUME PlaceTypes, DefTypes, ReadDefine
  PROVE  DefTypes'
<1>1. Here.n \in Names /\ Here.v \in Values
  BY HereTypes, DefineTypes DEF ReadDefine
<1>2. [n |-> Here.n, v |-> Here.v] \in Line
  BY <1>1 DEF Line
<1>3. defs' \in Seq(Line) /\ Len(defs') <= DefMax
  <2>1. CASE Entries(Here.n) # {}
    <3>1. defs' = [d \in 1 .. Len(defs) |->
                     IF d \in Entries(Here.n) THEN [defs[d] EXCEPT !.v = Here.v] ELSE defs[d]]
      BY <2>1 DEF ReadDefine
    <3>2. \A d \in 1 .. Len(defs) : defs[d] \in Line
      BY DEF DefTypes
    <3>3. \A l \in Line : [l EXCEPT !.v = Here.v] \in Line
      BY <1>1 DEF Line
    <3>4. defs' \in [1 .. Len(defs) -> Line]
      BY <3>1, <3>2, <3>3
    <3> QED BY <3>4 DEF DefTypes
  <2>2. CASE Entries(Here.n) = {} /\ Len(defs) < DefMax
    <3>1. defs' = Append(defs, [n |-> Here.n, v |-> Here.v])
      BY <2>2 DEF ReadDefine
    <3> QED BY <1>2, <2>2, <3>1, LexLimits DEF DefTypes
  <2>3. CASE Entries(Here.n) = {} /\ ~(Len(defs) < DefMax)
    <3>1. defs' = defs
      BY <2>3 DEF ReadDefine
    <3> QED BY <3>1 DEF DefTypes
  <2> QED BY <2>1, <2>2, <2>3
<1>4. env' \in [{Fold[m] : m \in Names} -> Values \cup {Undefined}]
  BY <1>1 DEF ReadDefine, DefTypes
<1> QED BY <1>3, <1>4 DEF DefTypes

(* The three directives on the conditional stack.                          *)
LEMMA IfConds ==
  ASSUME CondTypes, ReadIf
  PROVE  CondTypes'
<1> DEFINE result == Holds(Here.n, Here.v)
<1>1. result \in BOOLEAN /\ ActiveUnder(result) \in BOOLEAN
  BY DEF Holds, ActiveUnder
<1>2. nest' = Append(nest, [sel |-> result, taken |-> result])
  BY DEF ReadIf
<1>3. nest' \in Seq(Branch)
  <2>1. [sel |-> result, taken |-> result] \in Branch
    BY <1>1 DEF Branch
  <2> QED BY <1>2, <2>1 DEF CondTypes
<1>4. CASE condDepth < CondMax
  <2>1. /\ condActive' = [condActive EXCEPT ![condDepth] = ActiveUnder(result)]
        /\ condSeen' = [condSeen EXCEPT ![condDepth] = result]
        /\ condDepth' = condDepth + 1 /\ over' = over
    BY <1>4 DEF ReadIf
  <2> HIDE DEF result
  <2> QED BY <1>1, <1>3, <1>4, <2>1, LexLimits DEF CondTypes
<1>5. CASE ~(condDepth < CondMax)
  <2>1. over' = TRUE /\ UNCHANGED <<condActive, condSeen, condDepth>>
    BY <1>5 DEF ReadIf
  <2> QED BY <1>3, <2>1 DEF CondTypes
<1> QED BY <1>4, <1>5

LEMMA ElseConds ==
  ASSUME CondTypes, ReadElse
  PROVE  CondTypes'
<1>1. nest' \in Seq(Branch)
  <2>1. \A j \in 1 .. Len(nest) : nest[j] \in Branch
    BY DEF CondTypes
  <2>2. \A t \in BOOLEAN : [sel |-> ~t, taken |-> TRUE] \in Branch
    BY DEF Branch
  <2>3. \A j \in 1 .. Len(nest) : nest[j].taken \in BOOLEAN
    BY <2>1 DEF Branch
  <2>4. nest' \in [1 .. Len(nest) -> Branch]
    BY <2>1, <2>2, <2>3 DEF ReadElse
  <2> QED BY <2>4 DEF CondTypes
<1>2. condDepth' = condDepth /\ over' = over
  BY DEF ReadElse
<1>3. CASE condDepth = 0
  BY <1>1, <1>2, <1>3 DEF ReadElse, CondTypes
<1>4. CASE condDepth # 0
  <2>1. PICK takes \in BOOLEAN :
          /\ condActive' = [condActive EXCEPT ![condDepth - 1] = takes]
          /\ condSeen' = [condSeen EXCEPT ![condDepth - 1] = takes \/ @]
    BY <1>4 DEF ReadElse
  <2> QED BY <1>1, <1>2, <1>4, <2>1, LexLimits DEF CondTypes
<1> QED BY <1>3, <1>4

LEMMA EndifConds ==
  ASSUME CondTypes, ReadEndif
  PROVE  CondTypes'
<1>1. nest' \in Seq(Branch)
  BY DEF ReadEndif, CondTypes
<1>2. condDepth' \in 0 .. CondMax
  BY LexLimits DEF ReadEndif, CondTypes
<1> QED BY <1>1, <1>2 DEF ReadEndif, CondTypes

LEMMA LexTypesStep ==
  ASSUME TypeOK, [Next]_vars
  PROVE  TypeOK'
<1> USE DEF TypeOK
<1>1. PlaceTypes'
  <2>1. CASE ReadInclude
    BY <2>1, IncludePlace
  <2>2. CASE LeaveInclude
    BY <2>2, LeavePlace
  <2>3. CASE ScanToken \/ SkipItem \/ ReadDefine \/ ReadIf \/ ReadElse \/ ReadEndif
    BY <2>3, PastMoves DEF ScanToken, SkipItem, ReadDefine, ReadIf, ReadElse, ReadEndif
  <2>4. CASE EndOfSource \/ ReadStray \/ Runaway \/ UNCHANGED vars
    BY <2>4 DEF EndOfSource, ReadStray, Runaway, vars, place, PlaceTypes
  <2> QED BY <2>1, <2>2, <2>3, <2>4 DEF Next, Step, Finished
<1>2. DefTypes'
  <2>1. CASE ReadDefine
    BY <2>1, DefineTable
  <2>2. CASE ~ReadDefine
    <3>1. UNCHANGED <<defs, env>>
      BY <2>2 DEF Next, Step, Finished, vars, ScanToken, SkipItem, ReadInclude, LeaveInclude,
                  ReadIf, ReadElse, ReadEndif, EndOfSource, ReadStray, Runaway
    <3> QED BY <3>1 DEF DefTypes
  <2> QED BY <2>1, <2>2
<1>3. CondTypes'
  <2>1. CASE ReadIf
    BY <2>1, IfConds
  <2>2. CASE ReadElse
    BY <2>2, ElseConds
  <2>3. CASE ReadEndif
    BY <2>3, EndifConds
  <2>4. CASE ~ReadIf /\ ~ReadElse /\ ~ReadEndif
    <3>1. UNCHANGED conds
      BY <2>4 DEF Next, Step, Finished, vars, ScanToken, SkipItem, ReadInclude, LeaveInclude,
                  ReadDefine, EndOfSource, ReadStray, Runaway
    <3> QED BY <3>1 DEF CondTypes, conds
  <2> QED BY <2>1, <2>2, <2>3, <2>4
<1>4. FlagTypes'
  <2>1. CASE ScanToken \/ SkipItem \/ LeaveInclude
    BY <2>1 DEF ScanToken, SkipItem, LeaveInclude, NextIteration, FlagTypes
  <2>4. CASE ReadInclude
    <3>1. dropped' \in BOOLEAN
      BY <2>4 DEF ReadInclude, FlagTypes
    <3>2. iter' = iter + 1 /\ UNCHANGED <<fatal, done, stray>>
      BY <2>4 DEF ReadInclude, NextIteration
    <3> QED BY <3>1, <3>2 DEF FlagTypes
  <2>5. CASE ReadDefine
    <3>1. fatal' \in BOOLEAN
      BY <2>5 DEF ReadDefine, FlagTypes
    <3>2. iter' = iter + 1 /\ UNCHANGED <<done, dropped, stray>>
      BY <2>5 DEF ReadDefine
    <3> QED BY <3>1, <3>2 DEF FlagTypes
  <2>2. CASE ReadIf \/ ReadElse \/ ReadEndif
    BY <2>2 DEF ReadIf, ReadElse, ReadEndif, NextIteration, FlagTypes
  <2>3. CASE EndOfSource \/ ReadStray \/ Runaway \/ UNCHANGED vars
    BY <2>3 DEF EndOfSource, ReadStray, Runaway, RunawayVerdict, vars, FlagTypes
  <2> QED BY <2>1, <2>2, <2>3, <2>4, <2>5 DEF Next, Step, Finished
<1> QED BY <1>1, <1>2, <1>3, <1>4

(* The lexer's state keeps its types, and its defines, its frames and its  *)
(* condition depth stay within their arrays, whatever is scanned.          *)
THEOREM LexTypeOK == Spec => []TypeOK
<1>1. TypeOK /\ [Next]_vars => TypeOK'
  BY LexTypesStep
<1> QED BY <1>1, LexTypesInit, PTL DEF Spec

-----------------------------------------------------------------------------
(* Conditions.  While no %IF was too deep, the arrays mirror the history:  *)
(* a level is active exactly when it and all levels around it are          *)
(* selected, and where the levels around it are, cond_seen_true says       *)
(* whether a branch of it was taken.                                       *)

SelectedTo(s, k) == \A j \in 1 .. k : s[j].sel

CondInv ==
  ~over =>
    /\ condDepth = Len(nest)
    /\ \A k \in 1 .. Len(nest) : condActive[k - 1] <=> SelectedTo(nest, k)
    /\ \A k \in 1 .. Len(nest) : SelectedTo(nest, k - 1) => (condSeen[k - 1] <=> nest[k].taken)

LEMMA SelectedNext ==
  ASSUME NEW s, NEW k \in Nat \ {0}
  PROVE  SelectedTo(s, k) <=> SelectedTo(s, k - 1) /\ s[k].sel
<1>1. \A j : j \in 1 .. k <=> (j \in 1 .. k - 1 \/ j = k)
  OBVIOUS
<1> QED BY <1>1, Zenon DEF SelectedTo

LEMMA EmittingIsSelected ==
  ASSUME CondTypes, CondInv, ~over
  PROVE  Emitting <=> SelectedTo(nest, Len(nest))
<1>1. condDepth = Len(nest) /\ Len(nest) \in Nat
  BY DEF CondInv, CondTypes
<1>2. CASE Len(nest) = 0
  BY <1>1, <1>2 DEF Emitting, SelectedTo
<1>3. CASE Len(nest) > 0
  <2>1. Len(nest) \in 1 .. Len(nest)
    BY <1>1, <1>3
  <2>2. condActive[Len(nest) - 1] <=> SelectedTo(nest, Len(nest))
    BY <2>1 DEF CondInv
  <2> QED BY <1>1, <1>3, <2>2 DEF Emitting
<1> QED BY <1>1, <1>2, <1>3

LEMMA IfKeeps ==
  ASSUME CondTypes, CondInv, ReadIf
  PROVE  CondInv'
<1> DEFINE result == Holds(Here.n, Here.v)
<1>1. result \in BOOLEAN
  BY DEF Holds
<1>2. nest' = Append(nest, [sel |-> result, taken |-> result])
  BY DEF ReadIf
<1>3. CASE over \/ ~(condDepth < CondMax)
  <2>1. over'
    BY <1>3 DEF ReadIf
  <2> QED BY <2>1 DEF CondInv
<1>4. CASE ~over /\ condDepth < CondMax
  <2>1. /\ condActive' = [condActive EXCEPT ![condDepth] = ActiveUnder(result)]
        /\ condSeen' = [condSeen EXCEPT ![condDepth] = result]
        /\ condDepth' = condDepth + 1
    BY <1>4 DEF ReadIf
  <2>2. condDepth = Len(nest) /\ Len(nest) \in Nat
    BY <1>4 DEF CondInv, CondTypes
  <2> HIDE DEF result
  <2>3. Len(nest') = Len(nest) + 1 /\ condDepth' = Len(nest')
    BY <1>2, <2>1, <2>2 DEF CondTypes
  <2>4. /\ \A j \in 1 .. Len(nest) : nest'[j] = nest[j]
        /\ nest'[Len(nest) + 1].sel = result /\ nest'[Len(nest) + 1].taken = result
    BY <1>2, <2>2 DEF CondTypes
  <2>5. \A k \in 0 .. Len(nest) : SelectedTo(nest', k) <=> SelectedTo(nest, k)
    BY <2>2, <2>4 DEF SelectedTo
  <2>6. SelectedTo(nest', Len(nest) + 1) <=> (SelectedTo(nest, Len(nest)) /\ result)
    BY <2>2, <2>4, <2>5, SelectedNext
  <2>7. ActiveUnder(result) <=> (SelectedTo(nest, Len(nest)) /\ result)
    BY <1>4, EmittingIsSelected DEF ActiveUnder
  <2>8. ASSUME NEW k \in 1 .. Len(nest')
        PROVE  /\ condActive'[k - 1] <=> SelectedTo(nest', k)
               /\ SelectedTo(nest', k - 1) => (condSeen'[k - 1] <=> nest'[k].taken)
    <3>1. CASE k \in 1 .. Len(nest)
      <4>1. condActive'[k - 1] = condActive[k - 1] /\ condSeen'[k - 1] = condSeen[k - 1]
        BY <2>1, <2>2, <3>1 DEF CondTypes
      <4>2. /\ condActive[k - 1] <=> SelectedTo(nest, k)
            /\ SelectedTo(nest, k - 1) => (condSeen[k - 1] <=> nest[k].taken)
        BY <1>4, <3>1 DEF CondInv
      <4>3. (SelectedTo(nest', k) <=> SelectedTo(nest, k)) /\ (SelectedTo(nest', k - 1) <=> SelectedTo(nest, k - 1))
        BY <2>2, <2>5, <3>1
      <4> QED BY <2>4, <3>1, <4>1, <4>2, <4>3
    <3>2. CASE k = Len(nest) + 1
      <4>1. k - 1 = condDepth /\ condDepth \in 0 .. CondMax - 1
        BY <1>4, <2>2, <3>2, LexLimits
      <4>2. condActive'[condDepth] = ActiveUnder(result) /\ condSeen'[condDepth] = result
        BY <2>1, <4>1 DEF CondTypes
      <4>3. nest'[k].taken = result /\ (SelectedTo(nest', k) <=> (SelectedTo(nest, Len(nest)) /\ result))
        BY <2>4, <2>6, <3>2
      <4>4. condActive'[k - 1] = ActiveUnder(result) /\ condSeen'[k - 1] = result
        BY <4>1, <4>2
      <4> QED BY <2>7, <4>3, <4>4, Zenon
    <3> QED BY <2>2, <2>3, <3>1, <3>2
  <2> QED BY <2>3, <2>8 DEF CondInv
<1> QED BY <1>3, <1>4

LEMMA ElseKeeps ==
  ASSUME CondTypes, CondInv, ReadElse
  PROVE  CondInv'
<1>1. over' = over /\ condDepth' = condDepth
  BY DEF ReadElse
<1>2. CASE over
  BY <1>1, <1>2 DEF CondInv
<1>3. CASE ~over /\ condDepth = 0
  <2>1. Len(nest) = 0
    BY <1>3 DEF CondInv
  <2>2. Len(nest') = 0
    BY <2>1 DEF ReadElse
  <2> QED BY <1>1, <1>3, <2>2 DEF CondInv
<1>4. CASE ~over /\ condDepth > 0
  <2> DEFINE m == Len(nest)
             takes == ParentActive /\ ~condSeen[condDepth - 1]
  <2>1. condDepth = m /\ m \in Nat \ {0}
    BY <1>4 DEF CondInv, CondTypes
  <2>2. /\ condActive' = [condActive EXCEPT ![m - 1] = takes]
        /\ condSeen' = [condSeen EXCEPT ![m - 1] = takes \/ @]
    BY <1>4, <2>1 DEF ReadElse
  <2>3. /\ Len(nest') = m
        /\ \A j \in 1 .. m - 1 : nest'[j] = nest[j]
        /\ nest'[m].sel = ~nest[m].taken /\ nest'[m].taken = TRUE
    <3>1. nest' = [j \in 1 .. m |-> IF j = m THEN [sel |-> ~nest[j].taken, taken |-> TRUE]
                                    ELSE nest[j]]
      BY DEF ReadElse
    <3>2. nest' \in Seq(Branch)'
      BY ElseConds DEF CondTypes
    <3>3. Len(nest') = m
      BY <2>1, <3>1, <3>2
    <3> QED BY <2>1, <3>1, <3>3
  <2>4. ParentActive <=> SelectedTo(nest, m - 1)
    <3>1. CASE m = 1
      BY <2>1, <3>1 DEF ParentActive, SelectedTo
    <3>2. CASE m > 1
      <4>1. m - 1 \in 1 .. m /\ (m - 1) - 1 = m - 2
        BY <2>1, <3>2
      <4>2. condActive[m - 2] <=> SelectedTo(nest, m - 1)
        BY <1>4, <4>1 DEF CondInv
      <4> QED BY <2>1, <3>2, <4>2 DEF ParentActive
    <3> QED BY <2>1, <3>1, <3>2
  <2>5. SelectedTo(nest, m - 1) => (condSeen[m - 1] <=> nest[m].taken)
    <3>1. m \in 1 .. Len(nest)
      BY <2>1
    <3> QED BY <1>4, <3>1 DEF CondInv
  <2>6. takes <=> (SelectedTo(nest, m - 1) /\ ~nest[m].taken)
    BY <2>1, <2>4, <2>5
  <2>7. \A k \in 0 .. m - 1 : SelectedTo(nest', k) <=> SelectedTo(nest, k)
    BY <2>1, <2>3 DEF SelectedTo
  <2>8. SelectedTo(nest', m) <=> (SelectedTo(nest, m - 1) /\ ~nest[m].taken)
    <3>1. SelectedTo(nest', m) <=> SelectedTo(nest', m - 1) /\ nest'[m].sel
      BY <2>1, SelectedNext
    <3>2. m - 1 \in 0 .. m - 1
      BY <2>1
    <3> QED BY <2>3, <2>7, <3>1, <3>2
  <2> HIDE DEF takes
  <2>9. ASSUME NEW k \in 1 .. m
        PROVE  /\ condActive'[k - 1] <=> SelectedTo(nest', k)
               /\ SelectedTo(nest', k - 1) => (condSeen'[k - 1] <=> nest'[k].taken)
    <3>1. CASE k \in 1 .. m - 1
      <4>1. condActive'[k - 1] = condActive[k - 1] /\ condSeen'[k - 1] = condSeen[k - 1]
        BY <2>1, <2>2, <3>1 DEF CondTypes
      <4>2. /\ condActive[k - 1] <=> SelectedTo(nest, k)
            /\ SelectedTo(nest, k - 1) => (condSeen[k - 1] <=> nest[k].taken)
        BY <1>4, <2>1 DEF CondInv
      <4>3. (SelectedTo(nest', k) <=> SelectedTo(nest, k)) /\ (SelectedTo(nest', k - 1) <=> SelectedTo(nest, k - 1))
        BY <2>1, <2>7, <3>1
      <4> QED BY <2>3, <3>1, <4>1, <4>2, <4>3
    <3>2. CASE k = m
      <4>1. m - 1 \in 0 .. CondMax - 1
        BY <2>1, LexLimits DEF CondTypes
      <4>2. condActive'[m - 1] = takes /\ condSeen'[m - 1] = (takes \/ condSeen[m - 1])
        BY <2>2, <4>1 DEF CondTypes
      <4>3. nest'[m].taken
        BY <2>3
      <4>4. SelectedTo(nest', m - 1) <=> SelectedTo(nest, m - 1)
        <5>1. m - 1 \in 0 .. m - 1
          BY <2>1
        <5> QED BY <2>7, <5>1
      <4>5. SelectedTo(nest, m - 1) => (takes \/ condSeen[m - 1])
        BY <2>5, <2>6
      <4> QED BY <2>6, <2>8, <3>2, <4>2, <4>3, <4>4, <4>5, Zenon
    <3> QED BY <2>1, <3>1, <3>2
  <2> QED BY <1>1, <2>1, <2>3, <2>9 DEF CondInv
<1> QED BY <1>2, <1>3, <1>4 DEF CondTypes

LEMMA EndifKeeps ==
  ASSUME CondTypes, CondInv, ReadEndif
  PROVE  CondInv'
<1>1. over' = over /\ condActive' = condActive /\ condSeen' = condSeen
  BY DEF ReadEndif
<1>2. CASE over
  BY <1>1, <1>2 DEF CondInv
<1>3. CASE ~over
  <2> DEFINE m == Len(nest)
  <2>1. condDepth = m /\ m \in Nat
    BY <1>3 DEF CondInv, CondTypes
  <2>2. nest' = SubSeq(nest, 1, m - 1)
    BY DEF ReadEndif
  <2>3. /\ Len(nest') = condDepth'
        /\ Len(nest') = IF m > 0 THEN m - 1 ELSE 0
        /\ \A j \in 1 .. m - 1 : nest'[j] = nest[j]
    BY <2>1, <2>2 DEF ReadEndif, CondTypes
  <2>4. \A k \in 0 .. m - 1 : SelectedTo(nest', k) <=> SelectedTo(nest, k)
    BY <2>1, <2>3 DEF SelectedTo
  <2>5. ASSUME NEW k \in 1 .. Len(nest')
        PROVE  /\ condActive'[k - 1] <=> SelectedTo(nest', k)
               /\ SelectedTo(nest', k - 1) => (condSeen'[k - 1] <=> nest'[k].taken)
    <3>1. k \in 1 .. m - 1 /\ k \in 1 .. Len(nest)
      BY <2>1, <2>3
    <3>2. /\ condActive[k - 1] <=> SelectedTo(nest, k)
          /\ SelectedTo(nest, k - 1) => (condSeen[k - 1] <=> nest[k].taken)
      BY <1>3, <3>1 DEF CondInv
    <3>3. (SelectedTo(nest', k) <=> SelectedTo(nest, k)) /\ (SelectedTo(nest', k - 1) <=> SelectedTo(nest, k - 1))
      BY <2>1, <2>4, <3>1
    <3> QED BY <1>1, <2>3, <3>1, <3>2, <3>3
  <2> QED BY <2>3, <2>5 DEF CondInv
<1> QED BY <1>2, <1>3

LEMMA CondStep ==
  ASSUME TypeOK, CondInv, [Next]_vars
  PROVE  CondInv'
<1> USE DEF TypeOK
<1>1. CASE ReadIf
  BY <1>1, IfKeeps
<1>2. CASE ReadElse
  BY <1>2, ElseKeeps
<1>3. CASE ReadEndif
  BY <1>3, EndifKeeps
<1>4. CASE ~ReadIf /\ ~ReadElse /\ ~ReadEndif
  <2>1. UNCHANGED conds
    BY <1>4 DEF Next, Step, Finished, vars, ScanToken, SkipItem, ReadInclude, LeaveInclude,
                ReadDefine, EndOfSource, ReadStray, Runaway
  <2> QED BY <2>1 DEF CondInv, SelectedTo, conds
<1> QED BY <1>1, <1>2, <1>3, <1>4

(* While no %IF was deeper than COND_MAX, a token is emitted exactly when  *)
(* every open %IF is in its selected branch.                               *)
THEOREM LexCondExact == Spec => []CondExact
<1>1. Init => CondInv
  BY DEF Init, CondInv
<1>2. TypeOK /\ TypeOK' /\ CondInv /\ [Next]_vars => CondInv'
  BY CondStep
<1>3. TypeOK /\ CondInv => CondExact
  BY EmittingIsSelected DEF TypeOK, CondExact, AllSelected, SelectedTo
<1> QED BY <1>1, <1>2, <1>3, LexTypeOK, PTL DEF Spec
-----------------------------------------------------------------------------
(* Defines.  While lex_fatal is clear the table has one entry to a name,   *)
(* and it and the history agree on which names are defined and as what.    *)

DefsInv ==
  ~fatal =>
    /\ \A d, e \in 1 .. Len(defs) : Fold[defs[d].n] = Fold[defs[e].n] => d = e
    /\ \A d \in 1 .. Len(defs) : env[Fold[defs[d].n]] = defs[d].v
    /\ \A n \in Names : Entries(n) = {} => env[Fold[n]] = Undefined

LEMMA DefsLookup ==
  ASSUME DefTypes, DefsInv
  PROVE  DefsExact
<1> SUFFICES ASSUME ~fatal, NEW n \in Names PROVE DefGet(n) = env[Fold[n]]
  BY DEF DefsExact
<1>1. CASE Entries(n) = {}
  BY <1>1 DEF DefsInv, DefGet
<1>2. CASE Entries(n) # {}
  <2>1. PICK d \in Entries(n) : TRUE
    BY <1>2
  <2>2. \A e \in Entries(n) : e = d
    BY <2>1 DEF Entries, DefsInv
  <2>3. d = CHOOSE c \in Entries(n) : \A e \in Entries(n) : c <= e
    <3>1. d \in Int
      BY <2>1 DEF Entries
    <3>2. \A e \in Entries(n) : d <= e
      BY <2>2, <3>1
    <3> QED BY <2>1, <2>2, <3>2
  <2>4. DefGet(n) = defs[d].v
    BY <1>2, <2>3 DEF DefGet
  <2>5. Fold[defs[d].n] = Fold[n] /\ d \in 1 .. Len(defs)
    BY <2>1 DEF Entries
  <2>6. defs[d].v = env[Fold[defs[d].n]]
    BY <2>5 DEF DefsInv
  <2> QED BY <2>4, <2>5, <2>6
<1> QED BY <1>1, <1>2

LEMMA DefsStep ==
  ASSUME TypeOK, DefsInv, [Next]_vars
  PROVE  DefsInv'
<1>1. CASE ReadDefine
  <2> SUFFICES ASSUME ~fatal' PROVE DefsInv'
    BY DEF DefsInv
  <2> DEFINE h == Here.n
             v == Here.v
  <2>1. h \in Names /\ v \in Values /\ Fold[h] \in {Fold[m] : m \in Names}
    BY <1>1, HereTypes, DefineTypes DEF ReadDefine, TypeOK
  <2>2. ~fatal
    BY <1>1 DEF ReadDefine
  <2>3. /\ env'[Fold[h]] = v
        /\ \A n \in Names : Fold[n] # Fold[h] => env'[Fold[n]] = env[Fold[n]]
    <3>1. env' = [env EXCEPT ![Fold[h]] = v]
      BY <1>1 DEF ReadDefine
    <3> DEFINE D == {Fold[m] : m \in Names}
    <3>2. env \in [D -> Values \cup {Undefined}] /\ Fold[h] \in D
      BY <2>1 DEF TypeOK, DefTypes
    <3>3. \A n \in Names : Fold[n] \in D
      OBVIOUS
    <3> HIDE DEF h, v, D
    <3> QED BY <3>1, <3>2, <3>3
  <2>4. \A d \in 1 .. Len(defs) : defs[d] \in Line /\ defs[d].n \in Names
    <3>1. \A d \in 1 .. Len(defs) : defs[d] \in Line
      BY DEF TypeOK, DefTypes
    <3>2. \A l \in Line : l.n \in Names
      BY DEF Line
    <3> QED BY <3>1, <3>2
  <2>5. Len(defs) \in Nat
    BY DEF TypeOK, DefTypes
  <2>6. CASE Entries(h) # {}
    <3>1. defs' = [d \in 1 .. Len(defs) |->
                     IF d \in Entries(h) THEN [defs[d] EXCEPT !.v = v] ELSE defs[d]]
      BY <1>1, <2>6 DEF ReadDefine
    <3>2. defs' \in Seq(Line)
      BY <1>1, DefineTable DEF TypeOK, DefTypes
    <3>3. Len(defs') = Len(defs)
      BY <2>5, <3>1, <3>2
    <3>4. \A l \in Line : [l EXCEPT !.v = v].n = l.n /\ [l EXCEPT !.v = v].v = v
      BY DEF Line
    <3>5. \A d \in 1 .. Len(defs) :
            defs'[d].n = defs[d].n /\ defs'[d].v = IF d \in Entries(h) THEN v ELSE defs[d].v
      BY <2>4, <3>1, <3>4
    <3>6. \A n : Entries(n)' = Entries(n)
      BY <3>3, <3>5 DEF Entries
    <3>7. \A d \in 1 .. Len(defs) : d \in Entries(h) <=> Fold[defs[d].n] = Fold[h]
      BY DEF Entries
    <3>8. \A d, e \in 1 .. Len(defs') : Fold[defs'[d].n] = Fold[defs'[e].n] => d = e
      BY <2>2, <3>3, <3>5 DEF DefsInv
    <3>9. \A d \in 1 .. Len(defs') : env'[Fold[defs'[d].n]] = defs'[d].v
      BY <2>2, <2>3, <2>4, <3>3, <3>5, <3>7 DEF DefsInv
    <3>10. \A n \in Names : Entries(n)' = {} => env'[Fold[n]] = Undefined
      <4> TAKE n \in Names
      <4>1. CASE Fold[n] = Fold[h]
        BY <2>6, <3>6, <4>1 DEF Entries
      <4>2. CASE Fold[n] # Fold[h]
        BY <2>2, <2>3, <3>6, <4>2 DEF DefsInv
      <4> QED BY <4>1, <4>2
    <3> QED BY <3>8, <3>9, <3>10 DEF DefsInv
  <2>7. CASE Entries(h) = {}
    <3>1. defs' = Append(defs, [n |-> h, v |-> v])
      BY <1>1, <2>7 DEF ReadDefine
    <3>2. /\ Len(defs') = Len(defs) + 1
          /\ \A d \in 1 .. Len(defs) : defs'[d] = defs[d]
          /\ defs'[Len(defs) + 1].n = h /\ defs'[Len(defs) + 1].v = v
      <4> HIDE DEF h, v
      <4> QED BY <2>5, <3>1 DEF TypeOK, DefTypes
    <3>3. \A d \in 1 .. Len(defs) : Fold[defs[d].n] # Fold[h]
      BY <2>7 DEF Entries
    <3>4. \A d \in 1 .. Len(defs') : d \in 1 .. Len(defs) \/ d = Len(defs) + 1
      BY <2>5, <3>2
    <3> HIDE DEF h, v
    <3>5. \A d, e \in 1 .. Len(defs') : Fold[defs'[d].n] = Fold[defs'[e].n] => d = e
      BY <2>2, <3>2, <3>3, <3>4 DEF DefsInv
    <3>6. \A d \in 1 .. Len(defs') : env'[Fold[defs'[d].n]] = defs'[d].v
      BY <2>2, <2>3, <2>4, <3>2, <3>3, <3>4 DEF DefsInv
    <3>7. \A n \in Names : Entries(n)' = {} => env'[Fold[n]] = Undefined
      <4> SUFFICES ASSUME NEW n \in Names, Entries(n)' = {}
                   PROVE  env'[Fold[n]] = Undefined
        OBVIOUS
      <4>1. Fold[n] # Fold[h]
        <5>1. Len(defs) + 1 \in 1 .. Len(defs')
          BY <2>5, <3>2
        <5> QED BY <3>2, <5>1 DEF Entries
      <4>2. Entries(n) = {}
        <5>1. \A d \in 1 .. Len(defs) : d \in 1 .. Len(defs')
          BY <2>5, <3>2
        <5> QED BY <3>2, <5>1 DEF Entries
      <4> QED BY <2>2, <2>3, <4>1, <4>2 DEF DefsInv
    <3> QED BY <3>5, <3>6, <3>7 DEF DefsInv
  <2> QED BY <2>6, <2>7
<1>2. CASE Runaway
  BY <1>2 DEF Runaway, RunawayVerdict, DefsInv
<1>3. CASE ~ReadDefine /\ ~Runaway
  <2>1. UNCHANGED <<defs, env, fatal>>
    BY <1>3 DEF Next, Step, Finished, vars, NextIteration, ScanToken, SkipItem, ReadInclude,
                LeaveInclude, ReadIf, ReadElse, ReadEndif, EndOfSource, ReadStray
  <2> QED BY <2>1 DEF DefsInv, Entries
<1> QED BY <1>1, <1>2, <1>3

(* While lex_fatal is clear, looking a name up gives its last %DEFINE.     *)
THEOREM LexDefsExact == Spec => []DefsExact
<1>1. Init => DefsInv
  <2> SUFFICES ASSUME Init PROVE DefsInv OBVIOUS
  <2>1. Len(defs) = 0 /\ \A n \in Names : env[Fold[n]] = Undefined
    BY DEF Init
  <2> QED BY <2>1 DEF DefsInv
<1>2. TypeOK /\ TypeOK' /\ DefsInv /\ [Next]_vars => DefsInv'
  BY DefsStep
<1>3. TypeOK /\ DefsInv => DefsExact
  BY DefsLookup DEF TypeOK
<1> QED BY <1>1, <1>2, <1>3, LexTypeOK, PTL DEF Spec

-----------------------------------------------------------------------------
(* What a line adds, and that it is a state. *)

ItemOf(c) == text[c.file][c.at]
Over(c) == c.at > Len(text[c.file])
Texted == text \in [Files -> Seq(Items)]

LEMMA ReadingTypes ==
  ASSUME NEW c \in Reading
  PROVE  /\ c.depth \in 0 .. IncMaxDepth /\ c.file \in Files /\ c.at \in Nat \ {0}
         /\ c.st \in State
BY DEF Reading

LEMMA StateTypes ==
  ASSUME NEW s \in State
  PROVE  /\ s.env \in [Folded -> Values \cup {Undefined}] /\ s.open \in Seq(Branch)
         /\ s.toks \in Seq(Token)
BY DEF State

LEMMA ItemTypes ==
  ASSUME Texted, NEW c \in Reading, ~Over(c)
  PROVE  ItemOf(c) \in Items
<1>1. text[c.file] \in Seq(Items) /\ c.at \in 1 .. Len(text[c.file])
  BY ReadingTypes DEF Texted, Over
<1> QED BY <1>1 DEF ItemOf

(* What names and values a line holds. *)
LEMMA LineTypes ==
  ASSUME NEW i \in Items
  PROVE  /\ i.k \in {"tok", "define", "if"} => i.n \in Names
         /\ i.k = "define" => i.v \in Values
         /\ i.k = "if" => i.v \in Values \cup {Any}
<1>1. \/ \E n \in Names : i = Tok(n)
      \/ \E n \in Names, v \in Values : i = Def(n, v)
      \/ \E n \in Names, v \in Values \cup {Any} : i = If(n, v)
      \/ i.k \in {"else", "endif", "stray", "include"}
  BY LexAssumption DEF Else, Endif, Stray
<1> QED BY <1>1 DEF Tok, Def, If

LEMMA EmittedState ==
  ASSUME NEW c \in Reading, NEW n \in Names
  PROVE  Emitted(c, n) \in State
<1>1. c.st.env[Fold[n]] \in Values \cup {Undefined}
  <2>1. Fold[n] \in Folded
    BY DEF Folded
  <2>2. c.st.env \in [Folded -> Values \cup {Undefined}]
    BY ReadingTypes, StateTypes
  <2> QED BY <2>1, <2>2
<1>2. Meaning(c.st, n) \in Names \cup Values
  BY <1>1 DEF Meaning
<1>3. LineOf(c) \in Nat
  BY ReadingTypes, LexLimits DEF LineOf
<1> DEFINE t == [file |-> c.file, line |-> LineOf(c), as |-> Meaning(c.st, n)]
<1>4. t \in Token
  BY <1>2, <1>3, ReadingTypes DEF Token
<1> HIDE DEF t
<1>5. Append(c.st.toks, t) \in Seq(Token)
  BY <1>4, ReadingTypes, StateTypes
<1> QED BY <1>5, ReadingTypes DEF Emitted, State, t

LEMMA DefiningState ==
  ASSUME NEW s \in State, NEW n \in Names, NEW v \in Values
  PROVE  Defining(s, n, v) \in State
<1>1. [s.env EXCEPT ![Fold[n]] = v] \in [Folded -> Values \cup {Undefined}]
  BY StateTypes
<1> QED BY <1>1 DEF Defining, State

LEMMA OpenedState ==
  ASSUME NEW s \in State, NEW n, NEW v
  PROVE  Opened(s, n, v) \in State
<1> DEFINE held == IF v = Any THEN s.env[Fold[n]] # Undefined ELSE s.env[Fold[n]] = v
<1>1. held \in BOOLEAN
  OBVIOUS
<1>2. Opened(s, n, v) = [s EXCEPT !.open = Append(@, [sel |-> held, taken |-> held])]
  BY DEF Opened
<1> HIDE DEF held
<1>3. [sel |-> held, taken |-> held] \in Branch
  BY <1>1 DEF Branch
<1>4. Append(s.open, [sel |-> held, taken |-> held]) \in Seq(Branch)
  BY <1>3, StateTypes
<1> QED BY <1>2, <1>4 DEF State

LEMMA TurnedState ==
  ASSUME NEW s \in State
  PROVE  Turned(s) \in State
<1> DEFINE turned == [j \in 1 .. Len(s.open) |->
             IF j = Len(s.open) THEN [sel |-> ~s.open[j].taken, taken |-> TRUE] ELSE s.open[j]]
<1>1. turned \in Seq(Branch)
  <2>1. s.open \in Seq(Branch) /\ Len(s.open) \in Nat
    BY StateTypes
  <2>2. \A j \in 1 .. Len(s.open) : [sel |-> ~s.open[j].taken, taken |-> TRUE] \in Branch
    BY DEF Branch
  <2>3. \A j \in 1 .. Len(s.open) : turned[j] \in Branch
    BY <2>1, <2>2
  <2>4. turned \in [1 .. Len(s.open) -> Branch]
    BY <2>3
  <2> HIDE DEF turned
  <2> QED BY <2>1, <2>4
<1>2. Turned(s) = [s EXCEPT !.open = turned]
  BY DEF Turned
<1> HIDE DEF turned
<1> QED BY <1>1, <1>2 DEF State

LEMMA ClosedState ==
  ASSUME NEW s \in State
  PROVE  Closed(s) \in State
<1>1. SubSeq(s.open, 1, Len(s.open) - 1) \in Seq(Branch)
  BY StateTypes
<1> QED BY <1>1 DEF Closed, State

LEMMA AfterState ==
  ASSUME NEW c \in Reading, NEW i \in Items
  PROVE  After(c, i) \in State
<1>1. c.st \in State
  BY ReadingTypes
<1>2. CASE i.k = "tok" /\ Selected(c.st)
  <2>1. After(c, i) = Emitted(c, i.n)
    BY <1>2 DEF After
  <2> QED BY <1>2, <2>1, LineTypes, EmittedState
<1>3. CASE i.k = "define" /\ Selected(c.st)
  <2>1. After(c, i) = Defining(c.st, i.n, i.v)
    BY <1>3 DEF After
  <2> QED BY <1>1, <1>3, <2>1, LineTypes, DefiningState
<1>4. CASE i.k = "if"
  <2>1. After(c, i) = Opened(c.st, i.n, i.v)
    BY <1>4 DEF After
  <2> QED BY <1>1, <2>1, OpenedState
<1>5. CASE i.k = "else"
  BY <1>1, <1>5, TurnedState DEF After
<1>6. CASE i.k = "endif"
  BY <1>1, <1>6, ClosedState DEF After
<1>7. CASE /\ ~(i.k = "tok" /\ Selected(c.st)) /\ ~(i.k = "define" /\ Selected(c.st))
           /\ i.k # "if" /\ i.k # "else" /\ i.k # "endif"
  <2>1. After(c, i) = c.st
    BY <1>7 DEF After
  <2> QED BY <1>1, <2>1
<1> QED BY <1>2, <1>3, <1>4, <1>5, <1>6, <1>7

LEMMA IncludedReading ==
  ASSUME NEW c \in Reading, NEW i, Enters(c, i)
  PROVE  Included(c, i) \in Reading
BY ReadingTypes, LexLimits DEF Enters, Included, Reading

LEMMA OnwardReading ==
  ASSUME NEW c \in Reading, NEW s \in State
  PROVE  /\ Onward(c, s) \in Reading /\ Onward(c, s).depth = c.depth
         /\ Onward(c, s).file = c.file /\ Onward(c, s).at = c.at + 1
         /\ Onward(c, s).st = s
<1> DEFINE n == c.at + 1
<1>1. n \in Nat \ {0}
  BY ReadingTypes
<1>2. Onward(c, s) = [depth |-> c.depth, file |-> c.file, at |-> n, st |-> s]
  BY DEF Onward
<1> HIDE DEF n
<1>3. /\ Onward(c, s) \in Reading /\ Onward(c, s).depth = c.depth
      /\ Onward(c, s).file = c.file /\ Onward(c, s).at = n /\ Onward(c, s).st = s
  BY <1>1, <1>2 DEF Reading
<1> QED BY <1>3 DEF n

-----------------------------------------------------------------------------
(* The expansion exists: its calls go deeper into includes, or nearer the  *)
(* end of a file.                                                          *)

(* A set of natural numbers has a least element.                           *)
LEMMA NatLeast ==
  ASSUME NEW T, T \subseteq Nat, T # {}
  PROVE  \E m \in T : \A k \in T : m <= k
<1>1. PICK x \in T : \A y \in T : ~ (<<y, x>> \in OpToRel(<, Nat))
  BY NatLessThanWellFounded, WFMin, Zenon
<1>2. ASSUME NEW y \in T PROVE ~ (y < x)
  <2>1. y \in Nat /\ x \in Nat
    OBVIOUS
  <2>2. ~ (<<y, x>> \in OpToRel(<, Nat))
    BY <1>1, Zenon
  <2> QED BY <2>1, <2>2, Zenon DEF OpToRel
<1>3. \A y \in T : y \in Nat /\ x \in Nat /\ ~(y < x)
  BY <1>2, Zenon
<1>4. \A y \in T : x <= y
  BY <1>3, SMT
<1> QED BY <1>4, Zenon

Left(c) == IF Over(c) THEN 0 ELSE Len(text[c.file]) + 1 - c.at
Before(e, c) == e.depth > c.depth \/ (e.depth = c.depth /\ Left(e) < Left(c))

LEMMA LeftTypes ==
  ASSUME Texted, NEW c \in Reading
  PROVE  Left(c) \in Nat
<1>1. Len(text[c.file]) \in Nat /\ c.at \in Nat
  BY ReadingTypes DEF Texted
<1> QED BY <1>1 DEF Left, Over

LEMMA LeastReading ==
  ASSUME Texted, NEW T, T \subseteq Reading, T # {}
  PROVE  \E c \in T : \A e \in T : ~Before(e, c)
<1> DEFINE Room(c) == IncMaxDepth - c.depth
           Rooms == {Room(c) : c \in T}
<1>1. \A c \in T : c.depth \in 0 .. IncMaxDepth /\ Room(c) \in Nat
  BY ReadingTypes, LexLimits
<1>2. PICK r \in Rooms : \A q \in Rooms : r <= q
  <2>1. Rooms \subseteq Nat /\ Rooms # {}
    BY <1>1
  <2> HIDE DEF Rooms
  <2> QED BY <2>1, NatLeast
<1>3. PICK a \in T : r = Room(a)
  OBVIOUS
<1>4. \A e \in T : e.depth <= a.depth
  <2> TAKE e \in T
  <2>1. Room(a) <= Room(e)
    BY <1>2, <1>3
  <2> QED BY <1>1, <2>1, LexLimits
<1> HIDE DEF Room, Rooms
<1> DEFINE Deep == {e \in T : e.depth = a.depth}
           Lefts == {Left(e) : e \in Deep}
<1>5. PICK l \in Lefts : \A q \in Lefts : l <= q
  <2>1. Lefts \subseteq Nat /\ Lefts # {}
    BY LeftTypes
  <2> HIDE DEF Lefts
  <2> QED BY <2>1, NatLeast
<1>6. PICK c \in Deep : l = Left(c)
  OBVIOUS
<1>7. ASSUME NEW e \in T PROVE ~Before(e, c)
  <2>1. c.depth = a.depth /\ e.depth <= a.depth /\ c.depth \in Int /\ e.depth \in Int
    BY <1>1, <1>4
  <2>2. e.depth = c.depth => Left(c) <= Left(e)
    BY <1>5, <1>6, <2>1
  <2>3. Left(e) \in Nat /\ Left(c) \in Nat
    BY LeftTypes
  <2> QED BY <2>1, <2>2, <2>3 DEF Before
<1> QED BY <1>7

(* The calls of a reading.                                                 *)
Goes(c) == Enters(c, ItemOf(c))
Inner(c) == Included(c, ItemOf(c))
NextOf(E, c) == Onward(c, IF Goes(c) THEN E[Inner(c)] ELSE After(c, ItemOf(c)))
Body(E, c) == IF Over(c) THEN c.st ELSE E[NextOf(E, c)]

LEMMA InnerBefore ==
  ASSUME NEW c \in Reading, Goes(c)
  PROVE  Inner(c) \in Reading /\ Before(Inner(c), c)
<1>1. Inner(c) \in Reading
  BY IncludedReading DEF Goes, Inner
<1>2. Inner(c).depth = c.depth + 1 /\ c.depth \in Int
  BY ReadingTypes DEF Inner, Included
<1> QED BY <1>1, <1>2 DEF Before

LEMMA OnwardBefore ==
  ASSUME Texted, NEW c \in Reading, ~Over(c), NEW s \in State
  PROVE  Before(Onward(c, s), c)
<1> DEFINE n == Onward(c, s)
<1>1. n.depth = c.depth /\ n.file = c.file /\ n.at = c.at + 1
  BY OnwardReading
<1>2. Len(text[c.file]) \in Nat /\ c.at \in Nat
  BY ReadingTypes DEF Texted
<1> HIDE DEF n
<1>3. Left(n) < Left(c)
  BY <1>1, <1>2 DEF Left, Over
<1>4. Before(n, c)
  BY <1>1, <1>3 DEF Before
<1> QED BY <1>4 DEF n

(* Two functions that satisfy the equation wherever its calls lead agree.  *)
LEMMA Agreement ==
  ASSUME Texted, NEW Z, Z \subseteq Reading, NEW g, NEW h,
         \A c \in Z : g[c] = Body(g, c) /\ h[c] = Body(h, c),
         \A c \in Z : ~Over(c) =>
           /\ Goes(c) => Inner(c) \in Z
           /\ (Goes(c) => g[Inner(c)] = h[Inner(c)]) =>
                NextOf(g, c) \in Z /\ Before(NextOf(g, c), c)
  PROVE  \A c \in Z : g[c] = h[c]
<1> DEFINE Bad == {c \in Z : g[c] # h[c]}
<1> SUFFICES ASSUME Bad # {} PROVE FALSE
  OBVIOUS
<1>1. PICK c \in Bad : \A e \in Bad : ~Before(e, c)
  <2>1. Bad \subseteq Reading
    OBVIOUS
  <2> HIDE DEF Bad
  <2> QED BY <2>1, LeastReading
<1>2. c \in Z /\ c \in Reading /\ g[c] # h[c] /\ \A e \in Z : Before(e, c) => g[e] = h[e]
  BY <1>1
<1> HIDE DEF Bad
<1>3. ~Over(c)
  BY <1>2 DEF Body
<1>4. Goes(c) => g[Inner(c)] = h[Inner(c)]
  BY <1>2, <1>3, InnerBefore
<1>5. NextOf(g, c) \in Z /\ Before(NextOf(g, c), c)
  BY <1>2, <1>3, <1>4
<1>6. NextOf(g, c) = NextOf(h, c)
  BY <1>4 DEF NextOf
<1>7. g[NextOf(g, c)] = h[NextOf(h, c)]
  BY <1>2, <1>5, <1>6
<1> QED BY <1>2, <1>3, <1>7 DEF Body

(* g satisfies the equation on X, which its calls do not leave.            *)
Solves(g, X) ==
  /\ X \subseteq Reading /\ g \in [X -> State]
  /\ \A c \in X : g[c] = Body(g, c)
  /\ \A c \in X : ~Over(c) => (Goes(c) => Inner(c) \in X) /\ NextOf(g, c) \in X

LEMMA NextTypes ==
  ASSUME Texted, NEW c \in Reading, ~Over(c), NEW g, Goes(c) => g[Inner(c)] \in State
  PROVE  NextOf(g, c) \in Reading /\ Before(NextOf(g, c), c)
<1> DEFINE s == IF Goes(c) THEN g[Inner(c)] ELSE After(c, ItemOf(c))
<1>1. s \in State
  BY ItemTypes, AfterState
<1>2. NextOf(g, c) = Onward(c, s)
  BY DEF NextOf
<1> HIDE DEF s
<1> QED BY <1>1, <1>2, OnwardReading, OnwardBefore

LEMMA SolutionsAgree ==
  ASSUME Texted, NEW g, NEW X, Solves(g, X), NEW h, NEW Y, Solves(h, Y)
  PROVE  \A c \in X \cap Y : g[c] = h[c]
<1> DEFINE Z == X \cap Y
<1>1. Z \subseteq Reading /\ \A c \in Z : g[c] = Body(g, c) /\ h[c] = Body(h, c)
  BY DEF Solves
<1>2. ASSUME NEW c \in Z, ~Over(c)
      PROVE  /\ Goes(c) => Inner(c) \in Z
             /\ (Goes(c) => g[Inner(c)] = h[Inner(c)]) =>
                  NextOf(g, c) \in Z /\ Before(NextOf(g, c), c)
  <2>1. /\ Goes(c) => Inner(c) \in X /\ Inner(c) \in Y
        /\ NextOf(g, c) \in X /\ NextOf(h, c) \in Y /\ c \in Reading
    BY <1>2 DEF Solves
  <2>2. (Goes(c) => g[Inner(c)] = h[Inner(c)]) => NextOf(g, c) = NextOf(h, c)
    BY DEF NextOf
  <2>3. Goes(c) => g[Inner(c)] \in State
    BY <2>1 DEF Solves
  <2>4. Before(NextOf(g, c), c)
    BY <1>2, <2>1, <2>3, NextTypes
  <2> QED BY <2>1, <2>2, <2>4
<1> HIDE DEF Z
<1>3. \A c \in Z : g[c] = h[c]
  BY <1>1, <1>2, Agreement
<1> QED BY <1>3 DEF Z

(* Adding one reading to two solutions that hold its calls.                *)
LEMMA SolutionGrows ==
  ASSUME Texted, NEW g, NEW X, Solves(g, X), NEW h, NEW Y, Solves(h, Y),
         NEW c \in Reading, c \notin X, c \notin Y,
         ~Over(c), Goes(c) => Inner(c) \in X, NextOf(g, c) \in Y
  PROVE  \E f, W : Solves(f, W) /\ c \in W
<1> DEFINE W == X \cup Y \cup {c}
           f == [e \in W |-> IF e = c THEN h[NextOf(g, c)] ELSE IF e \in X THEN g[e] ELSE h[e]]
<1>1. \A e \in X : f[e] = g[e] /\ g[e] \in State
  BY DEF Solves
<1>2. \A e \in Y : f[e] = h[e] /\ h[e] \in State
  <2> TAKE e \in Y
  <2>1. e \in X => g[e] = h[e]
    BY SolutionsAgree
  <2> QED BY <2>1 DEF Solves
<1>3. f[c] = h[NextOf(g, c)] /\ f \in [W -> State] /\ W \subseteq Reading
  <2>1. f[c] = h[NextOf(g, c)]
    OBVIOUS
  <2>2. \A e \in W : f[e] \in State
    BY <1>1, <1>2, <2>1
  <2>3. W \subseteq Reading
    BY DEF Solves
  <2> QED BY <2>1, <2>2, <2>3
<1>0. X \subseteq W /\ Y \subseteq W /\ c \in W /\ \A e \in W : e \in X \/ e \in Y \/ e = c
  OBVIOUS
<1> HIDE DEF f, W
<1>4. ASSUME NEW e \in X
      PROVE  /\ f[e] = Body(f, e)
             /\ ~Over(e) => (Goes(e) => Inner(e) \in W) /\ NextOf(f, e) \in W
  <2>1. /\ g[e] = Body(g, e)
        /\ ~Over(e) => (Goes(e) => Inner(e) \in X) /\ NextOf(g, e) \in X
    BY DEF Solves
  <2>2. ~Over(e) => NextOf(f, e) = NextOf(g, e)
    BY <1>1, <2>1 DEF NextOf
  <2>3. Body(f, e) = Body(g, e)
    BY <1>1, <2>1, <2>2 DEF Body
  <2> QED BY <1>0, <1>1, <2>1, <2>2, <2>3
<1>5. ASSUME NEW e \in Y
      PROVE  /\ f[e] = Body(f, e)
             /\ ~Over(e) => (Goes(e) => Inner(e) \in W) /\ NextOf(f, e) \in W
  <2>1. /\ h[e] = Body(h, e)
        /\ ~Over(e) => (Goes(e) => Inner(e) \in Y) /\ NextOf(h, e) \in Y
    BY DEF Solves
  <2>2. ~Over(e) => NextOf(f, e) = NextOf(h, e)
    BY <1>2, <2>1 DEF NextOf
  <2>3. Body(f, e) = Body(h, e)
    BY <1>2, <2>1, <2>2 DEF Body
  <2> QED BY <1>0, <1>2, <2>1, <2>2, <2>3
<1>6. /\ f[c] = Body(f, c)
      /\ (Goes(c) => Inner(c) \in W) /\ NextOf(f, c) \in W
  <2>1. NextOf(f, c) = NextOf(g, c)
    BY <1>1 DEF NextOf
  <2>2. f[NextOf(f, c)] = h[NextOf(g, c)]
    BY <1>2, <2>1
  <2> QED BY <1>0, <1>3, <2>1, <2>2 DEF Body
<1>7. Solves(f, W)
  BY <1>0, <1>3, <1>4, <1>5, <1>6 DEF Solves
<1> QED BY <1>0, <1>7

LEMMA Solvable ==
  ASSUME Texted
  PROVE  \A c \in Reading : \E g, X : Solves(g, X) /\ c \in X
<1> DEFINE Solved(c) == \E g, X : Solves(g, X) /\ c \in X
           Bad == {c \in Reading : ~Solved(c)}
<1> SUFFICES ASSUME Bad # {} PROVE FALSE
  OBVIOUS
<1>1. PICK c \in Bad : \A e \in Bad : ~Before(e, c)
  <2>1. Bad \subseteq Reading
    OBVIOUS
  <2> HIDE DEF Bad
  <2> QED BY <2>1, LeastReading
<1>2. c \in Reading /\ ~Solved(c) /\ \A e \in Reading : Before(e, c) => Solved(e)
  BY <1>1
<1> HIDE DEF Bad
<1>3. CASE Over(c)
  <2> DEFINE g == [e \in {c} |-> c.st]
  <2>1. Solves(g, {c})
    BY <1>2, <1>3, ReadingTypes DEF Solves, Body
  <2> QED BY <1>2, <2>1
<1>4. CASE ~Over(c)
  <2>1. PICK g, X : Solves(g, X) /\ (Goes(c) => Inner(c) \in X)
    <3>1. CASE Goes(c)
      BY <1>2, <3>1, InnerBefore
    <3>2. CASE ~Goes(c)
      <4>1. Solves([e \in {} |-> c.st], {})
        BY DEF Solves
      <4> QED BY <3>2, <4>1
    <3> QED BY <3>1, <3>2
  <2>2. Goes(c) => g[Inner(c)] \in State
    BY <2>1 DEF Solves
  <2>3. NextOf(g, c) \in Reading /\ Before(NextOf(g, c), c)
    BY <1>2, <1>4, <2>2, NextTypes
  <2>4. Solved(NextOf(g, c))
    BY <1>2, <2>3
  <2>5. PICK h, Y : Solves(h, Y) /\ NextOf(g, c) \in Y
    BY <2>4
  <2>6. c \notin X /\ c \notin Y
    BY <1>2, <2>1, <2>5
  <2> QED BY <1>2, <1>4, <2>1, <2>5, <2>6, SolutionGrows
<1> QED BY <1>3, <1>4

LEMMA ExpandExists ==
  ASSUME Texted
  PROVE  \E E : E \in [Reading -> State] /\ \A c \in Reading : E[c] = Body(E, c)
<1> DEFINE Solution(c) == CHOOSE g : \E X : Solves(g, X) /\ c \in X
           E == [c \in Reading |-> Solution(c)[c]]
<1>1. \A c \in Reading : \E X : Solves(Solution(c), X) /\ c \in X
  BY Solvable
<1> HIDE DEF Solution
<1>2. ASSUME NEW c \in Reading, NEW g, NEW X, Solves(g, X), c \in X
      PROVE  E[c] = g[c] /\ g[c] \in State
  <2>1. PICK Y : Solves(Solution(c), Y) /\ c \in Y
    BY <1>1
  <2>2. Solution(c)[c] = g[c]
    BY <1>2, <2>1, SolutionsAgree
  <2> QED BY <1>2, <2>2 DEF Solves
<1>3. ASSUME NEW c \in Reading PROVE E[c] = Body(E, c) /\ E[c] \in State
  <2>1. PICK g, X : Solves(g, X) /\ c \in X
    BY Solvable
  <2>2. E[c] = g[c] /\ g[c] \in State /\ g[c] = Body(g, c)
    BY <1>2, <2>1 DEF Solves
  <2> HIDE DEF E
  <2>3. CASE Over(c)
    BY <2>2, <2>3 DEF Body
  <2>4. CASE ~Over(c)
    <3>1. (Goes(c) => Inner(c) \in X) /\ NextOf(g, c) \in X /\ X \subseteq Reading
      BY <2>1, <2>4 DEF Solves
    <3>2. Goes(c) => E[Inner(c)] = g[Inner(c)]
      BY <1>2, <2>1, <3>1
    <3>3. NextOf(E, c) = NextOf(g, c)
      BY <3>2 DEF NextOf
    <3>4. E[NextOf(g, c)] = g[NextOf(g, c)]
      BY <1>2, <2>1, <3>1
    <3> QED BY <2>2, <2>4, <3>3, <3>4 DEF Body
  <2> QED BY <2>3, <2>4
<1>4. E \in [Reading -> State]
  BY <1>3
<1> QED BY <1>3, <1>4

(* Reading on: one line of the expansion.                                  *)
LEMMA ExpandLine ==
  ASSUME Texted
  PROVE  Expand \in [Reading -> State] /\ \A c \in Reading : Expand[c] = Body(Expand, c)
<1> DEFINE Equation(E) == E = [c \in Reading |-> Body(E, c)]
<1>1. Expand = CHOOSE E : Equation(E)
  BY DEF Expand, Body, NextOf, Goes, Inner, ItemOf, Over
<1>2. PICK W : W \in [Reading -> State] /\ \A c \in Reading : W[c] = Body(W, c)
  BY ExpandExists
<1>3. Equation(W)
  BY <1>2
<1>4. Equation(Expand)
  <2> HIDE DEF Equation
  <2> QED BY <1>1, <1>3
<1>5. \A c \in Reading : Expand[c] = Body(Expand, c)
  BY <1>4
<1>6. \A c \in Reading : W[c] = Expand[c]
  <2>1. ASSUME NEW c \in Reading, ~Over(c)
        PROVE  /\ Goes(c) => Inner(c) \in Reading
               /\ NextOf(W, c) \in Reading /\ Before(NextOf(W, c), c)
    <3>1. Goes(c) => Inner(c) \in Reading /\ W[Inner(c)] \in State
      BY <1>2, InnerBefore
    <3> QED BY <2>1, <3>1, NextTypes
  <2> HIDE DEF Equation
  <2> QED BY <1>2, <1>5, <2>1, Agreement
<1>7. Expand \in [Reading -> State]
  <2>1. \A c \in Reading : Expand[c] \in State
    BY <1>2, <1>6
  <2>2. Expand = [c \in Reading |-> Body(Expand, c)]
    BY <1>4
  <2> HIDE DEF Equation
  <2>3. DOMAIN Expand = Reading
    BY <2>2
  <2>4. Expand = [c \in Reading |-> Expand[c]]
    BY <2>2, <2>3
  <2> QED BY <2>1, <2>4
<1> QED BY <1>5, <1>7

-----------------------------------------------------------------------------
(* The lexer computes the expansion.  R[k] is the state when the file k    *)
(* includes deep has been read: what the lexer still has to read from      *)
(* where it stands, and then in each of the files it will come back to.    *)

Now == [env |-> env, open |-> nest, toks |-> out]
Current == [depth |-> Len(incStack), file |-> src, at |-> pos, st |-> Now]
Parent(k, st) ==
  [depth |-> k - 1, file |-> incStack[k].src, at |-> incStack[k].pos, st |-> st]
Returns(R) ==
  /\ R \in [0 .. Len(incStack) -> State]
  /\ R[Len(incStack)] = Expand[Current]
  /\ \A k \in 1 .. Len(incStack) : R[k - 1] = Expand[Parent(k, R[k])]
  /\ R[0] = Expand[ReadMain]

Faultless == ~fatal /\ ~over /\ ~dropped /\ ~stray

Number(k, p) == IF k > 0 THEN p - 1 ELSE p
LinesInv ==
  /\ out \in Seq(Token) /\ line = Number(Len(incStack), pos)
  /\ \A k \in 1 .. Len(incStack) : incStack[k].line = Number(k - 1, incStack[k].pos)

ExpInv ==
  /\ LinesInv
  /\ Faultless => IF done THEN out = Expand[ReadMain].toks ELSE \E R : Returns(R)

LEMMA NowTypes ==
  ASSUME TypeOK, LinesInv
  PROVE  /\ Texted /\ Now \in State /\ Current \in Reading
         /\ (~AtEnd <=> ~Over(Current)) /\ ItemOf(Current) = Here
<1>1. Texted
  BY DEF TypeOK, PlaceTypes, Texted
<1>2. Now \in State
  BY DEF TypeOK, DefTypes, CondTypes, LinesInv, Now, State, Folded
<1>3. Len(incStack) \in 0 .. IncMaxDepth
  BY LexLimits DEF TypeOK, PlaceTypes
<1>4. Current \in Reading
  BY <1>2, <1>3 DEF TypeOK, PlaceTypes, Current, Reading
<1> QED BY <1>1, <1>2, <1>4 DEF AtEnd, Over, Here, ItemOf, Current

(* Selected and Meaning are what the lexer computes. *)
LEMMA SelectedNow ==
  ASSUME TypeOK, CondExact, ~over
  PROVE  Emitting <=> Selected(Now)
BY DEF CondExact, AllSelected, Selected, Now

(* A line that is read past adds what After says. *)
LEMMA PastReturns ==
  ASSUME TypeOK, LinesInv, NEW R, Returns(R), ~AtEnd, Past, ~Goes(Current),
         Now' = After(Current, Here)
  PROVE  Returns(R)'
<1>1. /\ text' = text /\ src' = src /\ incStack' = incStack /\ pos' = pos + 1
      /\ Current \in Reading /\ ~Over(Current) /\ ItemOf(Current) = Here /\ Texted
  BY NowTypes DEF Past
<1>2. Expand' = Expand
  BY <1>1 DEF Expand
<1>3. NextOf(Expand, Current) = Onward(Current, Now')
  BY <1>1 DEF NextOf
<1>4. Onward(Current, Now') = Current'
  <2> DEFINE c == Current
             s == Now'
  <2>1. c.depth = Len(incStack) /\ c.file = src /\ c.at = pos
    BY DEF Current
  <2>2. Onward(c, s) = [depth |-> Len(incStack), file |-> src, at |-> pos + 1, st |-> s]
    BY <2>1 DEF Onward
  <2>3. Current' = [depth |-> Len(incStack'), file |-> src', at |-> pos', st |-> s]
    BY DEF Current
  <2> HIDE DEF c, s
  <2>4. Onward(c, s) = Current'
    BY <1>1, <2>2, <2>3
  <2> QED BY <2>4 DEF c, s
<1>5. Expand[Current] = Expand[Current']
  BY <1>1, <1>3, <1>4, ExpandLine DEF Body
<1>6. Expand[Current]' = Expand[Current']
  BY <1>2
<1>7. \A k, s : Parent(k, s)' = Parent(k, s)
  BY <1>1 DEF Parent
<1> QED BY <1>1, <1>2, <1>5, <1>7 DEF Returns

LEMMA TokenReturns ==
  ASSUME TypeOK, LinesInv, CondExact, DefsExact, Faultless, NEW R, Returns(R), ScanToken
  PROVE  Returns(R)'
<1>1. ~AtEnd /\ Past /\ Emitting /\ Here.k = "tok" /\ env' = env /\ nest' = nest
  BY DEF ScanToken, conds
<1>2. Here \in Items /\ Here.n \in Names
  BY <1>1, HereTypes, LineTypes DEF TypeOK
<1>3. Selected(Now)
  BY <1>1, SelectedNow DEF Faultless
<1>4. Meaning(Now, Here.n) = LET v == DefGet(Here.n) IN IF v \in {Undefined, Empty} THEN Here.n ELSE v
  BY <1>2 DEF Meaning, Now, DefsExact, Faultless
<1>5. LineOf(Current) = line
  BY DEF LineOf, Current, LinesInv, Number
<1>6. out' = Append(out, [file |-> src, line |-> line, as |-> Meaning(Now, Here.n)])
  BY <1>4 DEF ScanToken
<1>7. After(Current, Here) = Emitted(Current, Here.n)
  BY <1>1, <1>3 DEF After, Current
<1>8. Now' = Emitted(Current, Here.n)
  <2> DEFINE t == [file |-> src, line |-> line, as |-> Meaning(Now, Here.n)]
  <2>1. Emitted(Current, Here.n) = [Now EXCEPT !.toks = Append(Now.toks, t)]
    BY <1>5 DEF Emitted, Current
  <2>2. out' = Append(out, t)
    BY <1>6
  <2> HIDE DEF t
  <2>3. Now.toks = out
    BY DEF Now
  <2> DEFINE ts == Append(out, t)
  <2> HIDE DEF ts
  <2>4. [Now EXCEPT !.toks = ts] = [env |-> env, open |-> nest, toks |-> ts]
    BY DEF Now
  <2>5. Now' = [env |-> env, open |-> nest, toks |-> ts]
    BY <1>1, <2>2 DEF Now, ts
  <2> QED BY <2>1, <2>3, <2>4, <2>5 DEF ts
<1>9. ~Goes(Current)
  BY <1>1, NowTypes DEF Goes, Enters
<1> QED BY <1>1, <1>7, <1>8, <1>9, PastReturns

LEMMA SkipReturns ==
  ASSUME TypeOK, LinesInv, CondExact, Faultless, NEW R, Returns(R), SkipItem
  PROVE  Returns(R)'
<1>1. /\ ~AtEnd /\ Past /\ ~Emitting /\ Here.k \in {"tok", "include", "define", "stray"}
      /\ env' = env /\ nest' = nest /\ out' = out
  BY DEF SkipItem, conds, NextIteration
<1>2. ~Selected(Now)
  BY <1>1, SelectedNow DEF Faultless
<1>3. After(Current, Here) = Now
  BY <1>1, <1>2 DEF After, Current
<1>4. Now' = Now
  BY <1>1 DEF Now
<1>5. ~Goes(Current)
  BY <1>2 DEF Goes, Enters, Current
<1> QED BY <1>1, <1>3, <1>4, <1>5, PastReturns

LEMMA DefineReturns ==
  ASSUME TypeOK, LinesInv, CondExact, Faultless, NEW R, Returns(R), ReadDefine
  PROVE  Returns(R)'
<1>1. /\ ~AtEnd /\ Past /\ Emitting /\ Here.k = "define"
      /\ env' = [env EXCEPT ![Fold[Here.n]] = Here.v] /\ nest' = nest /\ out' = out
  BY DEF ReadDefine, conds
<1>2. Selected(Now)
  BY <1>1, SelectedNow DEF Faultless
<1>3. After(Current, Here) = Defining(Now, Here.n, Here.v)
  BY <1>1, <1>2 DEF After, Current
<1>4. Now' = Defining(Now, Here.n, Here.v)
  BY <1>1 DEF Now, Defining
<1>5. ~Goes(Current)
  BY <1>1, NowTypes DEF Goes, Enters
<1> QED BY <1>1, <1>3, <1>4, <1>5, PastReturns

LEMMA IfReturns ==
  ASSUME TypeOK, LinesInv, DefsExact, Faultless, NEW R, Returns(R), ReadIf
  PROVE  Returns(R)'
<1>1. /\ ~AtEnd /\ Past /\ Here.k = "if" /\ env' = env /\ out' = out
      /\ nest' = Append(nest, [sel |-> Holds(Here.n, Here.v), taken |-> Holds(Here.n, Here.v)])
  BY DEF ReadIf, NextIteration
<1>2. Here \in Items /\ Here.n \in Names
  BY <1>1, HereTypes, LineTypes DEF TypeOK
<1>3. DefGet(Here.n) = env[Fold[Here.n]]
  BY <1>2 DEF DefsExact, Faultless
<1>4. Opened(Now, Here.n, Here.v) =
        [Now EXCEPT !.open = Append(@, [sel |-> Holds(Here.n, Here.v), taken |-> Holds(Here.n, Here.v)])]
  BY <1>3 DEF Opened, Holds, Now
<1>5. Now' = Opened(Now, Here.n, Here.v)
  BY <1>1, <1>4 DEF Now
<1>6. After(Current, Here) = Opened(Now, Here.n, Here.v)
  BY <1>1 DEF After, Current
<1>7. ~Goes(Current)
  BY <1>1, NowTypes DEF Goes, Enters
<1> QED BY <1>1, <1>5, <1>6, <1>7, PastReturns

LEMMA ElseReturns ==
  ASSUME TypeOK, LinesInv, Faultless, NEW R, Returns(R), ReadElse
  PROVE  Returns(R)'
<1>1. /\ ~AtEnd /\ Past /\ Here.k = "else" /\ env' = env /\ out' = out
      /\ nest' = [j \in 1 .. Len(nest) |->
                    IF j = Len(nest) THEN [sel |-> ~nest[j].taken, taken |-> TRUE] ELSE nest[j]]
  BY DEF ReadElse, NextIteration
<1>2. Now' = Turned(Now)
  <2> DEFINE turned == [j \in 1 .. Len(nest) |->
               IF j = Len(nest) THEN [sel |-> ~nest[j].taken, taken |-> TRUE] ELSE nest[j]]
  <2>1. Now.open = nest
    BY DEF Now
  <2>2. Turned(Now) = [Now EXCEPT !.open = turned]
    BY <2>1 DEF Turned
  <2>3. nest' = turned
    BY <1>1
  <2> HIDE DEF turned
  <2> QED BY <1>1, <2>2, <2>3 DEF Now
<1>3. After(Current, Here) = Turned(Now)
  BY <1>1 DEF After, Current
<1>4. ~Goes(Current)
  BY <1>1, NowTypes DEF Goes, Enters
<1> QED BY <1>1, <1>2, <1>3, <1>4, PastReturns

LEMMA EndifReturns ==
  ASSUME TypeOK, LinesInv, Faultless, NEW R, Returns(R), ReadEndif
  PROVE  Returns(R)'
<1>1. /\ ~AtEnd /\ Past /\ Here.k = "endif" /\ env' = env /\ out' = out
      /\ nest' = SubSeq(nest, 1, Len(nest) - 1)
  BY DEF ReadEndif, NextIteration
<1>2. Now' = Closed(Now)
  BY <1>1 DEF Now, Closed
<1>3. After(Current, Here) = Closed(Now)
  BY <1>1 DEF After, Current
<1>4. ~Goes(Current)
  BY <1>1, NowTypes DEF Goes, Enters
<1> QED BY <1>1, <1>2, <1>3, <1>4, PastReturns

(* An include: what the file stands for is read first, then the line after *)
(* the directive, which is where the frame pushed comes back to.           *)
LEMMA IncludeReturns ==
  ASSUME TypeOK, LinesInv, CondExact, Faultless, NEW R, Returns(R), ReadInclude, ~dropped'
  PROVE  \E S : Returns(S)'
<1> DEFINE c == Current
           inner == Expand[Inner(c)]
<1>a. PICK n : n = Len(incStack)
  OBVIOUS
<1>b. PICK S : S = [k \in 0 .. n + 1 |-> IF k = n + 1 THEN inner ELSE R[k]]
  OBVIOUS
<1>1. /\ ~AtEnd /\ Emitting /\ Here.k = "include" /\ Here.f \in Files /\ n < IncMaxDepth
      /\ incStack' = Append(incStack, ReturnAddress) /\ src' = Here.f /\ pos' = 1
      /\ text' = text /\ env' = env /\ nest' = nest /\ out' = out
  BY <1>a DEF ReadInclude, conds, NextIteration, IncRoom
<1>2. c \in Reading /\ ~Over(c) /\ ItemOf(c) = Here /\ Texted
  BY <1>1, NowTypes
<1>3. Expand' = Expand
  BY <1>1 DEF Expand
<1>4. c.depth = n /\ c.file = src /\ c.at = pos /\ c.st = Now
  BY <1>a DEF Current
<1>5. Goes(c)
  <2>1. Selected(Now)
    BY <1>1, SelectedNow DEF Faultless
  <2> QED BY <1>1, <1>2, <1>4, <2>1 DEF Goes, Enters
<1>6. Expand[c] = Expand[Onward(c, inner)] /\ inner \in State /\ Inner(c) \in Reading
  <2>1. NextOf(Expand, c) = Onward(c, inner)
    BY <1>5 DEF NextOf
  <2>2. Inner(c) \in Reading
    BY <1>2, <1>5, InnerBefore
  <2> QED BY <1>2, <2>1, <2>2, ExpandLine DEF Body
<1>7. incStack \in Seq(Frame) /\ n \in Nat /\ Len(incStack') = n + 1
  BY <1>1, <1>a DEF TypeOK, PlaceTypes
<1>8. \A k \in 1 .. n : incStack'[k] = incStack[k]
  BY <1>1, <1>7, <1>a
<1>9. incStack'[n + 1] = ReturnAddress
  BY <1>1, <1>7, <1>a
<1>10. Current' = Inner(c)
  <2>1. Current' = [depth |-> Len(incStack'), file |-> src', at |-> pos', st |-> Now']
    BY DEF Current
  <2>2. Now' = Now
    BY <1>1 DEF Now
  <2>3. Inner(c) = [depth |-> n + 1, file |-> Here.f, at |-> 1, st |-> Now]
    BY <1>2, <1>4 DEF Inner, Included
  <2> QED BY <1>1, <1>7, <2>1, <2>2, <2>3
<1>11. \A s : Parent(n + 1, s)' = Onward(c, s)
  <2> TAKE s
  <2>1. Parent(n + 1, s)' = [depth |-> n, file |-> src, at |-> pos + 1, st |-> s]
    BY <1>7, <1>9 DEF Parent, ReturnAddress
  <2> QED BY <1>4, <2>1 DEF Onward
<1>12. \A k \in 1 .. n : \A s : Parent(k, s)' = Parent(k, s)
  BY <1>8 DEF Parent
<1>13. R \in [0 .. n -> State] /\ R[n] = Expand[c] /\ R[0] = Expand[ReadMain]
       /\ \A k \in 1 .. n : R[k - 1] = Expand[Parent(k, R[k])]
  BY <1>a DEF Returns
<1> HIDE DEF c, inner
<1>14. S \in [0 .. n + 1 -> State] /\ S[n + 1] = inner
       /\ \A k \in 0 .. n : S[k] = R[k]
  BY <1>6, <1>7, <1>13, <1>b
<1>15. ASSUME NEW k \in 1 .. n + 1 PROVE S[k - 1] = Expand[Parent(k, S[k])']
  <2>1. CASE k = n + 1
    <3>1. S[k - 1] = R[n] /\ S[k] = inner
      BY <1>7, <1>14, <2>1
    <3> QED BY <1>6, <1>11, <1>13, <2>1, <3>1
  <2>2. CASE k \in 1 .. n
    <3>1. S[k - 1] = R[k - 1] /\ S[k] = R[k]
      BY <1>7, <1>14, <2>2
    <3> QED BY <1>12, <1>13, <2>2, <3>1
  <2> QED BY <1>7, <2>1, <2>2
<1>16. S[n + 1] = Expand[Current'] /\ S[0] = Expand[ReadMain]
  BY <1>7, <1>10, <1>13, <1>14 DEF inner
<1>17. Returns(S)'
  BY <1>3, <1>7, <1>14, <1>15, <1>16 DEF Returns
<1> QED BY <1>17

(* The end of an included file: what it stands for is the state now, and   *)
(* its includer is read on from the frame popped.                          *)
LEMMA LeaveReturns ==
  ASSUME TypeOK, LinesInv, NEW R, Returns(R), LeaveInclude
  PROVE  \E S : Returns(S)'
<1>a. PICK n : n = Len(incStack)
  OBVIOUS
<1>b. PICK S : S = [k \in 0 .. n - 1 |-> R[k]]
  OBVIOUS
<1>1. /\ AtEnd /\ n >= 1 /\ n \in Nat /\ incStack \in Seq(Frame)
      /\ incStack' = SubSeq(incStack, 1, n - 1)
      /\ src' = incStack[n].src /\ pos' = incStack[n].pos
      /\ text' = text /\ env' = env /\ nest' = nest /\ out' = out
  BY <1>a DEF LeaveInclude, conds, NextIteration, TypeOK, PlaceTypes
<1>2. Current \in Reading /\ Over(Current) /\ Texted
  BY <1>1, NowTypes
<1>3. Expand' = Expand
  BY <1>1 DEF Expand
<1>4. Expand[Current] = Now
  BY <1>2, ExpandLine DEF Body, Current
<1>5. Len(incStack') = n - 1 /\ \A k \in 1 .. n - 1 : incStack'[k] = incStack[k]
  BY <1>1
<1>6. Current' = Parent(n, Now)
  <2>1. Current' = [depth |-> Len(incStack'), file |-> src', at |-> pos', st |-> Now']
    BY DEF Current
  <2>2. Now' = Now
    BY <1>1 DEF Now
  <2> QED BY <1>1, <1>5, <2>1, <2>2 DEF Parent
<1>7. R \in [0 .. n -> State] /\ R[n] = Now /\ R[0] = Expand[ReadMain]
      /\ \A k \in 1 .. n : R[k - 1] = Expand[Parent(k, R[k])]
  BY <1>4, <1>a DEF Returns
<1>8. \A k \in 1 .. n - 1 : \A s : Parent(k, s)' = Parent(k, s)
  BY <1>5 DEF Parent
<1>9. S \in [0 .. n - 1 -> State] /\ \A k \in 0 .. n - 1 : S[k] = R[k]
  BY <1>1, <1>7, <1>b
<1>10. S[n - 1] = Expand[Current']
  BY <1>1, <1>6, <1>7, <1>9
<1>11. \A k \in 1 .. n - 1 : S[k - 1] = Expand[Parent(k, S[k])']
  <2> TAKE k \in 1 .. n - 1
  <2>1. S[k - 1] = R[k - 1] /\ S[k] = R[k] /\ k \in 1 .. n
    BY <1>1, <1>9
  <2> QED BY <1>7, <1>8, <2>1
<1>12. S[0] = Expand[ReadMain]
  BY <1>1, <1>7, <1>9
<1>13. Returns(S)'
  BY <1>3, <1>5, <1>9, <1>10, <1>11, <1>12 DEF Returns
<1> QED BY <1>13

(* The end of the main source: everything has been given to the parser.    *)
LEMMA AllGiven ==
  ASSUME TypeOK, LinesInv, NEW R, Returns(R), AtEnd, incStack = <<>>
  PROVE  out = Expand[ReadMain].toks
<1>1. Current \in Reading /\ Over(Current) /\ Texted
  BY NowTypes
<1>2. Expand[Current] = Now
  BY <1>1, ExpandLine DEF Body, Current
<1>3. R[0] = Now
  BY <1>2 DEF Returns
<1> QED BY <1>3 DEF Returns, Now

(* The numbers of the lines: the main source counts from one, an included  *)
(* file from zero.                                                         *)
LEMMA LinesStep ==
  ASSUME TypeOK, LinesInv, [Next]_vars
  PROVE  LinesInv'
<1>a. PICK n : n = Len(incStack)
  OBVIOUS
<1>0. n = Len(incStack) /\ incStack \in Seq(Frame) /\ n \in Nat /\ pos \in Nat \ {0} /\ src \in Files /\ line \in Nat
  BY <1>a DEF TypeOK, PlaceTypes
<1>1. ASSUME Past, out' = out PROVE LinesInv'
  BY <1>0, <1>1 DEF Past, LinesInv, Number
<1>2. CASE ScanToken
  <2> DEFINE v == DefGet(Here.n)
             t == [file |-> src, line |-> line, as |-> IF v \in {Undefined, Empty} THEN Here.n ELSE v]
  <2>1. ~AtEnd /\ Past /\ out' = Append(out, t) /\ Here.k = "tok"
    BY <1>2 DEF ScanToken
  <2>2. Here \in Items /\ Here.n \in Names
    BY <2>1, HereTypes, LineTypes DEF TypeOK
  <2>3. v \in Values \cup {Undefined}
    <3>1. CASE Entries(Here.n) = {}
      BY <3>1 DEF DefGet
    <3>2. CASE Entries(Here.n) # {}
      <4>1. Entries(Here.n) \subseteq 1 .. Len(defs)
        BY DEF Entries
      <4>2. \E d \in Entries(Here.n) : \A e \in Entries(Here.n) : d <= e
        <5>1. Len(defs) \in Nat
          BY DEF TypeOK, DefTypes
        <5>2. Entries(Here.n) \subseteq Nat
          BY <4>1, <5>1
        <5> QED BY <3>2, <5>2, NatLeast
      <4>3. PICK d \in Entries(Here.n) : v = defs[d].v
        BY <3>2, <4>2 DEF DefGet
      <4>4. d \in 1 .. Len(defs) /\ defs \in Seq(Line)
        BY <4>1 DEF TypeOK, DefTypes
      <4>5. defs[d] \in Line
        BY <4>4
      <4> HIDE DEF v
      <4> QED BY <4>3, <4>5 DEF Line
    <3> QED BY <3>1, <3>2
  <2>4. t \in Token
    BY <1>0, <2>2, <2>3 DEF Token
  <2> HIDE DEF t
  <2>5. out' \in Seq(Token)
    BY <2>1, <2>4 DEF LinesInv
  <2> QED BY <1>0, <2>1, <2>5 DEF Past, LinesInv, Number
<1>3. CASE SkipItem
  BY <1>1, <1>3 DEF SkipItem, NextIteration
<1>4. CASE ReadInclude
  <2>1. CASE ~(Here.f \in Files /\ IncRoom)
    BY <1>1, <1>4, <2>1 DEF ReadInclude, NextIteration
  <2>2. CASE Here.f \in Files /\ IncRoom
    <3>1. incStack' = Append(incStack, ReturnAddress) /\ pos' = 1 /\ line' = 0 /\ out' = out
      BY <1>4, <2>2 DEF ReadInclude, NextIteration
    <3>2. Len(incStack') = n + 1 /\ incStack'[n + 1] = ReturnAddress
          /\ \A k \in 1 .. n : incStack'[k] = incStack[k]
      BY <1>0, <3>1
    <3>3. ASSUME NEW k \in 1 .. n + 1 PROVE incStack'[k].line = Number(k - 1, incStack'[k].pos)
      <4>1. CASE k = n + 1
        BY <1>0, <3>2, <4>1 DEF ReturnAddress, LinesInv, Number
      <4>2. CASE k \in 1 .. n
        BY <1>0, <3>2, <4>2 DEF LinesInv
      <4> QED BY <1>0, <4>1, <4>2
    <3>4. line' = Number(n + 1, pos')
      BY <1>0, <3>1 DEF Number
    <3> QED BY <3>1, <3>2, <3>3, <3>4 DEF LinesInv
  <2> QED BY <2>1, <2>2
<1>5. CASE LeaveInclude
  <2>1. /\ n >= 1 /\ incStack' = SubSeq(incStack, 1, n - 1)
        /\ pos' = incStack[n].pos /\ line' = incStack[n].line /\ out' = out
    BY <1>0, <1>5 DEF LeaveInclude, NextIteration
  <2>2. Len(incStack') = n - 1 /\ \A k \in 1 .. n - 1 : incStack'[k] = incStack[k]
    BY <1>0, <2>1
  <2>3. \A k \in 1 .. n : incStack[k].line = Number(k - 1, incStack[k].pos)
    BY <1>0 DEF LinesInv
  <2>4. line' = Number(n - 1, pos')
    BY <1>0, <2>1, <2>3
  <2>5. \A k \in 1 .. n - 1 : incStack'[k].line = Number(k - 1, incStack'[k].pos)
    BY <1>0, <2>2, <2>3
  <2> QED BY <2>1, <2>2, <2>4, <2>5 DEF LinesInv
<1>6. CASE ReadDefine
  BY <1>1, <1>6 DEF ReadDefine
<1>7. CASE ReadIf \/ ReadElse \/ ReadEndif
  BY <1>1, <1>7 DEF ReadIf, ReadElse, ReadEndif, NextIteration
<1>8. CASE EndOfSource \/ ReadStray \/ Runaway \/ Finished \/ UNCHANGED vars
  <2>1. UNCHANGED <<place, out>>
    BY <1>8 DEF EndOfSource, ReadStray, Runaway, Finished, vars
  <2> QED BY <2>1 DEF LinesInv, place
<1> QED BY <1>2, <1>3, <1>4, <1>5, <1>6, <1>7, <1>8 DEF Next, Step

LEMMA ExpInit == Init => ExpInv
<1> SUFFICES ASSUME Init PROVE ExpInv OBVIOUS
<1>1. Len(incStack) = 0 /\ incStack = <<>> /\ pos = 1 /\ line = 1 /\ out = <<>> /\ ~done
      /\ src = Main /\ nest = <<>>
  BY DEF Init
<1>2. TypeOK
  BY LexTypesInit
<1>3. LinesInv
  BY <1>1 DEF LinesInv, Number
<1>4. Current = ReadMain
  BY <1>1 DEF Init, Current, ReadMain, Now, Start, Folded
<1>5. Expand[Current] \in State
  BY <1>2, <1>3, NowTypes, ExpandLine
<1> DEFINE R == [k \in 0 .. 0 |-> Expand[Current]]
<1>6. R \in [0 .. Len(incStack) -> State] /\ R[Len(incStack)] = Expand[Current] /\ R[0] = Expand[ReadMain]
  BY <1>1, <1>4, <1>5
<1>7. \A k \in 1 .. Len(incStack) : R[k - 1] = Expand[Parent(k, R[k])]
  BY <1>1
<1> HIDE DEF R
<1>8. Returns(R)
  BY <1>6, <1>7 DEF Returns
<1> QED BY <1>1, <1>3, <1>8 DEF ExpInv

LEMMA ExpStep ==
  ASSUME TypeOK, CondExact, DefsExact, ExpInv, [Next]_vars
  PROVE  ExpInv'
<1>1. LinesInv /\ LinesInv'
  BY LinesStep DEF ExpInv
<1> SUFFICES ASSUME Faultless'
             PROVE  IF done' THEN out' = Expand'[ReadMain].toks ELSE \E S : Returns(S)'
  BY <1>1 DEF ExpInv
<1>2. Expand' = Expand
  <2>1. text' = text
    BY DEF Next, Step, ScanToken, SkipItem, ReadInclude, LeaveInclude, ReadDefine, ReadIf,
           ReadElse, ReadEndif, EndOfSource, ReadStray, Runaway, Finished, vars, Past
  <2> QED BY <2>1 DEF Expand
<1>3. CASE UNCHANGED vars \/ Finished
  <2>1. UNCHANGED vars
    BY <1>3 DEF Finished
  <2>2. Faultless /\ done' = done /\ out' = out
    BY <2>1 DEF Faultless, vars, conds
  <2>3. \A R : Returns(R) => Returns(R)'
    <3>1. Current' = Current /\ incStack' = incStack
      BY <2>1 DEF vars, place, conds, Current, Now
    <3>2. \A k, s : Parent(k, s)' = Parent(k, s)
      BY <3>1 DEF Parent
    <3> QED BY <1>2, <3>1, <3>2 DEF Returns
  <2> QED BY <1>2, <2>2, <2>3 DEF ExpInv
<1>4. CASE Step
  <2>1. ~done
    BY <1>4 DEF Step, Scanning, ScanToken, SkipItem, ReadInclude, LeaveInclude, ReadDefine,
                ReadIf, ReadElse, ReadEndif, EndOfSource, ReadStray, Runaway
  <2>2. Faultless
    <3>1. fatal => fatal'
      BY <1>4 DEF Step, ScanToken, SkipItem, ReadInclude, LeaveInclude, ReadDefine, ReadIf,
                  ReadElse, ReadEndif, EndOfSource, ReadStray, Runaway, NextIteration, RunawayVerdict
    <3>2. over => over'
      BY <1>4 DEF Step, ScanToken, SkipItem, ReadInclude, LeaveInclude, ReadDefine, ReadIf,
                  ReadElse, ReadEndif, EndOfSource, ReadStray, Runaway, conds
    <3>3. dropped => dropped'
      BY <1>4 DEF Step, ScanToken, SkipItem, ReadInclude, LeaveInclude, ReadDefine, ReadIf,
                  ReadElse, ReadEndif, EndOfSource, ReadStray, Runaway
    <3>4. stray => stray'
      BY <1>4 DEF Step, ScanToken, SkipItem, ReadInclude, LeaveInclude, ReadDefine, ReadIf,
                  ReadElse, ReadEndif, EndOfSource, ReadStray, Runaway
    <3> QED BY <3>1, <3>2, <3>3, <3>4 DEF Faultless
  <2>3. PICK R : Returns(R)
    BY <2>1, <2>2 DEF ExpInv
  <2>4. CASE EndOfSource
    <3>1. AtEnd /\ incStack = <<>> /\ done' = TRUE /\ out' = out
      BY <2>4 DEF EndOfSource
    <3> QED BY <1>1, <1>2, <2>3, <3>1, AllGiven
  <2>5. CASE ReadStray \/ Runaway
    BY <2>5 DEF ReadStray, Runaway, RunawayVerdict, Faultless
  <2>6. CASE ~(EndOfSource \/ ReadStray \/ Runaway)
    <3>1. done' = done
      BY <1>4, <2>6 DEF Step, ScanToken, SkipItem, ReadInclude, LeaveInclude, ReadDefine,
                        ReadIf, ReadElse, ReadEndif, NextIteration, conds, Past
    <3>2. ~dropped'
      BY DEF Faultless
    <3>3. \E S : Returns(S)'
      <4>1. CASE ScanToken
        BY <1>1, <2>2, <2>3, <4>1, TokenReturns
      <4>2. CASE SkipItem
        BY <1>1, <2>2, <2>3, <4>2, SkipReturns
      <4>3. CASE ReadInclude
        BY <1>1, <2>2, <2>3, <3>2, <4>3, IncludeReturns
      <4>4. CASE LeaveInclude
        BY <1>1, <2>3, <4>4, LeaveReturns
      <4>5. CASE ReadDefine
        BY <1>1, <2>2, <2>3, <4>5, DefineReturns
      <4>6. CASE ReadIf
        BY <1>1, <2>2, <2>3, <4>6, IfReturns
      <4>7. CASE ReadElse
        BY <1>1, <2>2, <2>3, <4>7, ElseReturns
      <4>8. CASE ReadEndif
        BY <1>1, <2>2, <2>3, <4>8, EndifReturns
      <4> QED BY <1>4, <2>6, <4>1, <4>2, <4>3, <4>4, <4>5, <4>6, <4>7, <4>8 DEF Step
    <3> QED BY <2>1, <3>1, <3>3
  <2> QED BY <2>4, <2>5, <2>6
<1> QED BY <1>3, <1>4 DEF Next

(* When the parser has been given the end of the source, and no directive  *)
(* found a table full or a file missing, it was given the expansion of the *)
(* program, each token with its file and line (lex_scan, inc_push,         *)
(* inc_pop, def_set, cond_push, cond_else, cond_endif).                    *)
THEOREM LexOutputIsExpansion == Spec => []OutputIsExpansion
<1>1. Init => ExpInv
  BY ExpInit
<1>2. TypeOK /\ CondExact /\ DefsExact /\ ExpInv /\ [Next]_vars => ExpInv'
  BY ExpStep
<1>3. ExpInv => OutputIsExpansion
  BY DEF ExpInv, Faultless, OutputIsExpansion
<1> QED BY <1>1, <1>2, <1>3, LexTypeOK, LexCondExact, LexDefsExact, PTL DEF Spec
=============================================================================
