--------------------------- MODULE LinkMeansProofs ---------------------------
(***************************************************************************)
(* The whole of separate compilation: what prep, the assembler, emit, the  *)
(* script and link24 write together is the program, for any programs whose *)
(* modules are Regular.                                                    *)
(***************************************************************************)
EXTENDS Link, LinkProofs, SequenceTheorems, WellFoundedInduction

-----------------------------------------------------------------------------
(* Lists. *)

LEMMA NatLeast ==
  ASSUME NEW T, T \subseteq Nat, T # {}
  PROVE  \E n \in T : \A y \in T : n <= y
<1>1. PICK x \in T : \A y \in T : ~ (<<y, x>> \in OpToRel(<, Nat))
  BY NatLessThanWellFounded, WFMin, Zenon
<1>2. ASSUME NEW y \in T PROVE ~ (y < x)
  <2>1. y \in Nat /\ x \in Nat
    OBVIOUS
  <2>2. ~ (<<y, x>> \in OpToRel(<, Nat))
    BY <1>1, Zenon
  <2> QED BY <2>1, <2>2, Zenon DEF OpToRel
<1>3. \A y \in T : y \in Nat /\ x \in Nat /\ ~(y < x)
  BY <1>2, Zenon
<1>4. \A y \in T : x <= y
  BY <1>3, SMT
<1> QED BY <1>4, Zenon

(* Where a set of numbers holds the next after each, it holds all.         *)
LEMMA UpTo ==
  ASSUME NEW n \in Nat, NEW T, 0 \in T, \A i \in 0 .. n - 1 : i \in T => i + 1 \in T
  PROVE  \A i \in 0 .. n : i \in T
<1> DEFINE Bad == {i \in 0 .. n : i \notin T}
<1> SUFFICES ASSUME Bad # {} PROVE FALSE
  OBVIOUS
<1>1. PICK b \in Bad : \A c \in Bad : b <= c
  <2>1. Bad \subseteq Nat
    OBVIOUS
  <2> HIDE DEF Bad
  <2> QED BY <2>1, NatLeast
<1>2. b # 0 /\ b - 1 \in 0 .. n - 1 /\ b - 1 \in T
  <2>1. b # 0 /\ b \in 0 .. n
    OBVIOUS
  <2>2. b - 1 \notin Bad /\ b - 1 \in 0 .. n - 1
    BY <1>1, <2>1
  <2> QED BY <2>1, <2>2
<1>3. b - 1 + 1 = b
  OBVIOUS
<1> QED BY <1>2, <1>3

(* A function of the numbers up to n, each value computed from the last.   *)
Iterate(A, a, n, G, f) ==
  f \in [0 .. n -> A] /\ f[0] = a /\ \A i \in 1 .. n : f[i] = G[i][f[i - 1]]

LEMMA Iterates ==
  \A A, a, n, G : a \in A /\ n \in Nat /\ G \in [1 .. n -> [A -> A]] => \E f : Iterate(A, a, n, G, f)
<1> SUFFICES ASSUME NEW A, NEW a \in A, NEW n \in Nat, NEW G \in [1 .. n -> [A -> A]]
             PROVE  \E f : Iterate(A, a, n, G, f)
  OBVIOUS
<1> DEFINE Good(l) == \E f \in [0 .. l -> A] : f[0] = a /\ \A i \in 1 .. l : f[i] = G[i][f[i - 1]]
           T == {l \in 0 .. n : Good(l)}
<1>1. Good(0)
  <2>1. PICK f : f = [i \in 0 .. 0 |-> a]
    OBVIOUS
  <2>2. f \in [0 .. 0 -> A] /\ f[0] = a
    BY <2>1
  <2>3. \A i \in 1 .. 0 : FALSE
    OBVIOUS
  <2> QED BY <2>2, <2>3
<1>2. ASSUME NEW l \in 0 .. n - 1, Good(l) PROVE Good(l + 1)
  <2>1. PICK f \in [0 .. l -> A] : f[0] = a /\ \A i \in 1 .. l : f[i] = G[i][f[i - 1]]
    BY <1>2
  <2> DEFINE g == [i \in 0 .. l + 1 |-> IF i = l + 1 THEN G[l + 1][f[l]] ELSE f[i]]
  <2>2. f[l] \in A /\ l + 1 \in 1 .. n
    OBVIOUS
  <2>3. G[l + 1][f[l]] \in A
    BY <2>2
  <2>4. g \in [0 .. l + 1 -> A] /\ g[l + 1] = G[l + 1][f[l]] /\ \A i \in 0 .. l : g[i] = f[i]
    BY <2>3
  <2> HIDE DEF g
  <2>5. ASSUME NEW i \in 1 .. l + 1 PROVE g[i] = G[i][g[i - 1]]
    <3>1. CASE i = l + 1
      BY <2>4, <3>1
    <3>2. CASE i # l + 1
      <4>1. i \in 1 .. l /\ i \in 0 .. l /\ i - 1 \in 0 .. l
        BY <3>2
      <4> QED BY <2>1, <2>4, <4>1
    <3> QED BY <3>1, <3>2
  <2> QED BY SMTT(60), <2>1, <2>4, <2>5
<1> HIDE DEF Good
<1>3. 0 \in T /\ \A l \in 0 .. n - 1 : l \in T => l + 1 \in T
  BY <1>1, <1>2
<1>4. n \in T
  <2> HIDE DEF T
  <2>1. \A l \in 0 .. n : l \in T
    BY <1>3, UpTo
  <2> QED BY <2>1
<1>5. PICK f \in [0 .. n -> A] : f[0] = a /\ \A i \in 1 .. n : f[i] = G[i][f[i - 1]]
  BY <1>4 DEF Good
<1> QED BY <1>5 DEF Iterate

(* Sums, step by step.                                                     *)
LEMMA SumsSteps ==
  ASSUME NEW ns \in Seq(Nat)
  PROVE  /\ Sums(ns) \in [0 .. Len(ns) -> Nat] /\ Sums(ns)[0] = 0
         /\ \A i \in 1 .. Len(ns) : Sums(ns)[i] = Sums(ns)[i - 1] + ns[i]
<1> DEFINE n == Len(ns)
           Equation(f) == f = [i \in 0 .. n |-> IF i = 0 THEN 0 ELSE f[i - 1] + ns[i]]
           G == [i \in 1 .. n |-> [x \in Nat |-> x + ns[i]]]
<1>0. n \in Nat /\ \A i \in 1 .. n : ns[i] \in Nat
  OBVIOUS
<1>1. Sums(ns) = CHOOSE f : Equation(f)
  BY DEF Sums
<1>2. G \in [1 .. n -> [Nat -> Nat]] /\ \A x \in Nat, i \in 1 .. n : G[i][x] = x + ns[i]
  BY <1>0
<1> HIDE DEF n, G
<1>3. PICK f : Iterate(Nat, 0, n, G, f)
  <2>1. 0 \in Nat /\ G \in [1 .. n -> [Nat -> Nat]]
    BY <1>2
  <2> QED BY <1>0, <2>1, Iterates, Zenon
<1>3a. f \in [0 .. n -> Nat] /\ f[0] = 0 /\ \A i \in 1 .. n : f[i] = G[i][f[i - 1]]
  BY <1>3 DEF Iterate
<1>4. \A i \in 1 .. n : i # 0 /\ i - 1 \in 0 .. n /\ f[i] = f[i - 1] + ns[i]
  <2> TAKE i \in 1 .. n
  <2>1. i # 0 /\ i - 1 \in 0 .. n
    BY <1>0
  <2>2. f[i - 1] \in Nat
    BY <1>3a, <2>1
  <2> QED BY <1>2, <1>3a, <2>1, <2>2
<1>5. Equation(f)
  <2>1. f = [i \in 0 .. n |-> f[i]]
    BY <1>3a
  <2>2. \A i \in 0 .. n : f[i] = IF i = 0 THEN 0 ELSE f[i - 1] + ns[i]
    BY <1>0, <1>3a, <1>4
  <2> QED BY <2>1, <2>2
<1>6. PICK s : s = Sums(ns)
  OBVIOUS
<1>7. Equation(s)
  <2> HIDE DEF Equation
  <2> QED BY <1>1, <1>5, <1>6
<1>8. s[0] = 0 /\ \A i \in 1 .. n : s[i] = s[i - 1] + ns[i]
  BY <1>0, <1>7
<1>9. \A i \in 0 .. n : s[i] = f[i]
  <2> DEFINE T == {i \in 0 .. n : s[i] = f[i]}
  <2> HIDE DEF Equation
  <2>1. 0 \in T
    BY <1>0, <1>3a, <1>8
  <2>2. ASSUME NEW i \in 0 .. n - 1, i \in T PROVE i + 1 \in T
    <3>1. i + 1 \in 1 .. n /\ i + 1 - 1 = i /\ i + 1 \in 0 .. n
      BY <1>0
    <3>2. s[i + 1] = s[i] + ns[i + 1] /\ f[i + 1] = f[i] + ns[i + 1]
      BY <1>4, <1>8, <3>1
    <3> QED BY <2>2, <3>1, <3>2
  <2>3. \A i \in 0 .. n : i \in T
    <3> HIDE DEF T
    <3> QED BY <1>0, <2>1, <2>2, UpTo
  <2> QED BY <2>3
<1>10. s \in [0 .. n -> Nat]
  <2>0. \A i \in 0 .. n : f[i] \in Nat
    BY <1>3a
  <2>1. DOMAIN s = 0 .. n /\ s = [i \in 0 .. n |-> s[i]]
    BY <1>7
  <2> HIDE DEF Equation
  <2> QED BY <1>9, <2>0, <2>1
<1> QED BY <1>6, <1>8, <1>10 DEF n

(* Sums grow, and stay where nothing is added.                             *)
LEMMA SumsGrow ==
  ASSUME NEW ns \in Seq(Nat), NEW i \in 0 .. Len(ns), NEW j \in i .. Len(ns)
  PROVE  /\ Sums(ns)[i] <= Sums(ns)[j]
         /\ (\A l \in i + 1 .. j : ns[l] = 0) => Sums(ns)[i] = Sums(ns)[j]
<1> DEFINE n == Len(ns)
           s == Sums(ns)
           Zero(l) == \A h \in i + 1 .. l : ns[h] = 0
           Good(l) == s[i] <= s[i + l] /\ (Zero(i + l) => s[i] = s[i + l])
           T == {l \in 0 .. j - i : Good(l)}
<1>1. n \in Nat /\ \A l \in 1 .. n : ns[l] \in Nat
  OBVIOUS
<1>2. s \in [0 .. n -> Nat] /\ \A l \in 1 .. n : s[l] = s[l - 1] + ns[l]
  BY SumsSteps
<1> HIDE DEF s, n
<1>3. i \in Nat /\ j \in Nat /\ i <= j /\ j <= n /\ i + 0 = i
  BY <1>1 DEF n
<1>4. 0 \in T
  <2>1. i \in 0 .. n /\ 0 \in 0 .. j - i
    BY <1>1, <1>3
  <2>2. s[i] <= s[i + 0] /\ s[i] = s[i + 0]
    <3>1. s[i] \in Nat /\ s[i] <= s[i]
      BY <1>2, <2>1
    <3> QED BY <1>3, <3>1
  <2>3. Good(0)
    BY <2>2
  <2> HIDE DEF Good
  <2> QED BY <2>1, <2>3
<1>5. ASSUME NEW l \in 0 .. j - i - 1, l \in T PROVE l + 1 \in T
  <2>1. PICK h : h = i + l + 1
    OBVIOUS
  <2>2. h \in 1 .. n /\ h - 1 = i + l /\ i + (l + 1) = h /\ i + l \in 0 .. n /\ i \in 0 .. n /\ h \in 0 .. n
        /\ h \in i + 1 .. h /\ i + 1 .. i + l \subseteq i + 1 .. h /\ l + 1 \in 0 .. j - i
    BY <1>1, <1>3, <2>1
  <2>3. s[h] = s[i + l] + ns[h] /\ ns[h] \in Nat /\ s[i] \in Nat /\ s[i + l] \in Nat
    BY <1>1, <1>2, <2>2
  <2>4. Zero(h) => Zero(i + l) /\ ns[h] = 0
    BY <2>2
  <2>5. s[i] <= s[i + l] /\ (Zero(i + l) => s[i] = s[i + l])
    BY <1>5
  <2> HIDE DEF Zero
  <2>6. s[i] <= s[h] /\ (Zero(h) => s[i] = s[h])
    BY <2>3, <2>4, <2>5
  <2>7. Good(l + 1)
    BY <2>2, <2>6
  <2> HIDE DEF Good
  <2> QED BY <2>2, <2>7
<1>6. Good(j - i)
  <2>1. j - i \in Nat /\ j - i \in 0 .. j - i
    BY <1>3
  <2>2. \A l \in 0 .. j - i : l \in T
    <3> HIDE DEF T
    <3> QED BY <1>4, <1>5, <2>1, UpTo
  <2> HIDE DEF Good
  <2> QED BY <2>1, <2>2
<1>7. i + (j - i) = j
  BY <1>3
<1> QED BY <1>6, <1>7 DEF s

(* A function that follows the same steps is the same.                     *)
Follows(A, a, n, G, s) ==
  s[0] = a /\ \A i \in 1 .. n : s[i - 1] \in A => s[i] = G[i][s[i - 1]]

LEMMA SameIterate ==
  \A A, a, n, G, f, s :
    n \in Nat /\ Iterate(A, a, n, G, f) /\ Follows(A, a, n, G, s) => \A i \in 0 .. n : s[i] = f[i]
<1> SUFFICES ASSUME NEW A, NEW a, NEW n \in Nat, NEW G, NEW f, NEW s,
                    Iterate(A, a, n, G, f), Follows(A, a, n, G, s)
             PROVE  \A i \in 0 .. n : s[i] = f[i]
  OBVIOUS
<1> DEFINE T == {i \in 0 .. n : s[i] = f[i]}
<1>1. 0 \in T
  BY DEF Iterate, Follows
<1>2. ASSUME NEW i \in 0 .. n - 1, i \in T PROVE i + 1 \in T
  <2>1. i + 1 \in 1 .. n /\ i + 1 - 1 = i /\ i + 1 \in 0 .. n /\ i \in 0 .. n /\ s[i] = f[i]
    BY <1>2
  <2>2. f[i + 1] = G[i + 1][f[i]] /\ f[i] \in A
    BY <2>1 DEF Iterate
  <2>3. s[i + 1] = G[i + 1][s[i]]
    <3>1. PICK h : h = i + 1
      OBVIOUS
    <3>2. h \in 1 .. n /\ h - 1 = i
      BY <2>1, <3>1
    <3>3. s[h - 1] \in A
      BY <2>1, <2>2, <3>2
    <3>4. s[h] = G[h][s[h - 1]]
      BY <3>2, <3>3 DEF Follows
    <3> QED BY <3>1, <3>2, <3>4
  <2> QED BY <2>1, <2>2, <2>3
<1>3. \A i \in 0 .. n : i \in T
  <2> HIDE DEF T
  <2> QED BY <1>1, <1>2, UpTo
<1> QED BY <1>3

(* Joined and InOrder, as far as they have come.                           *)
Joins(parts) ==
  LET to[i \in 0 .. Len(parts)] == IF i = 0 THEN <<>> ELSE to[i - 1] \o parts[i] IN to
Chosen(S, n) ==
  LET to[i \in 0 .. n] ==
        IF i = 0 THEN <<>> ELSE IF i \in S THEN Append(to[i - 1], i) ELSE to[i - 1]
  IN  to

LEMMA JoinsSteps ==
  ASSUME NEW parts \in Seq(Seq(Nat))
  PROVE  /\ Joins(parts) \in [0 .. Len(parts) -> Seq(Nat)] /\ Joins(parts)[0] = <<>>
         /\ \A i \in 1 .. Len(parts) : Joins(parts)[i] = Joins(parts)[i - 1] \o parts[i]
<1> DEFINE n == Len(parts)
           Equation(f) == f = [i \in 0 .. n |-> IF i = 0 THEN <<>> ELSE f[i - 1] \o parts[i]]
           G == [i \in 1 .. n |-> [x \in Seq(Nat) |-> x \o parts[i]]]
<1>0. n \in Nat /\ \A i \in 1 .. n : parts[i] \in Seq(Nat)
  OBVIOUS
<1>1. Joins(parts) = CHOOSE f : Equation(f)
  BY DEF Joins
<1>2. /\ G \in [1 .. n -> [Seq(Nat) -> Seq(Nat)]]
      /\ \A x \in Seq(Nat), i \in 1 .. n : G[i][x] = x \o parts[i]
  BY <1>0
<1> HIDE DEF n, G
<1>3. PICK f : Iterate(Seq(Nat), <<>>, n, G, f)
  <2>1. <<>> \in Seq(Nat) /\ G \in [1 .. n -> [Seq(Nat) -> Seq(Nat)]]
    BY <1>2
  <2> QED BY <1>0, <2>1, Iterates, Zenon
<1>4. f \in [0 .. n -> Seq(Nat)] /\ f[0] = <<>> /\ \A i \in 1 .. n : f[i] = G[i][f[i - 1]]
  BY <1>3 DEF Iterate
<1>5. \A i \in 1 .. n : i # 0 /\ i - 1 \in 0 .. n /\ f[i] = f[i - 1] \o parts[i]
  <2> TAKE i \in 1 .. n
  <2>1. i # 0 /\ i - 1 \in 0 .. n
    BY <1>0
  <2>2. f[i - 1] \in Seq(Nat)
    BY <1>4, <2>1
  <2> QED BY <1>2, <1>4, <2>1, <2>2
<1>6. Equation(f)
  <2>1. f = [i \in 0 .. n |-> f[i]]
    BY <1>4
  <2>2. ASSUME NEW i \in 0 .. n
        PROVE  f[i] = IF i = 0 THEN <<>> ELSE f[i - 1] \o parts[i]
    <3>1. i = 0 \/ i \in 1 .. n
      BY <1>0
    <3>2. CASE i = 0
      BY <1>4, <3>2
    <3>3. CASE i \in 1 .. n
      BY <1>5, <3>3
    <3> QED BY <3>1, <3>2, <3>3
  <2> QED BY <2>1, <2>2
<1>7. PICK s : s = Joins(parts)
  OBVIOUS
<1>8. Equation(s)
  <2> HIDE DEF Equation
  <2> QED BY <1>1, <1>6, <1>7
<1>9. s[0] = <<>> /\ \A i \in 1 .. n : s[i] = s[i - 1] \o parts[i]
  <2>1. 0 \in 0 .. n /\ \A i \in 1 .. n : i \in 0 .. n /\ i # 0
    BY <1>0
  <2>2. \A i \in 0 .. n : s[i] = IF i = 0 THEN <<>> ELSE s[i - 1] \o parts[i]
    BY <1>8
  <2> HIDE DEF Equation
  <2> QED BY <2>1, <2>2, Zenon
<1> HIDE DEF Equation
<1>10. Follows(Seq(Nat), <<>>, n, G, s)
  BY <1>2, <1>9 DEF Follows
<1>11. \A i \in 0 .. n : s[i] = f[i]
  <2>1. n \in Nat
    BY <1>0
  <2> QED BY <2>1, <1>3, <1>10, SameIterate
<1>12. s \in [0 .. n -> Seq(Nat)]
  <2>1. DOMAIN s = 0 .. n /\ s = [i \in 0 .. n |-> s[i]]
    BY <1>8 DEF Equation
  <2> QED BY <1>4, <1>11, <2>1
<1> QED BY <1>7, <1>9, <1>12 DEF n

LEMMA ChosenSteps ==
  ASSUME NEW S, NEW n \in Nat
  PROVE  /\ Chosen(S, n) \in [0 .. n -> Seq(1 .. n)] /\ Chosen(S, n)[0] = <<>>
         /\ \A i \in 1 .. n :
              Chosen(S, n)[i] = IF i \in S THEN Append(Chosen(S, n)[i - 1], i) ELSE Chosen(S, n)[i - 1]
<1> DEFINE Equation(f) ==
             f = [i \in 0 .. n |-> IF i = 0 THEN <<>>
                                   ELSE IF i \in S THEN Append(f[i - 1], i) ELSE f[i - 1]]
           A == Seq(1 .. n)
           G == [i \in 1 .. n |-> [x \in A |-> IF i \in S THEN Append(x, i) ELSE x]]
<1>1. Chosen(S, n) = CHOOSE f : Equation(f)
  BY DEF Chosen
<1>2. /\ G \in [1 .. n -> [A -> A]]
      /\ \A x \in A, i \in 1 .. n : G[i][x] = IF i \in S THEN Append(x, i) ELSE x
  <2>1. \A x \in A, i \in 1 .. n : Append(x, i) \in A
    OBVIOUS
  <2> HIDE DEF A
  <2> QED BY <2>1
<1>3. <<>> \in A
  OBVIOUS
<1> HIDE DEF A, G
<1>4. PICK f : Iterate(A, <<>>, n, G, f)
  <2>1. G \in [1 .. n -> [A -> A]]
    BY <1>2
  <2> QED BY <1>3, <2>1, Iterates, Zenon
<1>5. f \in [0 .. n -> A] /\ f[0] = <<>> /\ \A i \in 1 .. n : f[i] = G[i][f[i - 1]]
  BY <1>4 DEF Iterate
<1>6. \A i \in 1 .. n : i # 0 /\ i - 1 \in 0 .. n
                        /\ f[i] = IF i \in S THEN Append(f[i - 1], i) ELSE f[i - 1]
  <2> TAKE i \in 1 .. n
  <2>1. i # 0 /\ i - 1 \in 0 .. n
    OBVIOUS
  <2>2. f[i - 1] \in A
    BY <1>5, <2>1
  <2> QED BY <1>2, <1>5, <2>1, <2>2
<1>7. Equation(f)
  <2>1. f = [i \in 0 .. n |-> f[i]]
    BY <1>5
  <2>2. ASSUME NEW i \in 0 .. n
        PROVE  f[i] = IF i = 0 THEN <<>>
                      ELSE IF i \in S THEN Append(f[i - 1], i) ELSE f[i - 1]
    <3>1. i = 0 \/ i \in 1 .. n
      OBVIOUS
    <3>2. CASE i = 0
      BY <1>5, <3>2
    <3>3. CASE i \in 1 .. n
      BY <1>6, <3>3
    <3> QED BY <3>1, <3>2, <3>3
  <2> QED BY <2>1, <2>2
<1>8. PICK s : s = Chosen(S, n)
  OBVIOUS
<1>9. Equation(s)
  <2> HIDE DEF Equation
  <2> QED BY <1>1, <1>7, <1>8
<1>10. s[0] = <<>> /\ \A i \in 1 .. n : s[i] = IF i \in S THEN Append(s[i - 1], i) ELSE s[i - 1]
  <2>1. 0 \in 0 .. n /\ \A i \in 1 .. n : i \in 0 .. n /\ i # 0
    OBVIOUS
  <2>2. \A i \in 0 .. n : s[i] = IF i = 0 THEN <<>>
                                 ELSE IF i \in S THEN Append(s[i - 1], i) ELSE s[i - 1]
    BY <1>9
  <2> HIDE DEF Equation
  <2> QED BY <2>1, <2>2, Zenon
<1> HIDE DEF Equation
<1>11. Follows(A, <<>>, n, G, s)
  BY <1>2, <1>10 DEF Follows
<1>12. \A i \in 0 .. n : s[i] = f[i]
  BY <1>4, <1>11, SameIterate
<1>13. s \in [0 .. n -> A]
  <2>1. DOMAIN s = 0 .. n /\ s = [i \in 0 .. n |-> s[i]]
    BY <1>9 DEF Equation
  <2> QED BY <1>5, <1>12, <2>1
<1> QED BY <1>8, <1>10, <1>13 DEF A

(* Every place below a sum is in one part.                                 *)
LEMMA PartOf ==
  ASSUME NEW ns \in Seq(Nat), NEW q \in 1 .. Sums(ns)[Len(ns)]
  PROVE  \E i \in 1 .. Len(ns) : \E d \in 1 .. ns[i] : q = Sums(ns)[i - 1] + d
<1> DEFINE n == Len(ns)
           s == Sums(ns)
           T == {i \in 0 .. n : q <= s[i]}
<1>1. n \in Nat /\ \A i \in 1 .. n : ns[i] \in Nat
  OBVIOUS
<1>2. s \in [0 .. n -> Nat] /\ s[0] = 0 /\ \A i \in 1 .. n : s[i] = s[i - 1] + ns[i]
  BY SumsSteps
<1>3. q \in 1 .. s[n]
  OBVIOUS
<1> HIDE DEF s, n
<1>4. s[n] \in Nat /\ n \in 0 .. n /\ q \in Nat /\ q > 0 /\ q <= s[n]
  BY <1>1, <1>2, <1>3
<1>5. PICK i \in T : \A j \in T : i <= j
  <2>1. T \subseteq Nat /\ n \in T
    BY <1>4
  <2> HIDE DEF T
  <2> QED BY <2>1, NatLeast
<1>6. i \in 0 .. n /\ q <= s[i]
  OBVIOUS
<1>7. i # 0
  BY <1>2, <1>4, <1>6
<1>8. i \in 1 .. n /\ i - 1 \in 0 .. n /\ i - 1 < i
  BY <1>1, <1>6, <1>7
<1>9. ~(q <= s[i - 1])
  <2>1. i - 1 \notin T
    <3> HIDE DEF T
    <3> QED BY <1>5, <1>8
  <2> QED BY <1>8, <2>1
<1>10. s[i - 1] \in Nat /\ ns[i] \in Nat /\ s[i] = s[i - 1] + ns[i]
  BY <1>1, <1>2, <1>8
<1>11. q - s[i - 1] \in 1 .. ns[i] /\ q = s[i - 1] + (q - s[i - 1])
  <2>1. PICK b : b = s[i - 1]
    OBVIOUS
  <2>2. PICK c : c = ns[i]
    OBVIOUS
  <2>3. q <= b + c /\ ~(q <= b) /\ b \in Nat /\ c \in Nat /\ q \in Nat
    BY <1>4, <1>6, <1>9, <1>10, <2>1, <2>2
  <2>4. q - b \in 1 .. c /\ q = b + (q - b)
    BY <2>3
  <2> QED BY <2>1, <2>2, <2>4
<1> QED BY <1>8, <1>11 DEF s, n

LEMMA ConcatParts ==
  ASSUME NEW a \in Seq(Nat), NEW b \in Seq(Nat)
  PROVE  /\ Len(a \o b) = Len(a) + Len(b)
         /\ \A q \in 1 .. Len(a) : (a \o b)[q] = a[q]
         /\ \A d \in 1 .. Len(b) : (a \o b)[Len(a) + d] = b[d]
OBVIOUS

(* Where each part is in the whole.                                        *)
LEMMA JoinedParts ==
  ASSUME NEW parts \in Seq(Seq(Nat)), NEW ns \in Seq(Nat), Len(ns) = Len(parts),
         \A i \in 1 .. Len(ns) : Len(parts[i]) = ns[i]
  PROVE  /\ Joined(parts) \in Seq(Nat) /\ Len(Joined(parts)) = Sums(ns)[Len(ns)]
         /\ \A i \in 1 .. Len(ns) : \A d \in 1 .. ns[i] :
              Joined(parts)[Sums(ns)[i - 1] + d] = parts[i][d]
<1> DEFINE n == Len(ns)
           s == Sums(ns)
           f == Joins(parts)
           Good(l) == /\ Len(f[l]) = s[l]
                      /\ \A i \in 1 .. l : \A d \in 1 .. ns[i] : f[l][s[i - 1] + d] = parts[i][d]
           T == {l \in 0 .. n : Good(l)}
<1>1. n \in Nat /\ \A i \in 1 .. n : ns[i] \in Nat /\ parts[i] \in Seq(Nat) /\ Len(parts[i]) = ns[i]
  OBVIOUS
<1>2. s \in [0 .. n -> Nat] /\ s[0] = 0 /\ \A i \in 1 .. n : s[i] = s[i - 1] + ns[i]
  BY SumsSteps
<1>3. f \in [0 .. n -> Seq(Nat)] /\ f[0] = <<>> /\ \A i \in 1 .. n : f[i] = f[i - 1] \o parts[i]
  BY JoinsSteps
<1>4. \A i \in 0 .. n : \A j \in i .. n : s[i] <= s[j]
  BY SumsGrow
<1>5. Joined(parts) = f[n]
  BY DEF Joined, Joins
<1> HIDE DEF s, n, f
<1>6. 0 \in T
  <2>1. 0 \in 0 .. n /\ 1 .. 0 = {}
    BY <1>1
  <2>2. Len(f[0]) = s[0]
    BY <1>2, <1>3
  <2> QED BY <2>1, <2>2
<1>7. ASSUME NEW l \in 0 .. n - 1, l \in T PROVE l + 1 \in T
  <2>1. PICK h : h = l + 1
    OBVIOUS
  <2>2. h \in 1 .. n /\ h \in 0 .. n /\ h - 1 = l /\ l \in 0 .. n
    BY <1>1, <2>1
  <2>3. /\ f[l] \in Seq(Nat) /\ parts[h] \in Seq(Nat) /\ Len(parts[h]) = ns[h] /\ ns[h] \in Nat
        /\ s[h] = s[l] + ns[h] /\ s[l] \in Nat /\ f[h] = f[l] \o parts[h]
    BY <1>1, <1>2, <1>3, <2>2
  <2>4. Good(l)
    BY <1>7
  <2>5. Len(f[h]) = s[h]
    <3>1. Len(f[l]) = s[l]
      BY <2>4
    <3> HIDE DEF Good, T
    <3>2. Len(f[h]) = Len(f[l]) + Len(parts[h])
      <4>1. Len(f[l] \o parts[h]) = Len(f[l]) + Len(parts[h])
        BY <2>3, ConcatParts
      <4> QED BY <2>3, <4>1
    <3> QED BY <2>3, <3>1, <3>2
  <2>6. ASSUME NEW i \in 1 .. h, NEW d \in 1 .. ns[i]
        PROVE  f[h][s[i - 1] + d] = parts[i][d]
    <3>1. i \in 1 .. n /\ i - 1 \in 0 .. n /\ ns[i] \in Nat /\ s[i - 1] \in Nat
          /\ s[i] = s[i - 1] + ns[i] /\ s[i] \in Nat
      BY <1>1, <1>2, <2>2
    <3>2. CASE i = h
      <4>1. Len(f[l]) = s[l] /\ s[i - 1] = s[l]
        BY <2>2, <2>4, <3>2
      <4> HIDE DEF Good, T
      <4>2. d \in 1 .. Len(parts[h])
        BY <2>3, <3>2
      <4>3. (f[l] \o parts[h])[Len(f[l]) + d] = parts[h][d]
        BY <2>3, <4>2, ConcatParts
      <4> QED BY <2>3, <3>2, <4>1, <4>3
    <3>3. CASE i # h
      <4>1. i \in 1 .. l /\ l \in i .. n /\ i \in 0 .. n
        BY <1>1, <2>2, <3>3
      <4>2. s[i] <= s[l]
        BY <1>4, <4>1
      <4>3. f[l][s[i - 1] + d] = parts[i][d] /\ Len(f[l]) = s[l]
        BY <2>4, <4>1
      <4> HIDE DEF Good, T
      <4>4. PICK q : q = s[i - 1] + d
        OBVIOUS
      <4>5. q \in 1 .. Len(f[l])
        <5>1. PICK x : x = s[i - 1]
          OBVIOUS
        <5>2. PICK y : y = s[l]
          OBVIOUS
        <5>3. PICK w : w = ns[i]
          OBVIOUS
        <5>4. x \in Nat /\ y \in Nat /\ w \in Nat /\ x + w <= y /\ d \in 1 .. w
          BY <2>3, <3>1, <4>2, <5>1, <5>2, <5>3
        <5>5. q = x + d /\ Len(f[l]) = y
          BY <4>3, <4>4, <5>1, <5>2
        <5> QED BY <5>4, <5>5
      <4>6. f[h][q] = f[l][q]
        <5>1. (f[l] \o parts[h])[q] = f[l][q]
          BY <2>3, <4>5, ConcatParts
        <5> QED BY <2>3, <5>1
      <4> QED BY <4>3, <4>4, <4>6
    <3> QED BY <3>2, <3>3
  <2>7. Good(h)
    BY <2>5, <2>6
  <2> HIDE DEF Good
  <2> QED BY <2>1, <2>2, <2>7
<1>8. Good(n)
  <2>1. \A l \in 0 .. n : l \in T
    <3> HIDE DEF T
    <3> QED BY <1>1, <1>6, <1>7, UpTo
  <2>2. n \in 0 .. n
    BY <1>1
  <2> HIDE DEF Good
  <2> QED BY <2>1, <2>2
<1>9. f[n] \in Seq(Nat)
  BY <1>1, <1>3
<1> QED BY <1>5, <1>8, <1>9 DEF s, n

LEMMA AppendParts ==
  ASSUME NEW A, NEW a \in Seq(A), NEW x \in A
  PROVE  /\ Append(a, x) \in Seq(A) /\ Len(Append(a, x)) = Len(a) + 1 /\ Len(a) \in Nat
         /\ Append(a, x)[Len(a) + 1] = x
         /\ \A q \in 1 .. Len(a) : Append(a, x)[q] = a[q]
OBVIOUS

(* The members of a set of numbers in order: each once, ascending.         *)
LEMMA InOrderIs ==
  ASSUME NEW n \in Nat, NEW S \in SUBSET (1 .. n)
  PROVE  /\ InOrder(S, n) \in Seq(1 .. n) /\ Len(InOrder(S, n)) \in Nat
         /\ \A j \in 1 .. Len(InOrder(S, n)) : InOrder(S, n)[j] \in S
         /\ \A i, j \in 1 .. Len(InOrder(S, n)) : i < j => InOrder(S, n)[i] < InOrder(S, n)[j]
         /\ \A x \in S : \E j \in 1 .. Len(InOrder(S, n)) : InOrder(S, n)[j] = x
<1> DEFINE c == Chosen(S, n)
           Ours(l) == \A j \in 1 .. Len(c[l]) : c[l][j] \in S /\ c[l][j] <= l
           Ascends(l) == \A i, j \in 1 .. Len(c[l]) : i < j => c[l][i] < c[l][j]
           Whole(l) == \A x \in S : x <= l => \E j \in 1 .. Len(c[l]) : c[l][j] = x
           Good(l) == Ours(l) /\ Ascends(l) /\ Whole(l)
           T == {l \in 0 .. n : Good(l)}
<1>1. /\ c \in [0 .. n -> Seq(1 .. n)] /\ c[0] = <<>>
      /\ \A i \in 1 .. n : c[i] = IF i \in S THEN Append(c[i - 1], i) ELSE c[i - 1]
  BY ChosenSteps
<1>2. InOrder(S, n) = c[n]
  BY DEF InOrder, Chosen
<1> HIDE DEF c
<1>3. 0 \in T
  <2>1. 0 \in 0 .. n /\ Len(c[0]) = 0 /\ 1 .. 0 = {}
    BY <1>1
  <2>2. \A x \in S : ~(x <= 0)
    OBVIOUS
  <2> QED BY <2>1, <2>2
<1>4. ASSUME NEW l \in 0 .. n - 1, l \in T PROVE l + 1 \in T
  <2>1. PICK h : h = l + 1
    OBVIOUS
  <2>2. h \in 1 .. n /\ h \in 0 .. n /\ h - 1 = l /\ l \in 0 .. n /\ l < h
    BY <2>1
  <2>3. PICK a : a = c[l]
    OBVIOUS
  <2>4. PICK b : b = c[h]
    OBVIOUS
  <2>5. a \in Seq(1 .. n) /\ b = IF h \in S THEN Append(a, h) ELSE a
    BY <1>1, <2>2, <2>3, <2>4
  <2>6. /\ \A j \in 1 .. Len(a) : a[j] \in S /\ a[j] <= l
        /\ \A i, j \in 1 .. Len(a) : i < j => a[i] < a[j]
        /\ \A x \in S : x <= l => \E j \in 1 .. Len(a) : a[j] = x
    BY <1>4, <2>3
  <2>6a. ASSUME NEW j \in 1 .. Len(a) PROVE a[j] \in S /\ a[j] < h /\ a[j] <= h
    <3>1. PICK x : x = a[j]
      OBVIOUS
    <3>2. x \in S /\ x <= l
      BY <2>6, <3>1
    <3>3. x \in Int /\ l \in Int /\ h \in Int
      BY <2>2, <3>2
    <3> QED BY <2>2, <3>1, <3>2, <3>3
  <2>7. CASE h \notin S
    <3>1. b = a /\ \A x \in S : x <= h => x <= l
      BY <2>2, <2>5, <2>7
    <3>2. \A j \in 1 .. Len(a) : a[j] <= h
      BY <2>6a
    <3>3. Good(h)
      BY <2>4, <2>6, <3>1, <3>2
    <3> HIDE DEF Good
    <3> QED BY <2>1, <2>2, <3>3
  <2>8. CASE h \in S
    <3>1. /\ Len(b) = Len(a) + 1 /\ Len(a) \in Nat /\ b[Len(a) + 1] = h
          /\ \A q \in 1 .. Len(a) : b[q] = a[q]
      BY <2>2, <2>5, <2>8, AppendParts
    <3>2. \A j \in 1 .. Len(b) : j \in 1 .. Len(a) \/ j = Len(a) + 1
      BY <3>1
    <3>3. \A j \in 1 .. Len(b) : b[j] \in S /\ b[j] <= h
      <4>1. \A j \in 1 .. Len(a) : b[j] \in S /\ b[j] <= h
        BY <2>6a, <3>1
      <4> QED BY <2>2, <2>8, <3>1, <3>2, <4>1
    <3>4. ASSUME NEW i \in 1 .. Len(b), NEW j \in 1 .. Len(b), i < j
          PROVE  b[i] < b[j]
      <4>1. i \in 1 .. Len(a)
        BY <3>1, <3>4
      <4>2. CASE j \in 1 .. Len(a)
        BY <2>6, <3>1, <3>4, <4>1, <4>2
      <4>3. CASE j = Len(a) + 1
        <5>1. b[j] = h /\ b[i] = a[i] /\ a[i] < h
          BY <2>6a, <3>1, <4>1, <4>3
        <5> QED BY <5>1
      <4> QED BY <3>2, <4>2, <4>3
    <3>5. ASSUME NEW x \in S, x <= h
          PROVE  \E j \in 1 .. Len(b) : b[j] = x
      <4>1. CASE x = h
        <5>1. Len(a) + 1 \in 1 .. Len(b)
          BY <3>1
        <5> QED BY <3>1, <4>1, <5>1
      <4>2. CASE x # h
        <5>1. x <= l
          BY <2>2, <3>5, <4>2
        <5>2. PICK j \in 1 .. Len(a) : a[j] = x
          BY <2>6, <5>1
        <5>3. j \in 1 .. Len(b) /\ b[j] = x
          BY <3>1, <5>2
        <5> QED BY <5>3
      <4> QED BY <4>1, <4>2
    <3>6. Good(h)
      BY <2>4, <3>3, <3>4, <3>5
    <3> HIDE DEF Good
    <3> QED BY <2>1, <2>2, <3>6
  <2> QED BY <2>7, <2>8
<1>5. Good(n)
  <2>1. \A l \in 0 .. n : l \in T
    <3> HIDE DEF T
    <3> QED BY <1>3, <1>4, UpTo
  <2> HIDE DEF Good
  <2> QED BY <2>1
<1>6. c[n] \in Seq(1 .. n) /\ Len(c[n]) \in Nat
  BY <1>1
<1>7. \A x \in S : x <= n
  OBVIOUS
<1> QED BY <1>2, <1>5, <1>6, <1>7

(* What comes before the rest in number comes first in order.              *)
LEMMA OrderedFirst ==
  ASSUME NEW n \in Nat, NEW R \in SUBSET (1 .. n), NEW S \in SUBSET R,
         \A x \in S : \A y \in R \ S : x < y
  PROVE  /\ Len(InOrder(S, n)) <= Len(InOrder(R, n))
         /\ \A j \in 1 .. Len(InOrder(S, n)) : InOrder(R, n)[j] = InOrder(S, n)[j]
<1> DEFINE c == Chosen(S, n)
           e == Chosen(R, n)
           Good(l) == /\ Len(c[l]) <= Len(e[l])
                      /\ \A j \in 1 .. Len(c[l]) : e[l][j] = c[l][j]
                      /\ (\A y \in R \ S : y > l) => e[l] = c[l]
           T == {l \in 0 .. n : Good(l)}
<1>1. /\ c \in [0 .. n -> Seq(1 .. n)] /\ c[0] = <<>>
      /\ \A i \in 1 .. n : c[i] = IF i \in S THEN Append(c[i - 1], i) ELSE c[i - 1]
  BY ChosenSteps
<1>2. /\ e \in [0 .. n -> Seq(1 .. n)] /\ e[0] = <<>>
      /\ \A i \in 1 .. n : e[i] = IF i \in R THEN Append(e[i - 1], i) ELSE e[i - 1]
  BY ChosenSteps
<1>3. InOrder(S, n) = c[n] /\ InOrder(R, n) = e[n]
  BY DEF InOrder, Chosen
<1> HIDE DEF c, e
<1>4. 0 \in T
  <2>1. 0 \in 0 .. n /\ Len(c[0]) = 0 /\ e[0] = c[0]
    BY <1>1, <1>2
  <2> QED BY <2>1
<1>5. ASSUME NEW l \in 0 .. n - 1, l \in T PROVE l + 1 \in T
  <2>1. PICK h : h = l + 1
    OBVIOUS
  <2>2. h \in 1 .. n /\ h \in 0 .. n /\ h - 1 = l /\ l \in 0 .. n /\ l < h
    BY <2>1
  <2>3. PICK a : a = c[l]
    OBVIOUS
  <2>4. PICK b : b = e[l]
    OBVIOUS
  <2>5. /\ a \in Seq(1 .. n) /\ c[h] = IF h \in S THEN Append(a, h) ELSE a
        /\ b \in Seq(1 .. n) /\ e[h] = IF h \in R THEN Append(b, h) ELSE b
    BY <1>1, <1>2, <2>2, <2>3, <2>4
  <2>6. /\ Len(a) <= Len(b) /\ \A j \in 1 .. Len(a) : b[j] = a[j]
        /\ (\A y \in R \ S : y > l) => b = a
    BY <1>5, <2>3, <2>4
  <2>7. CASE h \in S
    <3>1. \A y \in R \ S : y > l
      BY <2>2, <2>7
    <3>2. c[h] = Append(a, h) /\ e[h] = Append(a, h)
      BY <2>5, <2>6, <2>7, <3>1
    <3>3. Len(Append(a, h)) \in Nat
      BY <2>2, <2>5, AppendParts
    <3>4. Good(h)
      BY <3>2, <3>3
    <3> HIDE DEF Good
    <3> QED BY <2>1, <2>2, <3>4
  <2>8. CASE h \notin S /\ h \in R
    <3>1. c[h] = a /\ e[h] = Append(b, h) /\ ~(\A y \in R \ S : y > h)
      BY <2>2, <2>5, <2>8
    <3>2. /\ Len(e[h]) = Len(b) + 1 /\ Len(b) \in Nat /\ Len(a) \in Nat
          /\ \A q \in 1 .. Len(b) : e[h][q] = b[q]
      BY <2>2, <2>5, <3>1, AppendParts
    <3>3. \A j \in 1 .. Len(a) : j \in 1 .. Len(b)
      BY <2>6, <3>2
    <3>4. Len(a) <= Len(e[h]) /\ \A j \in 1 .. Len(a) : e[h][j] = a[j]
      BY <2>6, <3>2, <3>3
    <3>5. Good(h)
      BY <3>1, <3>4
    <3> HIDE DEF Good
    <3> QED BY <2>1, <2>2, <3>5
  <2>9. CASE h \notin R
    <3>1. c[h] = a /\ e[h] = b
      BY <2>5, <2>9
    <3>2. (\A y \in R \ S : y > h) => \A y \in R \ S : y > l
      BY <2>2
    <3>3. Good(h)
      BY <2>6, <3>1, <3>2
    <3> HIDE DEF Good
    <3> QED BY <2>1, <2>2, <3>3
  <2> QED BY <2>7, <2>8, <2>9
<1>6. Good(n)
  <2>1. \A l \in 0 .. n : l \in T
    <3> HIDE DEF T
    <3> QED BY <1>4, <1>5, UpTo
  <2> HIDE DEF Good
  <2> QED BY <2>1
<1> QED BY <1>3, <1>6

-----------------------------------------------------------------------------
(* Lines and their bytes. *)

LEMMA LineKinds ==
  ASSUME NEW line \in Line
  PROVE  /\ line.op \in {"label", "la", "num", "data"}
         /\ line.op \in {"label", "la"} => line.arg \in Symbols
         /\ line.op \in {"num", "data"} => line.arg \in Nat
         /\ line.op = "label" => Size(line) = 0 /\ line = Label(line.arg)
         /\ line.op = "data" => Size(line) = line.arg
         /\ line.op \in {"la", "num"} => Size(line) = 4
         /\ Size(line) \in Nat
<1>1. CASE line \in [op : {"label", "la"}, arg : Symbols]
  <2>1. line.op \in {"label", "la"} /\ line.arg \in Symbols
    BY <1>1
  <2>2. line = [op |-> line.op, arg |-> line.arg]
    BY <1>1
  <2> QED BY <2>1, <2>2 DEF Size, Label
<1>2. CASE line \in [op : {"num", "data"}, arg : Nat]
  <2>1. line.op \in {"num", "data"} /\ line.arg \in Nat
    BY <1>2
  <2> QED BY <2>1 DEF Size
<1> QED BY <1>1, <1>2 DEF Line

LEMMA WordIs ==
  ASSUME NEW t \in Nat
  PROVE  /\ Word(t) \in Seq(Nat) /\ Len(Word(t)) = 3
         /\ \A n \in 0 .. 2 : Word(t)[n + 1] = Digit(t, n)
<1>1. PICK u : u = t \div ByteBase
  OBVIOUS
<1>2. PICK v : v = u \div ByteBase
  OBVIOUS
<1>3. u \in Nat
  BY <1>1, LinkAssumption
<1>4. v \in Nat
  BY <1>2, <1>3, LinkAssumption
<1>5. t % ByteBase \in Nat /\ u % ByteBase \in Nat /\ v % ByteBase \in Nat
  BY <1>3, <1>4, LinkAssumption
<1>6. Word(t) = <<t % ByteBase, u % ByteBase, v % ByteBase>>
  BY <1>1, <1>2 DEF Word
<1>7. Word(t) \in Seq(Nat) /\ Len(Word(t)) = 3
  BY <1>5, <1>6
<1> QED BY <1>7 DEF Digit

LEMMA BytesAre ==
  ASSUME NEW line \in Line, NEW t \in Nat
  PROVE  /\ Bytes(line, t) \in Seq(Nat) /\ Len(Bytes(line, t)) = Size(line)
         /\ line.op = "data" => \A d \in 1 .. Size(line) : Bytes(line, t)[d] = Payload
         /\ line.op \in {"la", "num"} =>
              /\ Bytes(line, t) = <<LaOp>> \o Word(t)
              /\ Bytes(line, t)[1] = LaOp /\ \A n \in 0 .. 2 : Bytes(line, t)[n + 2] = Digit(t, n)
<1>1. CASE line.op = "label"
  <2>1. Bytes(line, t) = <<>> /\ Size(line) = 0
    BY <1>1 DEF Bytes, Size
  <2> QED BY <1>1, <2>1
<1>2. CASE line.op = "data"
  <2>1. PICK a : a = line.arg
    OBVIOUS
  <2>2. a \in Nat /\ Size(line) = a /\ Bytes(line, t) = [i \in 1 .. a |-> Payload] /\ Payload \in Nat
    BY <1>2, <2>1, LineKinds DEF Bytes, Payload
  <2> QED BY <1>2, <2>2
<1>3. CASE line.op \in {"la", "num"}
  <2>1. Size(line) = 4 /\ Bytes(line, t) = <<LaOp>> \o Word(t)
    BY <1>3 DEF Bytes, Size
  <2>2. PICK w : w = Word(t)
    OBVIOUS
  <2>3. w \in Seq(Nat) /\ Len(w) = 3 /\ \A n \in 0 .. 2 : w[n + 1] = Digit(t, n)
    BY <2>2, WordIs
  <2>4. <<LaOp>> \in Seq(Nat) /\ Len(<<LaOp>>) = 1 /\ <<LaOp>>[1] = LaOp
    BY DEF LaOp
  <2>5. PICK b : b = <<LaOp>> \o w
    OBVIOUS
  <2>6. /\ b \in Seq(Nat) /\ Len(b) = 4 /\ b[1] = LaOp
        /\ \A d \in 1 .. 3 : b[1 + d] = w[d]
    <3>1. PICK a : a = <<LaOp>>
      OBVIOUS
    <3>2. a \in Seq(Nat) /\ Len(a) = 1 /\ a[1] = LaOp /\ b = a \o w
      BY <2>4, <2>5, <3>1
    <3>3. /\ Len(b) = Len(a) + Len(w) /\ \A q \in 1 .. Len(a) : b[q] = a[q]
          /\ \A d \in 1 .. Len(w) : b[Len(a) + d] = w[d]
      BY <2>3, <3>2, ConcatParts
    <3>4. b \in Seq(Nat)
      BY <2>3, <3>2
    <3>5. Len(b) = 4 /\ b[1] = LaOp
      BY SMTT(60), <2>3, <3>2, <3>3
    <3>6. \A d \in 1 .. 3 : b[1 + d] = w[d]
      BY <2>3, <3>2, <3>3
    <3> QED BY <3>4, <3>5, <3>6
  <2>7. \A n \in 0 .. 2 : b[n + 2] = Digit(t, n)
    <3> TAKE n \in 0 .. 2
    <3>1. n + 1 \in 1 .. 3 /\ 1 + (n + 1) = n + 2
      OBVIOUS
    <3>2. b[1 + (n + 1)] = w[n + 1]
      BY <2>6, <3>1
    <3> QED BY <2>3, <3>1, <3>2
  <2> QED BY <1>3, <2>1, <2>2, <2>5, <2>6, <2>7
<1> QED BY <1>1, <1>2, <1>3, LineKinds

(* prep leaves every line its size, and every label where it is.           *)
LEMMA Prepared ==
  ASSUME NEW src \in Seq(Line)
  PROVE  /\ PrepText(src) \in Seq(Line) /\ Len(PrepText(src)) = Len(src)
         /\ \A i \in 1 .. Len(src) :
              PrepText(src)[i] = IF External(src[i], Defined(src)) THEN Num(0) ELSE src[i]
         /\ Sizes(src) \in Seq(Nat) /\ Len(Sizes(src)) = Len(src)
         /\ \A i \in 1 .. Len(src) : Sizes(src)[i] = Size(src[i])
         /\ Sizes(PrepText(src)) = Sizes(src)
<1> DEFINE t == PrepText(src)
           n == Len(src)
<1>1. n \in Nat /\ DOMAIN src = 1 .. n /\ \A i \in 1 .. n : src[i] \in Line
  OBVIOUS
<1>2. Num(0) \in Line
  BY DEF Num, Line
<1>3. t = [i \in 1 .. n |-> IF External(src[i], Defined(src)) THEN Num(0) ELSE src[i]]
  BY <1>1 DEF PrepText
<1> HIDE DEF n, t
<1>4. \A i \in 1 .. n : t[i] = IF External(src[i], Defined(src)) THEN Num(0) ELSE src[i]
  BY <1>3
<1>5. \A i \in 1 .. n : t[i] \in Line
  BY <1>1, <1>2, <1>4
<1>6. DOMAIN t = 1 .. n /\ t = [i \in 1 .. n |-> t[i]]
  BY <1>3
<1>7. t \in Seq(Line) /\ Len(t) = n
  BY <1>1, <1>5, <1>6
<1>8. \A i \in 1 .. n : Size(t[i]) = Size(src[i]) /\ Size(src[i]) \in Nat
  <2> TAKE i \in 1 .. n
  <2>1. CASE External(src[i], Defined(src))
    <3>1. src[i].op = "la" /\ t[i] = Num(0)
      BY <1>4, <2>1 DEF External
    <3>2. Size(t[i]) = 4
      BY <3>1 DEF Size, Num
    <3> QED BY <1>1, <3>1, <3>2, LineKinds
  <2>2. CASE ~External(src[i], Defined(src))
    BY <1>1, <1>4, <2>2, LineKinds
  <2> QED BY <2>1, <2>2
<1>9. Sizes(src) = [i \in 1 .. n |-> Size(src[i])] /\ Sizes(t) = [i \in 1 .. n |-> Size(t[i])]
  BY <1>1, <1>6 DEF Sizes
<1>10. Sizes(t) = Sizes(src)
  BY <1>8, <1>9
<1>11. Sizes(src) \in Seq(Nat) /\ Len(Sizes(src)) = n /\ \A i \in 1 .. n : Sizes(src)[i] = Size(src[i])
  BY <1>1, <1>8, <1>9
<1> QED BY <1>4, <1>7, <1>10, <1>11 DEF n, t

(* A label is one line, the same before prep and after it.                 *)
LEMMA LabelsStand ==
  ASSUME NEW src \in Seq(Line), Assembles(src), NEW s \in Defined(src)
  PROVE  \E i \in 1 .. Len(src) :
           src[i] = Label(s) /\ LabelAt(src, s) = i /\ LabelAt(PrepText(src), s) = i
<1> DEFINE t == PrepText(src)
<1>1. PICK i \in 1 .. Len(src) : src[i].op = "label" /\ src[i].arg = s
  BY DEF Defined
<1>2. src[i] = Label(s)
  BY <1>1, LineKinds
<1>3. \A j \in 1 .. Len(src) : src[j] = Label(s) => j = i
  BY <1>1, <1>2 DEF Assembles
<1>4. \A j \in 1 .. Len(src) : t[j] = Label(s) <=> src[j] = Label(s)
  <2> TAKE j \in 1 .. Len(src)
  <2>1. t[j] = IF External(src[j], Defined(src)) THEN Num(0) ELSE src[j]
    BY Prepared
  <2>2. Num(0) # Label(s) /\ (External(src[j], Defined(src)) => src[j] # Label(s))
    <3>1. Num(0).op = "num" /\ Label(s).op = "label"
      BY DEF Num, Label
    <3>2. External(src[j], Defined(src)) => src[j].op = "la"
      BY DEF External
    <3> QED BY <3>1, <3>2
  <2> QED BY <2>1, <2>2
<1>5. DOMAIN src = 1 .. Len(src) /\ DOMAIN t = 1 .. Len(src)
  BY Prepared
<1> HIDE DEF t
<1>6. LabelAt(src, s) = i
  BY <1>2, <1>3, <1>5 DEF LabelAt
<1>7. LabelAt(t, s) = i
  BY <1>2, <1>3, <1>4, <1>5 DEF LabelAt
<1> QED BY <1>2, <1>6, <1>7 DEF t

LEMMA Offsets ==
  ASSUME NEW src \in Seq(Line)
  PROVE  /\ SizeOf(src) \in Nat /\ SizeOf(PrepText(src)) = SizeOf(src)
         /\ \A i \in 1 .. Len(src) :
              /\ OffsetOf(src, i) \in Nat /\ OffsetOf(PrepText(src), i) = OffsetOf(src, i)
              /\ OffsetOf(src, i) + Size(src[i]) <= SizeOf(src)
         /\ \A i, j \in 1 .. Len(src) : i < j => OffsetOf(src, i) + Size(src[i]) <= OffsetOf(src, j)
<1>1. PICK n : n = Len(src)
  OBVIOUS
<1>2. PICK ns : ns = Sizes(src)
  OBVIOUS
<1>3. PICK s : s = Sums(ns)
  OBVIOUS
<1>4. n \in Nat /\ ns \in Seq(Nat) /\ Len(ns) = n /\ Sizes(PrepText(src)) = ns
      /\ Len(PrepText(src)) = n /\ \A i \in 1 .. n : ns[i] = Size(src[i])
  BY <1>1, <1>2, Prepared
<1>5. s \in [0 .. n -> Nat] /\ \A i \in 1 .. n : s[i] = s[i - 1] + ns[i]
  BY <1>3, <1>4, SumsSteps
<1>6. \A i \in 0 .. n : \A j \in i .. n : s[i] <= s[j]
  BY <1>3, <1>4, SumsGrow
<1>7. /\ SizeOf(src) = s[n] /\ SizeOf(PrepText(src)) = s[n]
      /\ \A i : OffsetOf(src, i) = s[i - 1] /\ OffsetOf(PrepText(src), i) = s[i - 1]
  BY <1>1, <1>2, <1>3, <1>4 DEF SizeOf, OffsetOf
<1>8. ASSUME NEW i \in 1 .. n
      PROVE  s[i - 1] \in Nat /\ s[i - 1] + Size(src[i]) = s[i] /\ s[i] <= s[n]
             /\ \A j \in 1 .. n : i < j => s[i] <= s[j - 1]
  <2>1. i - 1 \in 0 .. n /\ i \in 0 .. n /\ n \in i .. n
    BY <1>4
  <2>2. \A j \in 1 .. n : i < j => j - 1 \in i .. n
    BY <1>4
  <2> QED BY <1>4, <1>5, <1>6, <2>1, <2>2
<1>9. s[n] \in Nat
  BY <1>4, <1>5
<1>10. ASSUME NEW i \in 1 .. n
       PROVE  /\ OffsetOf(src, i) \in Nat /\ OffsetOf(PrepText(src), i) = OffsetOf(src, i)
              /\ OffsetOf(src, i) + Size(src[i]) <= SizeOf(src)
              /\ \A j \in 1 .. n : i < j => OffsetOf(src, i) + Size(src[i]) <= OffsetOf(src, j)
  <2>1. OffsetOf(src, i) = s[i - 1] /\ OffsetOf(PrepText(src), i) = s[i - 1]
        /\ \A j \in 1 .. n : OffsetOf(src, j) = s[j - 1]
    BY <1>7
  <2> QED BY <1>7, <1>8, <2>1
<1> QED BY <1>1, <1>7, <1>9, <1>10

(* The address a line is assembled with, at a start: 0 where prep has put   *)
(* it, the module's own for its own labels, the number of a number.        *)
AddressAt(src, start, i) ==
  IF External(src[i], Defined(src)) THEN 0
  ELSE IF src[i].op = "la" THEN start + OffsetOf(src, LabelAt(src, src[i].arg))
  ELSE IF src[i].op = "num" THEN src[i].arg ELSE 0

LEMMA ListingIs ==
  ASSUME NEW src \in Seq(Line), Assembles(src), NEW start \in Nat
  PROVE  LET L == Assembled(PrepText(src), start) IN
           /\ DOMAIN L = 1 .. Len(src) /\ Len(L) = Len(src)
           /\ \A i \in 1 .. Len(src) :
                /\ L[i].at = OffsetOf(src, i) /\ L[i].line = PrepText(src)[i]
                /\ AddressAt(src, start, i) \in Nat
                /\ L[i].bytes = Bytes(PrepText(src)[i], AddressAt(src, start, i))
                /\ src[i].op = "la" /\ ~External(src[i], Defined(src)) => src[i].arg \in Defined(src)
<1> DEFINE t == PrepText(src)
           L == Assembled(t, start)
           Address(line) == IF line.op = "la" THEN start + OffsetOf(t, LabelAt(t, line.arg))
                            ELSE line.arg
           n == Len(src)
<1>1. /\ n \in Nat /\ DOMAIN t = 1 .. n /\ t \in Seq(Line)
      /\ \A i \in 1 .. n : t[i] = IF External(src[i], Defined(src)) THEN Num(0) ELSE src[i]
  BY Prepared
<1>2. L = [i \in DOMAIN t |->
        [at |-> OffsetOf(t, i), line |-> t[i],
         bytes |-> Bytes(t[i], IF t[i].op \in {"la", "num"} THEN Address(t[i]) ELSE 0)]]
  BY DEF Assembled
<1> HIDE DEF t, L, Address, n
<1>3. DOMAIN L = 1 .. n /\ Len(L) = n
  <2>1. DOMAIN L = 1 .. n
    BY <1>1, <1>2
  <2>2. L = [i \in 1 .. n |-> L[i]]
    BY <1>2, <2>1
  <2> QED BY <1>1, <2>1, <2>2
<1>4. ASSUME NEW i \in 1 .. n
      PROVE  /\ L[i].at = OffsetOf(t, i) /\ L[i].line = t[i]
             /\ L[i].bytes = Bytes(t[i], IF t[i].op \in {"la", "num"} THEN Address(t[i]) ELSE 0)
  BY <1>1, <1>2
<1>5. \A i \in 1 .. n : OffsetOf(t, i) = OffsetOf(src, i) /\ OffsetOf(src, i) \in Nat
  BY Offsets DEF t, n
<1>6. ASSUME NEW i \in 1 .. n
      PROVE  /\ AddressAt(src, start, i) \in Nat
             /\ AddressAt(src, start, i) = IF t[i].op \in {"la", "num"} THEN Address(t[i]) ELSE 0
             /\ src[i].op = "la" /\ ~External(src[i], Defined(src)) => src[i].arg \in Defined(src)
  <2>1. src[i] \in Line
    BY DEF n
  <2>2. CASE External(src[i], Defined(src))
    <3>1. t[i] = Num(0) /\ AddressAt(src, start, i) = 0
      BY <1>1, <2>2 DEF AddressAt
    <3> QED BY <2>2, <3>1 DEF Num, Address
  <2>3. CASE ~External(src[i], Defined(src)) /\ src[i].op = "la"
    <3>1. t[i] = src[i]
      BY <1>1, <2>3
    <3>2. src[i].arg \in Defined(src)
      <4>1. i \in DOMAIN src
        BY DEF n
      <4>2. src[i].arg \in Underscored \cup Defined(src)
        BY <2>3, <4>1 DEF Assembles
      <4> QED BY <2>3, <4>2 DEF External
    <3>3. PICK j \in 1 .. n : LabelAt(src, src[i].arg) = j /\ LabelAt(t, src[i].arg) = j
      BY <3>2, LabelsStand DEF t, n
    <3>4. AddressAt(src, start, i) = start + OffsetOf(src, j)
      BY <2>3, <3>3 DEF AddressAt
    <3>5. Address(t[i]) = start + OffsetOf(t, j)
      BY <2>3, <3>1, <3>3 DEF Address
    <3> QED BY <1>5, <2>3, <3>1, <3>2, <3>3, <3>4, <3>5
  <2>4. CASE src[i].op = "num"
    <3>1. ~External(src[i], Defined(src))
      BY <2>4 DEF External
    <3>2. t[i] = src[i] /\ src[i].arg \in Nat
      BY <1>1, <2>1, <2>4, <3>1, LineKinds
    <3> QED BY <2>4, <3>1, <3>2 DEF AddressAt, Address
  <2>5. CASE src[i].op \in {"label", "data"}
    <3>1. ~External(src[i], Defined(src))
      BY <2>5 DEF External
    <3>2. t[i] = src[i]
      BY <1>1, <3>1
    <3> QED BY <2>5, <3>1, <3>2 DEF AddressAt
  <2> QED BY <2>1, <2>2, <2>3, <2>4, <2>5, LineKinds
<1> QED BY <1>3, <1>4, <1>5, <1>6 DEF L, t, n

LEMMA BinaryIs ==
  ASSUME NEW src \in Seq(Line), Assembles(src), NEW start \in Nat
  PROVE  LET b == Linked(PrepText(src), start) IN
           /\ b \in Seq(Nat) /\ Len(b) = SizeOf(src)
           /\ \A i \in 1 .. Len(src) : \A d \in 1 .. Size(src[i]) :
                b[OffsetOf(src, i) + d] = Bytes(PrepText(src)[i], AddressAt(src, start, i))[d]
<1> DEFINE t == PrepText(src)
           L == Assembled(t, start)
           n == Len(src)
           parts == [i \in DOMAIN L |-> L[i].bytes]
           b == Linked(t, start)
<1>1. b = Joined(parts)
  BY DEF Linked, Binary
<1>2. /\ DOMAIN L = 1 .. n
      /\ \A i \in 1 .. n : AddressAt(src, start, i) \in Nat
                           /\ L[i].bytes = Bytes(t[i], AddressAt(src, start, i))
  BY ListingIs
<1>3. /\ t \in Seq(Line) /\ Len(t) = n /\ n \in Nat
      /\ Sizes(src) \in Seq(Nat) /\ Len(Sizes(src)) = n /\ Sizes(t) = Sizes(src)
      /\ \A i \in 1 .. n : Sizes(src)[i] = Size(src[i])
  BY Prepared
<1>4. \A i \in 1 .. n : t[i] \in Line /\ Size(t[i]) = Sizes(src)[i]
  <2>1. \A i \in 1 .. n : t[i] \in Line
    BY <1>3
  <2>2. \A i \in 1 .. n : Sizes(t)[i] = Size(t[i])
    <3> HIDE DEF t
    <3> QED BY <1>3, Prepared
  <2> QED BY <1>3, <2>1, <2>2
<1> HIDE DEF t, L, n, b
<1>5. \A i \in 1 .. n : L[i].bytes \in Seq(Nat) /\ Len(L[i].bytes) = Sizes(src)[i]
  BY <1>2, <1>4, BytesAre
<1>6. parts \in Seq(Seq(Nat)) /\ Len(parts) = n /\ \A i \in 1 .. n : parts[i] = L[i].bytes
  <2>1. parts = [i \in 1 .. n |-> L[i].bytes]
    BY <1>2
  <2> HIDE DEF parts
  <2> QED BY <1>3, <1>5, <2>1
<1> HIDE DEF parts
<1>7. \A i \in 1 .. n : Len(parts[i]) = Sizes(src)[i]
  BY <1>5, <1>6
<1>8. /\ Joined(parts) \in Seq(Nat) /\ Len(Joined(parts)) = Sums(Sizes(src))[n]
      /\ \A i \in 1 .. n : \A d \in 1 .. Sizes(src)[i] :
           Joined(parts)[Sums(Sizes(src))[i - 1] + d] = parts[i][d]
  <2>1. PICK ns : ns = Sizes(src)
    OBVIOUS
  <2>2. /\ parts \in Seq(Seq(Nat)) /\ ns \in Seq(Nat) /\ Len(ns) = Len(parts)
        /\ \A i \in 1 .. Len(ns) : Len(parts[i]) = ns[i]
    BY <1>3, <1>6, <1>7, <2>1
  <2>3. /\ Joined(parts) \in Seq(Nat) /\ Len(Joined(parts)) = Sums(ns)[Len(ns)]
        /\ \A i \in 1 .. Len(ns) : \A d \in 1 .. ns[i] :
             Joined(parts)[Sums(ns)[i - 1] + d] = parts[i][d]
    BY <2>2, JoinedParts
  <2> QED BY <1>3, <2>1, <2>3
<1>9. SizeOf(src) = Sums(Sizes(src))[n] /\ \A i : OffsetOf(src, i) = Sums(Sizes(src))[i - 1]
  BY DEF SizeOf, OffsetOf, n
<1>10. ASSUME NEW i \in 1 .. n, NEW d \in 1 .. Size(src[i])
       PROVE  b[OffsetOf(src, i) + d] = Bytes(t[i], AddressAt(src, start, i))[d]
  <2>1. d \in 1 .. Sizes(src)[i]
    BY <1>3
  <2>2. Joined(parts)[Sums(Sizes(src))[i - 1] + d] = parts[i][d]
    BY <1>8, <2>1
  <2> QED BY <1>1, <1>2, <1>6, <1>9, <2>2
<1> QED BY <1>1, <1>8, <1>9, <1>10 DEF b, t, n

-----------------------------------------------------------------------------
(* What emit writes. *)

LEMMA PrepKinds ==
  ASSUME NEW src \in Seq(Line), NEW i \in 1 .. Len(src)
  PROVE  /\ PrepText(src)[i].op = "label" <=> src[i].op = "label"
         /\ PrepText(src)[i].op = "label" => PrepText(src)[i] = src[i]
         /\ External(src[i], Defined(src)) => PrepText(src)[i] = Num(0)
         /\ ~External(src[i], Defined(src)) => PrepText(src)[i] = src[i]
<1>1. PrepText(src)[i] = IF External(src[i], Defined(src)) THEN Num(0) ELSE src[i]
  BY Prepared
<1>2. External(src[i], Defined(src)) => src[i].op = "la"
  BY DEF External
<1>3. Num(0).op = "num"
  BY DEF Num
<1> QED BY <1>1, <1>2, <1>3

(* A label has the address of the line that follows it: its own.           *)
LEMMA LabelsPlaced ==
  ASSUME NEW src \in Seq(Line), Assembles(src), Regular(src), NEW i \in 1 .. Len(src),
         src[i].op = "label"
  PROVE  LabelOffset(Assembled(PrepText(src), 0), i) = OffsetOf(src, i)
<1> DEFINE n == Len(src)
           L == Assembled(PrepText(src), 0)
           after == {j \in i .. Len(L) : L[j].line.op # "label"}
           least == CHOOSE j \in after : \A l \in after : j <= l
           ns == Sizes(src)
<1>1. /\ n \in Nat /\ Len(L) = n
      /\ \A j \in 1 .. n : L[j].at = OffsetOf(src, j) /\ (L[j].line.op = "label" <=> src[j].op = "label")
  <2>1. 0 \in Nat
    OBVIOUS
  <2>2. /\ Len(L) = n
        /\ \A j \in 1 .. n : L[j].at = OffsetOf(src, j) /\ L[j].line = PrepText(src)[j]
    BY <2>1, ListingIs
  <2> HIDE DEF L
  <2> QED BY <2>2, PrepKinds
<1> HIDE DEF L
<1>2. n \in after
  <2>1. src # <<>> /\ n \in 1 .. n /\ n \in i .. n
    BY <1>1
  <2>2. src[n].op # "label"
    BY <2>1 DEF Regular
  <2> QED BY <1>1, <2>1, <2>2
<1>3. after \subseteq Nat
  BY <1>1
<1>4. least \in after /\ \A l \in after : least <= l
  <2> HIDE DEF after
  <2>1. \E j \in after : \A l \in after : j <= l
    BY <1>2, <1>3, NatLeast
  <2> QED BY <2>1
<1>5. LabelOffset(L, i) = L[least].at
  <2>1. after # {}
    BY <1>2
  <2>2. LabelOffset(L, i) = IF after = {} THEN Pending ELSE L[least].at
    BY DEF LabelOffset
  <2> HIDE DEF after, least
  <2> QED BY <2>1, <2>2
<1>6. least \in i .. n /\ least \in 1 .. n
  BY <1>1, <1>4
<1>7. ASSUME NEW l \in (i - 1) + 1 .. least - 1 PROVE ns[l] = 0
  <2>1. l \in i .. n /\ l \in 1 .. n /\ l < least
    BY <1>1, <1>6, <1>7
  <2>2. l \notin after
    <3> HIDE DEF after, least
    <3>1. least \in Nat /\ l \in Nat
      BY <1>6, <2>1
    <3> QED BY <1>4, <2>1, <3>1
  <2>3. src[l].op = "label"
    BY <1>1, <2>1, <2>2
  <2>4. Size(src[l]) = 0
    BY <2>1, <2>3, LineKinds
  <2> QED BY <2>1, <2>4, Prepared
<1> HIDE DEF least, after
<1>8. Sums(ns)[i - 1] = Sums(ns)[least - 1]
  <2>1. ns \in Seq(Nat) /\ Len(ns) = n
    BY Prepared
  <2>2. i - 1 \in 0 .. n /\ least - 1 \in i - 1 .. n
    BY <1>1, <1>6
  <2> HIDE DEF ns, n
  <2> QED BY <1>7, <2>1, <2>2, SumsGrow
<1>9. L[least].at = OffsetOf(src, least)
  BY <1>1, <1>6
<1> QED BY <1>5, <1>8, <1>9 DEF OffsetOf, L

(* The exports are the shared labels of the module, each once.             *)
LEMMA ExportsAre ==
  ASSUME NEW src \in Seq(Line), Assembles(src), Regular(src)
  PROVE  LET E == ExportsOf(Assembled(PrepText(src), 0), Syms(src)) IN
           /\ E \in Seq(Entries(Symbols)) /\ Len(E) \in Nat
           /\ \A j \in 1 .. Len(E) :
                /\ E[j].sym \in Underscored \cap Defined(src)
                /\ E[j].at = OffsetOf(src, LabelAt(src, E[j].sym))
           /\ \A i, j \in 1 .. Len(E) : E[i].sym = E[j].sym => i = j
           /\ \A s \in Underscored \cap Defined(src) : \E j \in 1 .. Len(E) : E[j].sym = s
<1> DEFINE n == Len(src)
           L == Assembled(PrepText(src), 0)
           labels == {i \in DOMAIN L : /\ L[i].line.op = "label"
                                       /\ L[i].line.arg \in Underscored \cap Syms(src).def
                                       /\ LabelOffset(L, i) # Pending}
           order == InOrder(labels, Len(L))
           E == ExportsOf(L, Syms(src))
<1>1. n \in Nat /\ DOMAIN src = 1 .. n
  OBVIOUS
<1>2. /\ Len(L) = n /\ DOMAIN L = 1 .. n
      /\ \A i \in 1 .. n : L[i].line = PrepText(src)[i]
  BY ListingIs
<1>3. Syms(src).def = Defined(src)
  BY DEF Syms
<1>4. \A i \in 1 .. n : src[i].op = "label" =>
        LabelOffset(L, i) = OffsetOf(src, i) /\ OffsetOf(src, i) \in Nat
  BY LabelsPlaced, Offsets
<1>5. \A i \in 1 .. n : src[i].op = "label" => LabelOffset(L, i) # Pending
  <2> TAKE i \in 1 .. n
  <2> HAVE src[i].op = "label"
  <2>1. PICK o : o = LabelOffset(L, i)
    OBVIOUS
  <2>2. o \in Nat
    BY <1>4, <2>1
  <2> QED BY <2>1, <2>2 DEF Pending
<1>6. E = [j \in DOMAIN order |-> [sym |-> L[order[j]].line.arg, at |-> LabelOffset(L, order[j])]]
  BY DEF ExportsOf
<1>7. labels = {i \in 1 .. n : src[i].op = "label" /\ src[i].arg \in Underscored}
  <2>1. ASSUME NEW i \in 1 .. n
        PROVE  i \in labels <=> src[i].op = "label" /\ src[i].arg \in Underscored
    <3>1. L[i].line.op = "label" <=> src[i].op = "label"
      BY <1>2, PrepKinds
    <3>2. L[i].line.op = "label" => L[i].line.arg = src[i].arg /\ src[i].arg \in Defined(src)
      <4>1. L[i].line.op = "label" => L[i].line = src[i]
        BY <1>2, PrepKinds
      <4>2. src[i].op = "label" => src[i].arg \in Defined(src)
        BY <1>1 DEF Defined
      <4> QED BY <3>1, <4>1, <4>2
    <3> QED BY <1>2, <1>3, <1>5, <3>1, <3>2
  <2> QED BY <1>2, <2>1
<1> HIDE DEF L, E, labels, n
<1>8. labels \in SUBSET (1 .. n)
  BY <1>7
<1>9. /\ order \in Seq(1 .. n) /\ Len(order) \in Nat /\ \A j \in 1 .. Len(order) : order[j] \in labels
      /\ \A i, j \in 1 .. Len(order) : i < j => order[i] < order[j]
      /\ \A x \in labels : \E j \in 1 .. Len(order) : order[j] = x
  <2>1. order = InOrder(labels, n)
    BY <1>2
  <2> HIDE DEF order
  <2> QED BY <1>1, <1>8, <2>1, InOrderIs
<1> HIDE DEF order
<1>10. /\ Len(E) = Len(order) /\ DOMAIN E = 1 .. Len(order)
       /\ \A j \in 1 .. Len(order) :
            E[j] = [sym |-> L[order[j]].line.arg, at |-> LabelOffset(L, order[j])]
  <2>1. DOMAIN order = 1 .. Len(order)
    BY <1>9
  <2>2. E = [j \in 1 .. Len(order) |->
               [sym |-> L[order[j]].line.arg, at |-> LabelOffset(L, order[j])]]
    BY <1>6, <2>1
  <2> QED BY <1>9, <2>2
<1>11. ASSUME NEW j \in 1 .. Len(order)
       PROVE  /\ order[j] \in 1 .. n /\ src[order[j]] = Label(E[j].sym)
              /\ E[j] \in Entries(Symbols)
              /\ E[j].sym \in Underscored \cap Defined(src)
              /\ E[j].at = OffsetOf(src, LabelAt(src, E[j].sym))
  <2>1. PICK i : i = order[j]
    OBVIOUS
  <2>2. i \in 1 .. n /\ src[i].op = "label" /\ src[i].arg \in Underscored
    BY <1>7, <1>9, <2>1
  <2>3. PICK s : s = src[i].arg
    OBVIOUS
  <2>4. src[i] \in Line /\ src[i] = Label(s) /\ s \in Symbols
    BY <2>2, <2>3, LineKinds DEF n
  <2>5. L[i].line = src[i]
    BY <1>2, <2>2, PrepKinds DEF n
  <2>6. E[j] = [sym |-> s, at |-> OffsetOf(src, i)] /\ OffsetOf(src, i) \in Nat
    BY <1>4, <1>10, <2>1, <2>2, <2>3, <2>5
  <2>7. s \in Defined(src)
    BY <1>1, <2>2, <2>3 DEF Defined
  <2>8. LabelAt(src, s) = i
    <3>1. PICK h \in 1 .. n : src[h] = Label(s) /\ LabelAt(src, s) = h
      BY <2>7, LabelsStand DEF n
    <3>2. h = i
      BY <1>1, <2>2, <2>4, <3>1 DEF Assembles
    <3> QED BY <3>1, <3>2
  <2>9. E[j].sym = s /\ E[j].at = OffsetOf(src, i)
    BY <2>6
  <2>10. E[j] \in Entries(Symbols)
    BY <2>4, <2>6 DEF Entries
  <2> QED BY <2>1, <2>2, <2>3, <2>4, <2>7, <2>8, <2>9, <2>10
<1>12. E \in Seq(Entries(Symbols))
  <2>1. E = [j \in 1 .. Len(order) |-> E[j]]
    BY <1>6, <1>9, <1>10
  <2>2. \A j \in 1 .. Len(order) : E[j] \in Entries(Symbols)
    BY <1>11
  <2> QED BY <1>9, <2>1, <2>2
<1>13. ASSUME NEW i \in 1 .. Len(E), NEW j \in 1 .. Len(E), E[i].sym = E[j].sym
       PROVE  i = j
  <2>1. i \in 1 .. Len(order) /\ j \in 1 .. Len(order)
    BY <1>10
  <2>2. src[order[i]] = src[order[j]] /\ order[i] \in 1 .. n /\ order[j] \in 1 .. n
    BY <1>11, <1>13, <2>1
  <2>3. src[order[i]].op = "label"
    BY <1>7, <1>9, <2>1
  <2>4. order[i] = order[j]
    BY <1>1, <2>2, <2>3 DEF Assembles
  <2>5. ~(i < j) /\ ~(j < i)
    <3>1. order[i] \in Int /\ order[j] \in Int
      BY <2>2
    <3>2. ~(order[i] < order[j]) /\ ~(order[j] < order[i])
      BY <2>4, <3>1
    <3> QED BY <1>9, <2>1, <3>2
  <2> QED BY <1>9, <2>1, <2>5
<1>14. ASSUME NEW s \in Underscored \cap Defined(src)
       PROVE  \E j \in 1 .. Len(E) : E[j].sym = s
  <2>1. PICK i \in 1 .. n : src[i].op = "label" /\ src[i].arg = s
    BY <1>1 DEF Defined
  <2>2. i \in labels
    BY <1>7, <2>1
  <2>3. PICK j \in 1 .. Len(order) : order[j] = i
    BY <1>9, <2>2
  <2>4. src[i] = Label(E[j].sym)
    BY <1>11, <2>3
  <2>5. E[j].sym = s
    <3>1. Label(E[j].sym).arg = E[j].sym
      BY DEF Label
    <3> QED BY <2>1, <2>4, <3>1
  <2> QED BY <1>10, <2>3, <2>5
<1>15. Len(E) \in Nat /\ \A j \in 1 .. Len(E) : j \in 1 .. Len(order)
  BY <1>9, <1>10
<1> QED BY <1>11, <1>12, <1>13, <1>14, <1>15 DEF E, L

LEMMA WordsSame ==
  ASSUME NEW t \in Nat, NEW u \in Nat, <<LaOp>> \o Word(t) = <<LaOp>> \o Word(u)
  PROVE  Word(t) = Word(u)
<1>1. PICK a : a = Word(t)
  OBVIOUS
<1>2. PICK b : b = Word(u)
  OBVIOUS
<1>3. PICK c : c = <<LaOp>>
  OBVIOUS
<1>4. a \in Seq(Nat) /\ b \in Seq(Nat) /\ Len(a) = 3 /\ Len(b) = 3 /\ c \in Seq(Nat) /\ Len(c) = 1
  BY <1>1, <1>2, <1>3, WordIs DEF LaOp
<1>5. c \o a = c \o b
  BY <1>1, <1>2, <1>3
<1>6. \A d \in 1 .. 3 : (c \o a)[1 + d] = a[d] /\ (c \o b)[1 + d] = b[d]
  <2>1. \A d \in 1 .. Len(a) : (c \o a)[Len(c) + d] = a[d]
    BY <1>4, ConcatParts
  <2>2. \A d \in 1 .. Len(b) : (c \o b)[Len(c) + d] = b[d]
    BY <1>4, ConcatParts
  <2> QED BY <1>4, <2>1, <2>2
<1>7. \A d \in 1 .. 3 : a[d] = b[d]
  BY <1>5, <1>6
<1>8. a = [d \in 1 .. 3 |-> a[d]] /\ b = [d \in 1 .. 3 |-> b[d]]
  BY <1>4
<1>9. a = b
  BY <1>7, <1>8
<1> QED BY <1>1, <1>2, <1>9

(* The lines prep has replaced come first among the la rN,0 of the listing. *)
LEMMA ZerosAre ==
  ASSUME NEW src \in Seq(Line), Assembles(src), Regular(src)
  PROVE  LET L == Assembled(PrepText(src), 0)
             Z == {i \in DOMAIN L : LaZero(L[i])} IN
           /\ Z \in SUBSET (1 .. Len(src)) /\ ExternalLines(src) \in SUBSET Z
           /\ \A x \in ExternalLines(src) : \A y \in Z \ ExternalLines(src) : x < y
<1> DEFINE n == Len(src)
           L == Assembled(PrepText(src), 0)
           Z == {i \in DOMAIN L : LaZero(L[i])}
           X == ExternalLines(src)
<1>1. /\ n \in Nat /\ DOMAIN src = 1 .. n /\ DOMAIN L = 1 .. n
      /\ \A i \in 1 .. n :
           /\ L[i].line = PrepText(src)[i] /\ AddressAt(src, 0, i) \in Nat
           /\ L[i].bytes = Bytes(PrepText(src)[i], AddressAt(src, 0, i))
  <2>1. 0 \in Nat
    OBVIOUS
  <2> QED BY <2>1, ListingIs
<1> HIDE DEF L
<1>2. ASSUME NEW x \in X PROVE x \in Z /\ External(src[x], Defined(src))
  <2>1. x \in 1 .. n /\ External(src[x], Defined(src))
    BY <1>1 DEF ExternalLines
  <2>2. PrepText(src)[x] = Num(0) /\ AddressAt(src, 0, x) = 0
    BY <2>1, PrepKinds DEF AddressAt
  <2>3. L[x].line = Num(0) /\ L[x].bytes = Bytes(Num(0), 0)
    BY <1>1, <2>1, <2>2
  <2>4. Num(0) \in Line /\ Num(0).op = "num" /\ Size(Num(0)) = 4
    BY DEF Num, Line, Size
  <2>5. Bytes(Num(0), 0) = <<LaOp>> \o Word(0) /\ Len(Bytes(Num(0), 0)) = 4
    BY <2>4, BytesAre
  <2>6. LaZero(L[x])
    BY <2>3, <2>4, <2>5 DEF LaZero
  <2> QED BY <1>1, <2>1, <2>6
<1>3. ASSUME NEW x \in X, NEW y \in Z \ X PROVE x < y
  <2>1. x \in DOMAIN src /\ External(src[x], Defined(src))
    BY <1>1, <1>2
  <2>2. y \in 1 .. n /\ LaZero(L[y]) /\ ~External(src[y], Defined(src))
    BY <1>1 DEF ExternalLines
  <2>3. L[y].line = src[y]
    BY <1>1, <2>2, PrepKinds
  <2>4. src[y].op = "num" /\ src[y] \in Line
    BY <2>2, <2>3 DEF LaZero
  <2>5. src[y].arg \in Nat /\ AddressAt(src, 0, y) = src[y].arg
    BY <2>2, <2>4, LineKinds DEF AddressAt
  <2>6. L[y].bytes = <<LaOp>> \o Word(src[y].arg)
    <3>1. L[y].bytes = Bytes(src[y], src[y].arg)
      BY <1>1, <2>2, <2>3, <2>5
    <3> QED BY <2>4, <2>5, <3>1, BytesAre
  <2>7. L[y].bytes = <<LaOp>> \o Word(0)
    BY <2>2 DEF LaZero
  <2>8. Word(src[y].arg) = Word(0)
    <3>1. 0 \in Nat
      OBVIOUS
    <3> QED BY <2>5, <2>6, <2>7, <3>1, WordsSame
  <2>9. ZerosLast(src)
    BY DEF Regular
  <2> QED BY <1>1, <2>1, <2>2, <2>4, <2>8, <2>9 DEF ZerosLast
<1>4. Z \in SUBSET (1 .. n)
  BY <1>1
<1> HIDE DEF Z, X
<1>5. X \in SUBSET Z /\ \A x \in X : \A y \in Z \ X : x < y
  BY <1>2, <1>3
<1> QED BY <1>4, <1>5 DEF Z, L, X

(* The fixups are the lines prep has replaced, in order.                   *)
LEMMA FixupsAre ==
  ASSUME NEW src \in Seq(Line), Assembles(src), Regular(src)
  PROVE  LET F == FixupsOf(Assembled(PrepText(src), 0), Syms(src))
             refs == InOrder(ExternalLines(src), Len(src)) IN
           /\ F \in Seq(Entries(Symbols)) /\ Len(F) = Len(refs) /\ Len(F) \in Nat
           /\ \A j \in 1 .. Len(F) :
                /\ refs[j] \in ExternalLines(src)
                /\ F[j].at = OffsetOf(src, refs[j]) /\ F[j].sym = src[refs[j]].arg
<1> DEFINE n == Len(src)
           L == Assembled(PrepText(src), 0)
           Z == {i \in DOMAIN L : LaZero(L[i])}
           X == ExternalLines(src)
           zeros == InOrder(Z, n)
           refs == InOrder(X, n)
           syms == Syms(src)
           F == FixupsOf(L, syms)
<1>1. n \in Nat /\ DOMAIN src = 1 .. n
  OBVIOUS
<1>2. Len(L) = n /\ \A i \in 1 .. n : L[i].at = OffsetOf(src, i)
  <2>1. 0 \in Nat
    OBVIOUS
  <2> QED BY <2>1, ListingIs
<1>3. Z \in SUBSET (1 .. n) /\ X \in SUBSET Z /\ \A x \in X : \A y \in Z \ X : x < y
  BY ZerosAre
<1>4. Zeros(L) = zeros
  BY <1>2 DEF Zeros
<1>5. syms.ref = [j \in DOMAIN refs |-> src[refs[j]].arg]
  BY DEF Syms
<1>6. \A x \in X : x \in 1 .. n /\ src[x] \in Line /\ src[x].op = "la" /\ src[x].arg \in Symbols
  <2> TAKE x \in X
  <2>1. x \in 1 .. n /\ src[x] \in Line /\ src[x].op = "la"
    BY <1>1 DEF ExternalLines, External
  <2> QED BY <2>1, LineKinds
<1> HIDE DEF Z, L, X, syms, n
<1>7. /\ Len(refs) <= Len(zeros)
      /\ \A j \in 1 .. Len(refs) : zeros[j] = refs[j]
  BY <1>1, <1>3, OrderedFirst
<1>8. refs \in Seq(1 .. n) /\ Len(refs) \in Nat /\ \A j \in 1 .. Len(refs) : refs[j] \in X
  <2>1. X \in SUBSET (1 .. n)
    BY <1>3
  <2> QED BY <1>1, <2>1, InOrderIs
<1>9. Len(zeros) \in Nat
  BY <1>1, <1>3, InOrderIs
<1> HIDE DEF zeros, refs
<1>10. Len(syms.ref) = Len(refs) /\ \A j \in 1 .. Len(refs) : syms.ref[j] = src[refs[j]].arg
  <2>1. DOMAIN refs = 1 .. Len(refs)
    BY <1>8
  <2>2. syms.ref = [j \in 1 .. Len(refs) |-> src[refs[j]].arg]
    BY <1>5, <2>1
  <2> QED BY <1>8, <2>2
<1>11. F = [j \in 1 .. Len(refs) |-> [at |-> L[zeros[j]].at, sym |-> syms.ref[j]]]
  <2>1. (IF Len(zeros) < Len(syms.ref) THEN Len(zeros) ELSE Len(syms.ref)) = Len(refs)
    BY <1>7, <1>8, <1>9, <1>10
  <2>2. F = [j \in 1 .. (IF Len(zeros) < Len(syms.ref) THEN Len(zeros) ELSE Len(syms.ref)) |->
               [at |-> L[zeros[j]].at, sym |-> syms.ref[j]]]
    BY <1>4 DEF FixupsOf
  <2> HIDE DEF F
  <2> QED BY <2>1, <2>2
<1> HIDE DEF F
<1>12. Len(F) = Len(refs)
  BY <1>8, <1>11
<1>13. ASSUME NEW j \in 1 .. Len(refs)
       PROVE  /\ refs[j] \in X /\ F[j] \in Entries(Symbols)
              /\ F[j].at = OffsetOf(src, refs[j]) /\ F[j].sym = src[refs[j]].arg
  <2>1. PICK i : i = refs[j]
    OBVIOUS
  <2>2. i \in X /\ i \in 1 .. n /\ zeros[j] = i /\ src[i].arg \in Symbols
    BY <1>6, <1>7, <1>8, <2>1
  <2>3. OffsetOf(src, i) \in Nat
    BY <2>2, Offsets DEF n
  <2>4. F[j] = [at |-> OffsetOf(src, i), sym |-> src[i].arg]
    BY <1>2, <1>10, <1>11, <2>1, <2>2
  <2>5. F[j] \in Entries(Symbols)
    BY <2>2, <2>3, <2>4 DEF Entries
  <2> QED BY <2>1, <2>2, <2>4, <2>5
<1>14. F \in Seq(Entries(Symbols))
  <2>1. F = [j \in 1 .. Len(refs) |-> F[j]]
    BY <1>11
  <2> QED BY <1>8, <1>13, <2>1
<1> QED BY <1>8, <1>12, <1>13, <1>14 DEF F, refs, L, syms, X, n

-----------------------------------------------------------------------------
(* The program link24 is given. *)

Fair(p) ==
  p \in Seq(Seq(Line)) /\ p # <<>> /\ \A i \in 1 .. Len(p) : Assembles(p[i]) /\ Regular(p[i])

Stub(src) == [text |-> PrepText(src), syms |-> Syms(src)]
Listing(src) == Assembled(PrepText(src), 0)
ExportsFor(src) == ExportsOf(Listing(src), Syms(src))
FixupsFor(src) == FixupsOf(Listing(src), Syms(src))
Built(p) ==
  [i \in 1 .. Len(p) |-> [exports |-> ExportsFor(p[i]), fixups |-> FixupsFor(p[i]),
                          bin |-> Linked(PrepText(p[i]), Start(p, i))]]

LEMMA Starts ==
  ASSUME NEW p, Fair(p)
  PROVE  /\ Start(p, 1) = 0
         /\ \A i \in 1 .. Len(p) : Start(p, i) \in Nat /\ SizeOf(p[i]) \in Nat
         /\ \A i \in 1 .. Len(p) - 1 : Start(p, i + 1) = Start(p, i) + SizeOf(p[i])
<1> DEFINE n == Len(p)
           ns == [j \in DOMAIN p |-> SizeOf(p[j])]
<1>1. n \in Nat /\ n > 0 /\ DOMAIN p = 1 .. n /\ \A i \in 1 .. n : p[i] \in Seq(Line)
  BY DEF Fair
<1>2. \A i \in 1 .. n : SizeOf(p[i]) \in Nat
  BY <1>1, Offsets
<1>3. ns \in Seq(Nat) /\ Len(ns) = n /\ \A i \in 1 .. n : ns[i] = SizeOf(p[i])
  <2>1. ns = [j \in 1 .. n |-> SizeOf(p[j])]
    BY <1>1
  <2> HIDE DEF ns, n
  <2> QED BY <1>1, <1>2, <2>1
<1>4. \A i : Start(p, i) = Sums(ns)[i - 1]
  BY DEF Start
<1> HIDE DEF ns, n
<1>5. /\ Sums(ns) \in [0 .. n -> Nat] /\ Sums(ns)[0] = 0
      /\ \A i \in 1 .. n : Sums(ns)[i] = Sums(ns)[i - 1] + ns[i]
  BY <1>3, SumsSteps
<1>6. Start(p, 1) = 0
  <2>1. 1 - 1 = 0
    OBVIOUS
  <2> QED BY <1>4, <1>5, <2>1
<1>7. ASSUME NEW i \in 1 .. n PROVE Start(p, i) \in Nat
  <2>1. i - 1 \in 0 .. n
    BY <1>1
  <2> QED BY <1>4, <1>5, <2>1
<1>8. ASSUME NEW i \in 1 .. n - 1 PROVE Start(p, i + 1) = Start(p, i) + SizeOf(p[i])
  <2>1. i \in 1 .. n /\ i + 1 - 1 = i
    BY <1>1
  <2>2. Start(p, i + 1) = Sums(ns)[i] /\ Start(p, i) = Sums(ns)[i - 1]
    BY <1>4, <2>1
  <2> QED BY <1>3, <1>5, <2>1, <2>2
<1> QED BY <1>2, <1>6, <1>7, <1>8 DEF n

LEMMA BuiltParts ==
  ASSUME NEW p, Fair(p)
  PROVE  /\ Len(p) \in Nat /\ Len(p) > 0 /\ DOMAIN p = 1 .. Len(p)
         /\ Len(Built(p)) = Len(p) /\ Built(p) \in Seq(Modules(Symbols))
         /\ \A i \in 1 .. Len(p) :
              /\ p[i] \in Seq(Line) /\ Assembles(p[i]) /\ Regular(p[i])
              /\ Built(p)[i].exports = ExportsFor(p[i])
              /\ Built(p)[i].fixups = FixupsFor(p[i])
              /\ Built(p)[i].bin = Linked(PrepText(p[i]), Start(p, i))
              /\ Len(Built(p)[i].bin) = SizeOf(p[i])
<1>1. Len(p) \in Nat /\ Len(p) > 0 /\ DOMAIN p = 1 .. Len(p)
      /\ \A i \in 1 .. Len(p) : p[i] \in Seq(Line) /\ Assembles(p[i]) /\ Regular(p[i])
  BY DEF Fair
<1>2. PICK b : b = Built(p)
  OBVIOUS
<1>3. ASSUME NEW i \in 1 .. Len(p)
      PROVE  /\ b[i] \in Modules(Symbols) /\ b[i].exports = ExportsFor(p[i])
             /\ b[i].fixups = FixupsFor(p[i]) /\ b[i].bin = Linked(PrepText(p[i]), Start(p, i))
             /\ Len(b[i].bin) = SizeOf(p[i])
  <2>1. b[i] = [exports |-> ExportsFor(p[i]), fixups |-> FixupsFor(p[i]),
                bin |-> Linked(PrepText(p[i]), Start(p, i))]
    BY <1>2 DEF Built
  <2>2. ExportsFor(p[i]) \in Seq(Entries(Symbols))
    BY <1>1, ExportsAre DEF ExportsFor, Listing
  <2>3. FixupsFor(p[i]) \in Seq(Entries(Symbols))
    BY <1>1, FixupsAre DEF FixupsFor, Listing
  <2>4. Linked(PrepText(p[i]), Start(p, i)) \in Seq(Nat)
        /\ Len(Linked(PrepText(p[i]), Start(p, i))) = SizeOf(p[i])
    <3>1. Start(p, i) \in Nat
      BY Starts
    <3> QED BY <1>1, <3>1, BinaryIs
  <2> QED BY <2>1, <2>2, <2>3, <2>4 DEF Modules
<1>4. Len(b) = Len(p) /\ b \in Seq(Modules(Symbols))
  <2>1. DOMAIN b = 1 .. Len(p) /\ b = [i \in 1 .. Len(p) |-> b[i]]
    BY <1>2 DEF Built
  <2> QED BY <1>1, <1>3, <2>1
<1> QED BY <1>1, <1>2, <1>3, <1>4

(* Every fixup is an instruction of its module, and they are all different. *)
LEMMA BuiltWell ==
  ASSUME NEW p, Fair(p)
  PROVE  WellMade(Built(p))
<1>1. ASSUME NEW i \in 1 .. Len(p), NEW j \in 1 .. Len(FixupsFor(p[i]))
      PROVE  /\ FixupsFor(p[i])[j].at + 4 <= SizeOf(p[i])
             /\ \A l \in 1 .. Len(FixupsFor(p[i])) :
                  j < l => FixupsFor(p[i])[j].at + 4 <= FixupsFor(p[i])[l].at
  <2>1. PICK src : src = p[i]
    OBVIOUS
  <2>2. src \in Seq(Line) /\ Assembles(src) /\ Regular(src)
    BY <2>1, BuiltParts
  <2>3. PICK refs : refs = InOrder(ExternalLines(src), Len(src))
    OBVIOUS
  <2>4. PICK f : f = FixupsFor(src)
    OBVIOUS
  <2>5. /\ Len(f) = Len(refs) /\ Len(f) \in Nat
        /\ \A h \in 1 .. Len(f) : refs[h] \in ExternalLines(src) /\ f[h].at = OffsetOf(src, refs[h])
    BY <2>2, <2>3, <2>4, FixupsAre DEF FixupsFor, Listing
  <2>6. \A x \in ExternalLines(src) : x \in 1 .. Len(src) /\ Size(src[x]) = 4
    <3> TAKE x \in ExternalLines(src)
    <3>1. x \in 1 .. Len(src) /\ src[x].op = "la" /\ src[x] \in Line
      BY <2>2 DEF ExternalLines, External
    <3> QED BY <3>1, LineKinds
  <2>7. \A h, l \in 1 .. Len(refs) : h < l => refs[h] < refs[l]
    <3>1. ExternalLines(src) \in SUBSET (1 .. Len(src)) /\ Len(src) \in Nat
      BY <2>2, <2>6
    <3> QED BY <2>3, <3>1, InOrderIs
  <2>8. f[j].at = OffsetOf(src, refs[j]) /\ refs[j] \in 1 .. Len(src) /\ Size(src[refs[j]]) = 4
    BY <2>1, <2>4, <2>5, <2>6
  <2>9. f[j].at + 4 <= SizeOf(src)
    BY <2>2, <2>8, Offsets
  <2>10. ASSUME NEW l \in 1 .. Len(f), j < l PROVE f[j].at + 4 <= f[l].at
    <3>1. refs[j] < refs[l] /\ refs[l] \in 1 .. Len(src) /\ f[l].at = OffsetOf(src, refs[l])
      BY <2>1, <2>4, <2>5, <2>6, <2>7, <2>10
    <3> QED BY <2>2, <2>8, <3>1, Offsets
  <2> QED BY <2>1, <2>4, <2>9, <2>10
<1>2. FixupsInside(Built(p))
  <2>1. ASSUME NEW i \in 1 .. Len(Built(p)), NEW j \in 1 .. Len(Built(p)[i].fixups)
        PROVE  Built(p)[i].fixups[j].at + 4 <= Len(Built(p)[i].bin)
    <3>1. i \in 1 .. Len(p)
      BY BuiltParts
    <3>2. Built(p)[i].fixups = FixupsFor(p[i]) /\ Len(Built(p)[i].bin) = SizeOf(p[i])
      BY <3>1, BuiltParts
    <3> QED BY <1>1, <3>1, <3>2
  <2> QED BY <2>1 DEF FixupsInside
<1>3. FixupsApart(Built(p))
  <2>1. ASSUME NEW i \in 1 .. Len(Built(p)),
               NEW j \in 1 .. Len(Built(p)[i].fixups), NEW l \in 1 .. Len(Built(p)[i].fixups), j # l
        PROVE  \/ Built(p)[i].fixups[j].at + 4 <= Built(p)[i].fixups[l].at
               \/ Built(p)[i].fixups[l].at + 4 <= Built(p)[i].fixups[j].at
    <3>1. i \in 1 .. Len(p)
      BY BuiltParts
    <3>2. Built(p)[i].fixups = FixupsFor(p[i])
      BY <3>1, BuiltParts
    <3>3. j < l \/ l < j
      BY <2>1
    <3> QED BY <1>1, <3>1, <3>2, <3>3
  <2> QED BY <2>1 DEF FixupsApart
<1> QED BY <1>2, <1>3 DEF WellMade

-----------------------------------------------------------------------------
(* A symbol exported twice or nowhere is one the program gives two         *)
(* meanings or none, and the other way round.                              *)

(* The exports of a module are the shared names it defines.                *)
SharedAt(p, i, E) ==
  /\ \A j \in 1 .. Len(E) :
       /\ E[j].sym \in Underscored /\ i \in Owners(p, E[j].sym)
       /\ E[j].at = OffsetOf(p[i], LabelAt(p[i], E[j].sym))
  /\ \A j, h \in 1 .. Len(E) : E[j].sym = E[h].sym => j = h
  /\ \A s \in Underscored : i \in Owners(p, s) => \E j \in 1 .. Len(E) : E[j].sym = s

LEMMA ExportsShared ==
  ASSUME NEW p, Fair(p), NEW i \in 1 .. Len(p)
  PROVE  SharedAt(p, i, Built(p)[i].exports)
<1>1. /\ p[i] \in Seq(Line) /\ Assembles(p[i]) /\ Regular(p[i]) /\ DOMAIN p = 1 .. Len(p)
      /\ Built(p)[i].exports = ExportsFor(p[i])
  BY BuiltParts
<1>2. \A s : i \in Owners(p, s) <=> s \in Defined(p[i])
  BY <1>1 DEF Owners
<1>3. PICK E : E = ExportsFor(p[i])
  OBVIOUS
<1>4. /\ \A j \in 1 .. Len(E) :
           /\ E[j].sym \in Underscored \cap Defined(p[i])
           /\ E[j].at = OffsetOf(p[i], LabelAt(p[i], E[j].sym))
      /\ \A j, h \in 1 .. Len(E) : E[j].sym = E[h].sym => j = h
      /\ \A s \in Underscored \cap Defined(p[i]) : \E j \in 1 .. Len(E) : E[j].sym = s
  BY <1>1, <1>3, ExportsAre DEF ExportsFor, Listing
<1>5. SharedAt(p, i, E)
  BY <1>2, <1>4 DEF SharedAt
<1> QED BY <1>1, <1>3, <1>5, Zenon

(* The fixups of a module are its references to the others.                *)
RefersAt(src, F) ==
  /\ \A j \in 1 .. Len(F) : \E l \in 1 .. Len(src) :
       External(src[l], Defined(src)) /\ F[j].at = OffsetOf(src, l) /\ F[j].sym = src[l].arg
  /\ \A l \in 1 .. Len(src) : External(src[l], Defined(src)) =>
       \E j \in 1 .. Len(F) : F[j].at = OffsetOf(src, l) /\ F[j].sym = src[l].arg

LEMMA FixupsShared ==
  ASSUME NEW p, Fair(p), NEW i \in 1 .. Len(p)
  PROVE  RefersAt(p[i], Built(p)[i].fixups)
<1>1. PICK src : src = p[i]
  OBVIOUS
<1>2. /\ src \in Seq(Line) /\ Assembles(src) /\ Regular(src)
      /\ Built(p)[i].fixups = FixupsFor(src)
  BY <1>1, BuiltParts
<1>3. PICK refs : refs = InOrder(ExternalLines(src), Len(src))
  OBVIOUS
<1>4. PICK f : f = FixupsFor(src)
  OBVIOUS
<1>5. /\ Len(f) = Len(refs)
      /\ \A j \in 1 .. Len(f) :
           /\ refs[j] \in ExternalLines(src)
           /\ f[j].at = OffsetOf(src, refs[j]) /\ f[j].sym = src[refs[j]].arg
  BY <1>2, <1>3, <1>4, FixupsAre DEF FixupsFor, Listing
<1>6. \A x : x \in ExternalLines(src) <=> x \in 1 .. Len(src) /\ External(src[x], Defined(src))
  BY <1>2 DEF ExternalLines
<1>7. \A x \in ExternalLines(src) : \E j \in 1 .. Len(refs) : refs[j] = x
  <2>1. ExternalLines(src) \in SUBSET (1 .. Len(src)) /\ Len(src) \in Nat
    BY <1>2, <1>6
  <2> QED BY SMTT(60), <1>3, <2>1, InOrderIs
<1>8. ASSUME NEW j \in 1 .. Len(f)
      PROVE  \E l \in 1 .. Len(src) : External(src[l], Defined(src))
                /\ f[j].at = OffsetOf(src, l) /\ f[j].sym = src[l].arg
  BY <1>5, <1>6
<1>9. ASSUME NEW l \in 1 .. Len(src), External(src[l], Defined(src))
      PROVE  \E j \in 1 .. Len(f) : f[j].at = OffsetOf(src, l) /\ f[j].sym = src[l].arg
  <2>1. PICK j \in 1 .. Len(refs) : refs[j] = l
    BY <1>6, <1>7, <1>9
  <2> QED BY <1>5, <2>1
<1>10. RefersAt(src, f)
  BY <1>8, <1>9, Zenon DEF RefersAt
<1> QED BY <1>1, <1>2, <1>4, <1>10, Zenon

(* Both, of all modules.                                                   *)
Shared(p, M) ==
  /\ Len(M) = Len(p) /\ DOMAIN p = 1 .. Len(p)
  /\ \A i \in 1 .. Len(p) : SharedAt(p, i, M[i].exports)
Refers(p, M) == \A i \in 1 .. Len(p) : RefersAt(p[i], M[i].fixups)

LEMMA BuiltShares ==
  ASSUME NEW p, Fair(p)
  PROVE  Shared(p, Built(p)) /\ Refers(p, Built(p))
<1>1. Len(Built(p)) = Len(p) /\ DOMAIN p = 1 .. Len(p)
  BY BuiltParts
<1>2. \A i \in 1 .. Len(p) : SharedAt(p, i, Built(p)[i].exports)
  BY ExportsShared
<1>3. \A i \in 1 .. Len(p) : RefersAt(p[i], Built(p)[i].fixups)
  BY FixupsShared
<1> QED BY <1>1, <1>2, <1>3 DEF Shared, Refers

LEMMA TwiceUnsound ==
  ASSUME NEW p, NEW M, Shared(p, M), Twice(M)
  PROVE  ~Sound(p)
<1>1. PICK i \in 1 .. Len(M), g \in 1 .. Len(M) :
        \E j \in 1 .. Len(M[i].exports) : \E h \in 1 .. Len(M[g].exports) :
          (i # g \/ j # h) /\ M[i].exports[j].sym = M[g].exports[h].sym
  BY DEF Twice
<1>2. PICK j \in 1 .. Len(M[i].exports), h \in 1 .. Len(M[g].exports) :
        (i # g \/ j # h) /\ M[i].exports[j].sym = M[g].exports[h].sym
  BY <1>1
<1>3. PICK s : s = M[i].exports[j].sym
  OBVIOUS
<1>4. i \in 1 .. Len(p) /\ g \in 1 .. Len(p) /\ s = M[g].exports[h].sym
  BY <1>2, <1>3 DEF Shared, SharedAt
<1>5. s \in Underscored /\ i \in Owners(p, s) /\ g \in Owners(p, s)
  <2>1. /\ M[i].exports[j].sym \in Underscored /\ i \in Owners(p, M[i].exports[j].sym)
        /\ g \in Owners(p, M[g].exports[h].sym)
    BY <1>4, Zenon DEF Shared, SharedAt
  <2> QED BY <1>3, <1>4, <2>1, Zenon
<1>6. i # g
  BY <1>2, <1>4 DEF Shared, SharedAt
<1> QED BY <1>5, <1>6 DEF Sound

LEMMA MissingUnsound ==
  ASSUME NEW p, NEW M, Shared(p, M), Refers(p, M), Missing(M), \A i \in DOMAIN p : p[i] \in Seq(Line)
  PROVE  ~Sound(p)
<1>0. PICK i \in 1 .. Len(M) : \E j \in 1 .. Len(M[i].fixups) :
        \A g \in 1 .. Len(M) : \A h \in 1 .. Len(M[g].exports) :
          M[g].exports[h].sym # M[i].fixups[j].sym
  BY DEF Missing
<1>1. PICK j \in 1 .. Len(M[i].fixups) :
        \A g \in 1 .. Len(M) : \A h \in 1 .. Len(M[g].exports) :
          M[g].exports[h].sym # M[i].fixups[j].sym
  BY <1>0
<1>2. PICK l \in 1 .. Len(p[i]) :
        External(p[i][l], Defined(p[i])) /\ M[i].fixups[j].sym = p[i][l].arg
  BY DEF Shared, Refers, RefersAt
<1>3. PICK s : s = p[i][l].arg
  OBVIOUS
<1>4. s \in Underscored /\ p[i][l].op = "la" /\ s = M[i].fixups[j].sym
  BY <1>2, <1>3 DEF External
<1>5. ASSUME NEW g \in Owners(p, s) PROVE FALSE
  <2>1. g \in 1 .. Len(p) /\ g \in 1 .. Len(M)
    BY DEF Owners, Shared
  <2>2. \A t \in Underscored : g \in Owners(p, t) =>
          \E h \in 1 .. Len(M[g].exports) : M[g].exports[h].sym = t
    BY <2>1, Zenon DEF Shared, SharedAt
  <2>3. PICK h \in 1 .. Len(M[g].exports) : M[g].exports[h].sym = s
    BY <1>4, <2>2, Zenon
  <2> QED BY <1>1, <1>4, <2>1, <2>3
<1>6. i \in DOMAIN p /\ l \in DOMAIN p[i]
  BY DEF Shared, SharedAt
<1>7. Owners(p, p[i][l].arg) = {}
  BY <1>3, <1>5
<1> HIDE DEF Owners
<1> QED BY <1>3, <1>4, <1>6, <1>7, Zenon DEF Sound

LEMMA OtherwiseSound ==
  ASSUME NEW p, NEW M, Shared(p, M), Refers(p, M), ~Twice(M), ~Missing(M),
         \A i \in DOMAIN p : p[i] \in Seq(Line) /\ Assembles(p[i])
  PROVE  Sound(p)
<1>1. Len(M) = Len(p) /\ DOMAIN p = 1 .. Len(p)
  BY DEF Shared, SharedAt
<1>2. ASSUME NEW i \in DOMAIN p, NEW l \in DOMAIN p[i], p[i][l].op = "la"
      PROVE  Owners(p, p[i][l].arg) # {}
  <2>1. i \in 1 .. Len(p) /\ l \in 1 .. Len(p[i])
    BY <1>1
  <2>2. PICK s : s = p[i][l].arg
    OBVIOUS
  <2>3. CASE s \in Defined(p[i])
    BY <2>2, <2>3 DEF Owners
  <2>4. CASE s \notin Defined(p[i])
    <3>1. External(p[i][l], Defined(p[i]))
      <4>1. s \in Underscored \cup Defined(p[i])
        BY <1>1, <1>2, <2>1, <2>2 DEF Assembles
      <4> QED BY <1>2, <2>2, <2>4, <4>1 DEF External
    <3>2. PICK j \in 1 .. Len(M[i].fixups) : M[i].fixups[j].sym = s
      BY <2>1, <2>2, <3>1 DEF Refers, RefersAt
    <3>3. PICK g \in 1 .. Len(M) : \E h \in 1 .. Len(M[g].exports) :
            M[g].exports[h].sym = M[i].fixups[j].sym
      BY <1>1, <2>1 DEF Missing
    <3>4. g \in Owners(p, s)
      BY <1>1, <3>2, <3>3 DEF Shared, SharedAt
    <3> QED BY <2>2, <3>4
  <2> QED BY <2>3, <2>4
<1>3. ASSUME NEW s \in Underscored, NEW i \in Owners(p, s), NEW g \in Owners(p, s)
      PROVE  i = g
  <2>1. i \in 1 .. Len(p) /\ g \in 1 .. Len(p)
    BY <1>1 DEF Owners
  <2>2. PICK j \in 1 .. Len(M[i].exports) : M[i].exports[j].sym = s
    BY <2>1 DEF Shared, SharedAt
  <2>3. PICK h \in 1 .. Len(M[g].exports) : M[g].exports[h].sym = s
    BY <2>1 DEF Shared, SharedAt
  <2> QED BY <1>1, <2>1, <2>2, <2>3 DEF Twice
<1> QED BY <1>2, <1>3 DEF Sound

-----------------------------------------------------------------------------
(* The program that is meant, byte by byte.                                *)

LEMMA OwnAddress ==
  ASSUME NEW p, Fair(p), NEW i \in 1 .. Len(p), NEW s \in Defined(p[i])
  PROVE  /\ FinalAddress(p, i, s) = Start(p, i) + OffsetOf(p[i], LabelAt(p[i], s))
         /\ FinalAddress(p, i, s) \in Nat
<1>1. OwnerOf(p, i, s) = i
  BY DEF OwnerOf
<1>2. FinalAddress(p, i, s) = Start(p, i) + OffsetOf(p[i], LabelAt(p[i], s))
  BY <1>1, Zenon DEF FinalAddress
<1>3. p[i] \in Seq(Line) /\ Assembles(p[i])
  BY BuiltParts
<1>4. PICK src : src = p[i]
  OBVIOUS
<1>5. PICK h \in 1 .. Len(src) : LabelAt(src, s) = h
  BY <1>3, <1>4, LabelsStand
<1>6. OffsetOf(src, h) \in Nat
  BY <1>3, <1>4, Offsets
<1>7. Start(p, i) \in Nat
  BY Starts
<1>8. PICK b : b = Start(p, i)
  OBVIOUS
<1>9. FinalAddress(p, i, s) = b + OffsetOf(src, h)
  BY <1>2, <1>4, <1>5, <1>8, Zenon
<1> QED BY <1>2, <1>6, <1>7, <1>8, <1>9

(* A shared name has one owner, whoever looks for it.                      *)
LEMMA SharedAddress ==
  ASSUME NEW p, Fair(p), Sound(p), NEW i \in 1 .. Len(p), NEW s \in Underscored,
         NEW g \in Owners(p, s)
  PROVE  /\ FinalAddress(p, i, s) = Start(p, g) + OffsetOf(p[g], LabelAt(p[g], s))
         /\ FinalAddress(p, i, s) \in Nat
<1>1. DOMAIN p = 1 .. Len(p)
  BY BuiltParts
<1>2. g \in 1 .. Len(p) /\ s \in Defined(p[g])
  BY <1>1 DEF Owners
<1>3. OwnerOf(p, i, s) = g
  <2>1. \A h \in Owners(p, s) : h = g
    BY DEF Sound
  <2>2. CASE s \in Defined(p[i])
    <3>1. i \in Owners(p, s)
      BY <1>1, <2>2 DEF Owners
    <3> QED BY <2>1, <2>2, <3>1 DEF OwnerOf
  <2>3. CASE s \notin Defined(p[i])
    <3>1. (CHOOSE j \in Owners(p, s) : TRUE) \in Owners(p, s)
      BY Zenon
    <3>2. OwnerOf(p, i, s) = CHOOSE j \in Owners(p, s) : TRUE
      BY <2>3, Zenon DEF OwnerOf
    <3> HIDE DEF Owners
    <3> QED BY <2>1, <3>1, <3>2, Zenon
  <2> QED BY <2>2, <2>3
<1>4. FinalAddress(p, i, s) = FinalAddress(p, g, s)
  <2>1. OwnerOf(p, g, s) = g
    BY <1>2 DEF OwnerOf
  <2> QED BY <1>3, <2>1, Zenon DEF FinalAddress
<1> QED BY <1>2, <1>4, OwnAddress

LEMMA MeantParts ==
  ASSUME NEW p, Fair(p), Sound(p), NEW i \in 1 .. Len(p), NEW l \in 1 .. Len(p[i])
  PROVE  /\ p[i][l] \in Line
         /\ MeantBytes(p, i, p[i][l]) \in Seq(Nat)
         /\ Len(MeantBytes(p, i, p[i][l])) = Size(p[i][l])
         /\ p[i][l].op = "la" => FinalAddress(p, i, p[i][l].arg) \in Nat
<1>1. p[i] \in Seq(Line) /\ Assembles(p[i]) /\ DOMAIN p = 1 .. Len(p)
  BY BuiltParts
<1>2. PICK line : line = p[i][l]
  OBVIOUS
<1>3. line \in Line
  BY <1>1, <1>2
<1>4. line.op = "la" => FinalAddress(p, i, line.arg) \in Nat
  <2> SUFFICES ASSUME line.op = "la" PROVE FinalAddress(p, i, line.arg) \in Nat
    OBVIOUS
  <2>1. CASE line.arg \in Defined(p[i])
    BY <2>1, OwnAddress
  <2>2. CASE line.arg \notin Defined(p[i])
    <3>1. line.arg \in Underscored
      <4>1. l \in DOMAIN p[i]
        BY <1>1
      <4>2. line.arg \in Underscored \cup Defined(p[i])
        BY <1>1, <1>2, <4>1 DEF Assembles
      <4> QED BY <2>2, <4>2
    <3>2. i \in DOMAIN p /\ l \in DOMAIN p[i]
      BY <1>1
    <3>3. PICK g : g \in Owners(p, line.arg)
      <4> HIDE DEF Owners
      <4>1. Owners(p, line.arg) # {}
        BY <1>2, <3>2, Zenon DEF Sound
      <4> QED BY <4>1
    <3> QED BY <3>1, <3>3, SharedAddress
  <2> QED BY <2>1, <2>2
<1>5. PICK a : a = CASE line.op = "la" -> FinalAddress(p, i, line.arg)
                     [] line.op = "num" -> line.arg
                     [] OTHER -> 0
  OBVIOUS
<1>6. a \in Nat
  BY <1>3, <1>4, <1>5, LineKinds
<1>7. MeantBytes(p, i, line) = Bytes(line, a)
  BY <1>5, Zenon DEF MeantBytes
<1>8. Bytes(line, a) \in Seq(Nat) /\ Len(Bytes(line, a)) = Size(line)
  BY <1>3, <1>6, BytesAre
<1> QED BY <1>2, <1>3, <1>4, <1>7, <1>8

LEMMA ModuleBytes ==
  ASSUME NEW p, Fair(p), Sound(p), NEW i \in 1 .. Len(p)
  PROVE  /\ ModuleImage(p, i) \in Seq(Nat) /\ Len(ModuleImage(p, i)) = SizeOf(p[i])
         /\ \A l \in 1 .. Len(p[i]) : \A d \in 1 .. Size(p[i][l]) :
              ModuleImage(p, i)[OffsetOf(p[i], l) + d] = MeantBytes(p, i, p[i][l])[d]
<1> DEFINE src == p[i]
           parts == [l \in DOMAIN src |-> MeantBytes(p, i, src[l])]
           n == Len(src)
           ns == Sizes(src)
<1>1. src \in Seq(Line) /\ n \in Nat /\ DOMAIN src = 1 .. n
  BY BuiltParts
<1>2. ns \in Seq(Nat) /\ Len(ns) = n /\ \A l \in 1 .. n : ns[l] = Size(src[l])
  BY <1>1, Prepared
<1>3. ModuleImage(p, i) = Joined(parts)
  BY DEF ModuleImage
<1>4. \A l \in 1 .. n : MeantBytes(p, i, src[l]) \in Seq(Nat) /\ Len(MeantBytes(p, i, src[l])) = Size(src[l])
  BY MeantParts
<1>5. SizeOf(src) = Sums(ns)[n] /\ \A l : OffsetOf(src, l) = Sums(ns)[l - 1]
  BY DEF SizeOf, OffsetOf
<1>6. parts \in Seq(Seq(Nat)) /\ Len(parts) = n /\ \A l \in 1 .. n : parts[l] = MeantBytes(p, i, src[l])
  <2>1. parts = [l \in 1 .. n |-> MeantBytes(p, i, src[l])]
    BY <1>1
  <2> HIDE DEF parts, n, src
  <2> QED BY <1>1, <1>4, <2>1
<1> HIDE DEF parts, ns, n
<1>7. \A l \in 1 .. Len(ns) : Len(parts[l]) = ns[l]
  BY <1>2, <1>4, <1>6
<1>8. /\ Joined(parts) \in Seq(Nat) /\ Len(Joined(parts)) = Sums(ns)[Len(ns)]
      /\ \A l \in 1 .. Len(ns) : \A d \in 1 .. ns[l] :
           Joined(parts)[Sums(ns)[l - 1] + d] = parts[l][d]
  <2>1. parts \in Seq(Seq(Nat)) /\ ns \in Seq(Nat) /\ Len(ns) = Len(parts)
    BY <1>2, <1>6
  <2> QED BY <2>1, <1>7, JoinedParts, ZenonT(60)
<1>9. PICK J : J = Joined(parts)
  OBVIOUS
<1>10. ASSUME NEW l \in 1 .. n, NEW d \in 1 .. Size(src[l])
       PROVE  J[OffsetOf(src, l) + d] = MeantBytes(p, i, src[l])[d]
  <2>1. d \in 1 .. ns[l]
    BY <1>2
  <2>2. J[Sums(ns)[l - 1] + d] = parts[l][d]
    BY <1>2, <1>8, <1>9, <2>1
  <2> QED BY <1>5, <1>6, <2>2
<1>11. J \in Seq(Nat) /\ Len(J) = SizeOf(src)
  BY <1>2, <1>5, <1>8, <1>9
<1>12. ModuleImage(p, i) = J
  BY <1>3, <1>9
<1> QED BY <1>10, <1>11, <1>12 DEF n

Total(p) == Sums([j \in DOMAIN p |-> SizeOf(p[j])])[Len(p)]

LEMMA ImageParts ==
  ASSUME NEW p, Fair(p), Sound(p)
  PROVE  /\ Image(p) \in Seq(Nat) /\ Len(Image(p)) = Total(p) /\ Total(p) \in Nat
         /\ Total(p) = Start(p, Len(p)) + SizeOf(p[Len(p)])
         /\ \A i \in 1 .. Len(p) : \A d \in 1 .. SizeOf(p[i]) :
              Image(p)[Start(p, i) + d] = ModuleImage(p, i)[d]
         /\ \A q \in 1 .. Total(p) : \E i \in 1 .. Len(p) : \E d \in 1 .. SizeOf(p[i]) :
              q = Start(p, i) + d
<1> DEFINE parts == [i \in DOMAIN p |-> ModuleImage(p, i)]
           n == Len(p)
           ns == [j \in DOMAIN p |-> SizeOf(p[j])]
<1>1. n \in Nat /\ DOMAIN p = 1 .. n /\ n > 0
  BY BuiltParts
<1>2. ns \in Seq(Nat) /\ Len(ns) = n /\ \A i \in 1 .. n : ns[i] = SizeOf(p[i])
  <2>1. \A i \in 1 .. n : SizeOf(p[i]) \in Nat
    BY Starts
  <2>2. ns = [j \in 1 .. n |-> SizeOf(p[j])]
    BY <1>1
  <2> HIDE DEF ns, n
  <2> QED BY <1>1, <2>1, <2>2
<1>3. Image(p) = Joined(parts)
  BY DEF Image
<1>4. \A i \in 1 .. n : ModuleImage(p, i) \in Seq(Nat) /\ Len(ModuleImage(p, i)) = SizeOf(p[i])
  BY ModuleBytes
<1>5. Total(p) = Sums(ns)[n] /\ \A i : Start(p, i) = Sums(ns)[i - 1]
  BY DEF Total, Start
<1>6. parts \in Seq(Seq(Nat)) /\ Len(parts) = n /\ \A i \in 1 .. n : parts[i] = ModuleImage(p, i)
  <2>1. parts = [i \in 1 .. n |-> ModuleImage(p, i)]
    BY <1>1
  <2> HIDE DEF parts, n
  <2> QED BY <1>1, <1>4, <2>1
<1> HIDE DEF parts, ns, n
<1>7. \A i \in 1 .. Len(ns) : Len(parts[i]) = ns[i]
  BY <1>2, <1>4, <1>6
<1>8. /\ Joined(parts) \in Seq(Nat) /\ Len(Joined(parts)) = Sums(ns)[Len(ns)]
      /\ \A i \in 1 .. Len(ns) : \A d \in 1 .. ns[i] :
           Joined(parts)[Sums(ns)[i - 1] + d] = parts[i][d]
  <2>1. parts \in Seq(Seq(Nat)) /\ ns \in Seq(Nat) /\ Len(ns) = Len(parts)
    BY <1>2, <1>6
  <2> QED BY <2>1, <1>7, JoinedParts, ZenonT(60)
<1>9. PICK J : J = Joined(parts)
  OBVIOUS
<1>10. ASSUME NEW i \in 1 .. n, NEW d \in 1 .. SizeOf(p[i])
       PROVE  J[Start(p, i) + d] = ModuleImage(p, i)[d]
  <2>1. d \in 1 .. ns[i]
    BY <1>2
  <2>2. J[Sums(ns)[i - 1] + d] = parts[i][d]
    BY <1>2, <1>8, <1>9, <2>1
  <2> QED BY <1>5, <1>6, <2>2
<1>11. J \in Seq(Nat) /\ Len(J) = Total(p)
  BY <1>2, <1>5, <1>8, <1>9
<1>12. Sums(ns) \in [0 .. n -> Nat] /\ \A i \in 1 .. n : Sums(ns)[i] = Sums(ns)[i - 1] + ns[i]
  BY <1>2, SumsSteps
<1>13. Total(p) \in Nat /\ Total(p) = Start(p, n) + SizeOf(p[n])
  <2>1. n \in 1 .. n /\ n \in 0 .. n
    BY <1>1
  <2> QED BY <1>2, <1>5, <1>12, <2>1
<1>14. ASSUME NEW q \in 1 .. Total(p)
       PROVE  \E i \in 1 .. n : \E d \in 1 .. SizeOf(p[i]) : q = Start(p, i) + d
  <2>1. q \in 1 .. Sums(ns)[Len(ns)]
    BY <1>2, <1>5
  <2>2. PICK i \in 1 .. Len(ns) : \E d \in 1 .. ns[i] : q = Sums(ns)[i - 1] + d
    BY <1>2, <2>1, PartOf
  <2>3. PICK d \in 1 .. ns[i] : q = Sums(ns)[i - 1] + d
    BY <2>2
  <2>4. i \in 1 .. n /\ d \in 1 .. SizeOf(p[i])
    BY <1>2
  <2>5. q = Start(p, i) + d
    BY <1>5, <2>3
  <2> QED BY <2>4, <2>5
<1>15. Image(p) = J
  BY <1>3, <1>9
<1> QED BY <1>10, <1>11, <1>13, <1>14, <1>15 DEF n

LEMMA LineOf ==
  ASSUME NEW src \in Seq(Line), NEW q \in 1 .. SizeOf(src)
  PROVE  \E l \in 1 .. Len(src) : \E d \in 1 .. Size(src[l]) : q = OffsetOf(src, l) + d
<1> DEFINE n == Len(src)
           ns == Sizes(src)
<1>1. ns \in Seq(Nat) /\ Len(ns) = n /\ \A l \in 1 .. n : ns[l] = Size(src[l])
  BY Prepared
<1>2. SizeOf(src) = Sums(ns)[n] /\ \A l : OffsetOf(src, l) = Sums(ns)[l - 1]
  BY DEF SizeOf, OffsetOf
<1> HIDE DEF ns, n
<1>3. q \in 1 .. Sums(ns)[Len(ns)]
  BY <1>1, <1>2
<1>4. PICK l \in 1 .. Len(ns) : \E d \in 1 .. ns[l] : q = Sums(ns)[l - 1] + d
  BY <1>1, <1>3, PartOf
<1>5. PICK d \in 1 .. ns[l] : q = Sums(ns)[l - 1] + d
  BY <1>4
<1>6. l \in 1 .. n /\ d \in 1 .. Size(src[l])
  BY <1>1
<1>7. q = OffsetOf(src, l) + d
  BY <1>2, <1>5
<1> QED BY <1>6, <1>7 DEF n

(* Every byte of the image is a byte of a line.                            *)
LEMMA ImageByte ==
  ASSUME NEW p, Fair(p), Sound(p), NEW q \in 1 .. Total(p)
  PROVE  \E i \in 1 .. Len(p) : \E l \in 1 .. Len(p[i]) : \E d \in 1 .. Size(p[i][l]) :
           /\ q = Start(p, i) + (OffsetOf(p[i], l) + d)
           /\ Image(p)[q] = MeantBytes(p, i, p[i][l])[d]
<1>1. PICK i \in 1 .. Len(p) : \E e \in 1 .. SizeOf(p[i]) : q = Start(p, i) + e
  BY ImageParts
<1>2. PICK e \in 1 .. SizeOf(p[i]) : q = Start(p, i) + e
  BY <1>1
<1>3. p[i] \in Seq(Line)
  BY BuiltParts
<1>4. PICK src : src = p[i]
  OBVIOUS
<1>5. PICK l \in 1 .. Len(src) : \E d \in 1 .. Size(src[l]) : e = OffsetOf(src, l) + d
  BY <1>3, <1>4, LineOf
<1>6. PICK d \in 1 .. Size(src[l]) : e = OffsetOf(src, l) + d
  BY <1>5
<1>7. l \in 1 .. Len(p[i]) /\ d \in 1 .. Size(p[i][l])
  BY <1>4
<1>8. Image(p)[Start(p, i) + e] = ModuleImage(p, i)[e]
  BY ImageParts
<1>9. ModuleImage(p, i)[OffsetOf(p[i], l) + d] = MeantBytes(p, i, p[i][l])[d]
  BY <1>7, ModuleBytes
<1>10. Image(p)[q] = MeantBytes(p, i, p[i][l])[d]
  BY <1>2, <1>4, <1>6, <1>8, <1>9, Zenon
<1>11. q = Start(p, i) + (OffsetOf(p[i], l) + d)
  BY <1>2, <1>4, <1>6
<1> QED BY <1>7, <1>10, <1>11

(* link24 places the modules where the script has assembled them.          *)
LEMMA BasesAre ==
  ASSUME NEW p, Fair(p), LinkInv(Symbols), pc = "done", mods = Built(p)
  PROVE  /\ addr = Total(p) /\ Len(base) = Len(p)
         /\ \A i \in 1 .. Len(p) : base[i] = Start(p, i)
<1>1. /\ Packed /\ Len(base) = Len(mods) /\ base \in Seq(Nat)
  BY DEF LinkInv, IInv, Typed, InSequence, Placed
<1>2. /\ Len(mods) = Len(p) /\ Len(p) \in Nat /\ Len(p) > 0
      /\ \A i \in 1 .. Len(p) : Len(mods[i].bin) = SizeOf(p[i])
  BY BuiltParts
<1>3. PICK n : n = Len(p)
  OBVIOUS
<1>4. /\ base[1] = 0 /\ addr = base[n] + SizeOf(p[n])
      /\ \A i \in 1 .. n - 1 : base[i + 1] = base[i] + SizeOf(p[i])
  <2>1. n \in 1 .. n /\ \A i \in 1 .. n - 1 : i \in 1 .. n
    BY <1>2, <1>3
  <2>2. /\ base[1] = 0 /\ addr = base[n] + Len(mods[n].bin)
        /\ \A i \in 1 .. n - 1 : base[i + 1] = base[i] + Len(mods[i].bin)
    BY <1>1, <1>2, <1>3 DEF Packed
  <2> QED BY <1>2, <1>3, <2>1, <2>2
<1>5. /\ Start(p, 1) = 0
      /\ \A i \in 1 .. n - 1 : Start(p, i + 1) = Start(p, i) + SizeOf(p[i])
  BY <1>3, Starts
<1> DEFINE T == {i \in 0 .. n - 1 : base[i + 1] = Start(p, i + 1)}
<1>6. 0 \in T
  BY <1>2, <1>3, <1>4, <1>5
<1>7. ASSUME NEW i \in 0 .. n - 1 - 1, i \in T PROVE i + 1 \in T
  <2>1. PICK h : h = i + 1
    OBVIOUS
  <2>2. h \in 1 .. n - 1 /\ h \in 0 .. n - 1
    BY <1>2, <1>3, <2>1
  <2>3. base[h] = Start(p, h)
    BY <1>7, <2>1
  <2>4. base[h + 1] = Start(p, h + 1)
    BY <1>4, <1>5, <2>2, <2>3
  <2>5. h \in T
    BY <2>2, <2>4
  <2> QED BY <2>1, <2>5
<1>8. \A i \in 0 .. n - 1 : i \in T
  <2>1. n - 1 \in Nat
    BY <1>2, <1>3
  <2> HIDE DEF T
  <2> QED BY <1>6, <1>7, <2>1, UpTo
<1>9. ASSUME NEW i \in 1 .. n PROVE base[i] = Start(p, i)
  <2>1. PICK h : h = i - 1
    OBVIOUS
  <2>2. h \in 0 .. n - 1 /\ h + 1 = i
    BY <1>2, <1>3, <2>1
  <2>3. base[h + 1] = Start(p, h + 1)
    BY <1>8, <2>2
  <2> QED BY <2>2, <2>3
<1>10. addr = Total(p)
  <2>1. Total(p) = Start(p, n) + SizeOf(p[n])
    <3> DEFINE ns == [j \in DOMAIN p |-> SizeOf(p[j])]
    <3>1. ns \in Seq(Nat) /\ Len(ns) = n /\ ns[n] = SizeOf(p[n])
      <4>1. \A i \in 1 .. n : SizeOf(p[i]) \in Nat
        BY <1>3, Starts
      <4>2. ns = [j \in 1 .. n |-> SizeOf(p[j])] /\ n \in 1 .. n /\ n \in Nat
        BY <1>2, <1>3, BuiltParts
      <4> HIDE DEF ns
      <4> QED BY <4>1, <4>2
    <3>2. Total(p) = Sums(ns)[n] /\ Start(p, n) = Sums(ns)[n - 1]
      BY <1>3 DEF Total, Start
    <3> HIDE DEF ns
    <3>3. n \in 1 .. n
      BY <1>2, <1>3
    <3> QED BY <3>1, <3>2, <3>3, SumsSteps
  <2>2. base[n] = Start(p, n)
    BY <1>2, <1>3, <1>9
  <2> QED BY <1>4, <2>1, <2>2
<1> QED BY <1>1, <1>2, <1>3, <1>9, <1>10

(* No fixup names a byte of a line, but the address of a reference.        *)
LEMMA NotPatched ==
  ASSUME NEW src \in Seq(Line), NEW md, RefersAt(src, md.fixups), NEW l \in 1 .. Len(src),
         NEW d \in 1 .. Size(src[l]), External(src[l], Defined(src)) => d = 1
  PROVE  OffsetOf(src, l) + d - 1 \notin Patched(md)
<1> SUFFICES ASSUME OffsetOf(src, l) + d - 1 \in Patched(md) PROVE FALSE
  OBVIOUS
<1>1. PICK j \in 1 .. Len(md.fixups), n \in 1 .. 3 : OffsetOf(src, l) + d - 1 = md.fixups[j].at + n
  BY DEF Patched
<1>2. PICK x \in 1 .. Len(src) : External(src[x], Defined(src)) /\ md.fixups[j].at = OffsetOf(src, x)
  BY DEF RefersAt
<1>3. Size(src[x]) = 4
  <2>1. src[x] \in Line /\ src[x].op = "la"
    BY <1>2 DEF External
  <2> QED BY <2>1, LineKinds
<1>4. PICK o : o = OffsetOf(src, l)
  OBVIOUS
<1>5. PICK u : u = OffsetOf(src, x)
  OBVIOUS
<1>6. PICK s : s = Size(src[l])
  OBVIOUS
<1>7. o \in Nat /\ u \in Nat /\ s \in Nat
  <2>1. src[l] \in Line
    OBVIOUS
  <2> QED BY <1>4, <1>5, <1>6, <2>1, Offsets, LineKinds
<1>8. /\ x < l => u + 4 <= o
      /\ l < x => o + s <= u
  <2>1. x < l => u + Size(src[x]) <= o
    BY <1>4, <1>5, Offsets
  <2>2. l < x => o + s <= u
    BY <1>4, <1>5, <1>6, Offsets
  <2> QED BY <1>3, <2>1, <2>2
<1>9. o + d - 1 = u + n /\ d \in 1 .. s
  BY <1>1, <1>2, <1>4, <1>5, <1>6
<1>10. CASE x = l
  <2>1. d = 1 /\ o = u
    BY <1>2, <1>4, <1>5, <1>10
  <2> QED BY <1>7, <1>9, <2>1
<1>11. CASE x < l
  BY <1>7, <1>8, <1>9, <1>11
<1>12. CASE l < x
  BY <1>7, <1>8, <1>9, <1>12
<1>13. x = l \/ x < l \/ l < x
  <2>1. x \in Int /\ l \in Int
    OBVIOUS
  <2> QED BY <2>1
<1> QED BY <1>10, <1>11, <1>12, <1>13

(* What prep does not touch is assembled as it is meant.                   *)
LEMMA OwnMeant ==
  ASSUME NEW p, Fair(p), NEW i \in 1 .. Len(p), NEW l \in 1 .. Len(p[i]),
         ~External(p[i][l], Defined(p[i]))
  PROVE  MeantBytes(p, i, p[i][l]) =
         Bytes(PrepText(p[i])[l], AddressAt(p[i], Start(p, i), l))
<1>1. p[i] \in Seq(Line) /\ Assembles(p[i])
  BY BuiltParts
<1>2. PICK src : src = p[i]
  OBVIOUS
<1>3. PICK line : line = src[l]
  OBVIOUS
<1>4. line \in Line /\ PrepText(src)[l] = line
  BY <1>1, <1>2, <1>3, PrepKinds
<1>5. PICK a : a = CASE line.op = "la" -> FinalAddress(p, i, line.arg)
                     [] line.op = "num" -> line.arg
                     [] OTHER -> 0
  OBVIOUS
<1>6. MeantBytes(p, i, line) = Bytes(line, a)
  BY <1>5, Zenon DEF MeantBytes
<1>7. PICK b : b = AddressAt(src, Start(p, i), l)
  OBVIOUS
<1>8. b = IF line.op = "la" THEN Start(p, i) + OffsetOf(src, LabelAt(src, line.arg))
          ELSE IF line.op = "num" THEN line.arg ELSE 0
  BY <1>2, <1>3, <1>7, Zenon DEF AddressAt
<1>9. CASE line.op = "la"
  <2>1. line.arg \in Defined(src)
    <3>1. l \in DOMAIN src
      BY <1>1, <1>2
    <3>2. line.arg \in Underscored \cup Defined(src)
      BY <1>1, <1>2, <1>3, <1>9, <3>1 DEF Assembles
    <3> QED BY <1>2, <1>3, <1>9, <3>2 DEF External
  <2>2. FinalAddress(p, i, line.arg) = Start(p, i) + OffsetOf(src, LabelAt(src, line.arg))
    BY <1>2, <2>1, OwnAddress
  <2>3. a = b
    BY <1>5, <1>8, <1>9, <2>2
  <2> QED BY <1>2, <1>3, <1>4, <1>6, <1>7, <2>3
<1>10. CASE line.op # "la"
  <2>1. a = b
    BY <1>5, <1>8, <1>10
  <2> QED BY <1>2, <1>3, <1>4, <1>6, <1>7, <2>1
<1> QED BY <1>9, <1>10

LEMMA LinkedSound ==
  ASSUME NEW p, Fair(p), LinkInv(Symbols), pc = "done", mods = Built(p)
  PROVE  Sound(p)
<1>1. ~Twice(mods) /\ ~Missing(mods)
  BY EndsWell DEF LinkedWell
<1>2. Shared(p, mods) /\ Refers(p, mods)
  <2>1. Shared(p, Built(p)) /\ Refers(p, Built(p))
    BY BuiltShares
  <2> QED BY <2>1, Zenon
<1>3. \A i \in DOMAIN p : p[i] \in Seq(Line) /\ Assembles(p[i])
  BY BuiltParts
<1> QED BY <1>1, <1>2, <1>3, OtherwiseSound

LEMMA OwnByte ==
  ASSUME NEW p, Fair(p), LinkInv(Symbols), pc = "done", mods = Built(p),
         NEW i \in 1 .. Len(p), NEW l \in 1 .. Len(p[i]), NEW d \in 1 .. Size(p[i][l]),
         External(p[i][l], Defined(p[i])) => d = 1
  PROVE  output[Start(p, i) + (OffsetOf(p[i], l) + d) - 1] =
         Bytes(PrepText(p[i])[l], AddressAt(p[i], Start(p, i), l))[d]
<1>1. PICK src : src = p[i]
  OBVIOUS
<1>2. PICK start : start = Start(p, i)
  OBVIOUS
<1>3. src \in Seq(Line) /\ Assembles(src) /\ start \in Nat
  BY <1>1, <1>2, BuiltParts, Starts
<1>4. PICK md : md = mods[i]
  OBVIOUS
<1>5. i \in 1 .. Len(mods) /\ md.bin = Linked(PrepText(src), start) /\ Len(md.bin) = SizeOf(src)
  <2>1. Built(p)[i].bin = Linked(PrepText(p[i]), Start(p, i))
        /\ Len(Built(p)[i].bin) = SizeOf(p[i]) /\ Len(Built(p)) = Len(p)
    BY BuiltParts
  <2> QED BY <1>1, <1>2, <1>4, <2>1, Zenon
<1>6. RefersAt(src, md.fixups)
  <2>1. RefersAt(p[i], Built(p)[i].fixups)
    BY FixupsShared
  <2> QED BY <1>1, <1>4, <2>1, Zenon
<1>7. PICK o : o = OffsetOf(src, l)
  OBVIOUS
<1>8. o \in Nat /\ l \in 1 .. Len(src) /\ d \in 1 .. Size(src[l]) /\ Size(src[l]) \in Nat
      /\ o + Size(src[l]) <= SizeOf(src) /\ SizeOf(src) \in Nat
  <2>1. l \in 1 .. Len(src) /\ d \in 1 .. Size(src[l])
    BY <1>1
  <2>2. src[l] \in Line
    BY <1>3, <2>1
  <2> QED BY <1>3, <1>7, <2>1, <2>2, Offsets, LineKinds
<1>9. PICK a : a = o + d - 1
  OBVIOUS
<1>10. a \in 0 .. Len(md.bin) - 1 /\ a + 1 = o + d /\ start + a = start + (o + d) - 1
  BY <1>3, <1>5, <1>8, <1>9
<1>11. a \notin Patched(md)
  <2>1. OffsetOf(src, l) + d - 1 \notin Patched(md)
    BY <1>1, <1>3, <1>6, <1>8, NotPatched
  <2> QED BY <1>7, <1>9, <2>1
<1>12. output[start + a] = md.bin[a + 1]
  <2>1. output[base[i] + a] = mods[i].bin[a + 1]
    BY <1>4, <1>5, <1>10, <1>11 DEF LinkInv, CopiedSoFar, Filled
  <2>2. base[i] = start
    BY <1>2, BasesAre
  <2> QED BY <1>4, <2>1, <2>2
<1>13. md.bin[o + d] = Bytes(PrepText(src)[l], AddressAt(src, start, l))[d]
  <2>1. Linked(PrepText(src), start)[OffsetOf(src, l) + d] =
        Bytes(PrepText(src)[l], AddressAt(src, start, l))[d]
    BY <1>3, <1>8, BinaryIs
  <2> QED BY <1>5, <1>7, <2>1, Zenon
<1>14. output[start + (o + d) - 1] = Bytes(PrepText(src)[l], AddressAt(src, start, l))[d]
  BY <1>10, <1>12, <1>13
<1> QED BY <1>1, <1>2, <1>7, <1>14, Zenon

(* The three bytes of a reference hold what link24 has put there.          *)
LEMMA AddressByte ==
  ASSUME NEW p, Fair(p), LinkInv(Symbols), pc = "done", mods = Built(p),
         NEW i \in 1 .. Len(p), NEW l \in 1 .. Len(p[i]),
         External(p[i][l], Defined(p[i])), NEW n \in 0 .. 2
  PROVE  output[Start(p, i) + OffsetOf(p[i], l) + 1 + n] =
         Digit(FinalAddress(p, i, p[i][l].arg), n)
<1>2. PICK s : s = p[i][l].arg
  OBVIOUS
<1>3. Shared(p, mods) /\ Refers(p, mods)
  <2>1. Shared(p, Built(p)) /\ Refers(p, Built(p))
    BY BuiltShares
  <2> QED BY <2>1, Zenon
<1>4. PICK j \in 1 .. Len(mods[i].fixups) : mods[i].fixups[j].at = OffsetOf(p[i], l) /\ mods[i].fixups[j].sym = s
  BY <1>2, <1>3 DEF Refers, RefersAt
<1>5. i \in 1 .. Len(mods)
  BY <1>3 DEF Shared
<1>6. PICK g \in 1 .. Len(mods) : \E h \in 1 .. Len(mods[g].exports) :
        /\ mods[g].exports[h].sym = mods[i].fixups[j].sym
        /\ \A r \in 0 .. 2 : output[base[i] + mods[i].fixups[j].at + 1 + r] =
                             Digit(base[g] + mods[g].exports[h].at, r)
  <2>1. \A u \in 1 .. Len(mods) : \A v \in 1 .. Len(mods[u].fixups) :
         \E g \in 1 .. Len(mods) : \E h \in 1 .. Len(mods[g].exports) :
           /\ mods[g].exports[h].sym = mods[u].fixups[v].sym
           /\ \A r \in 0 .. 2 : output[base[u] + mods[u].fixups[v].at + 1 + r] =
                                Digit(base[g] + mods[g].exports[h].at, r)
    <3>1. LinkedWell
      BY EndsWell
    <3> QED BY <3>1, Zenon DEF LinkedWell
  <2> QED BY <1>4, <1>5, <2>1, Zenon
<1>7. PICK h \in 1 .. Len(mods[g].exports) :
        /\ mods[g].exports[h].sym = mods[i].fixups[j].sym
        /\ \A r \in 0 .. 2 : output[base[i] + mods[i].fixups[j].at + 1 + r] =
                             Digit(base[g] + mods[g].exports[h].at, r)
  BY <1>6
<1>8. PICK t : t = mods[g].exports[h].at
  OBVIOUS
<1>9. g \in 1 .. Len(p) /\ s \in Underscored /\ g \in Owners(p, s)
      /\ t = OffsetOf(p[g], LabelAt(p[g], s))
  <2>1. g \in 1 .. Len(p) /\ SharedAt(p, g, mods[g].exports)
    BY <1>3 DEF Shared
  <2>2. /\ mods[g].exports[h].sym \in Underscored /\ g \in Owners(p, mods[g].exports[h].sym)
        /\ mods[g].exports[h].at = OffsetOf(p[g], LabelAt(p[g], mods[g].exports[h].sym))
    BY <2>1, Zenon DEF SharedAt
  <2>3. mods[g].exports[h].sym = s
    BY <1>4, <1>7
  <2> QED BY <1>8, <2>1, <2>2, <2>3, Zenon
<1>10. FinalAddress(p, i, s) = Start(p, g) + t
  BY <1>9, LinkedSound, SharedAddress
<1>11. base[i] = Start(p, i) /\ base[g] = Start(p, g)
  BY <1>9, BasesAre
<1>12. output[base[i] + OffsetOf(p[i], l) + 1 + n] = Digit(base[g] + t, n)
  BY <1>4, <1>7, <1>8, Zenon
<1> QED BY <1>2, <1>10, <1>11, <1>12, Zenon

LEMMA LinkedByte ==
  ASSUME NEW p, Fair(p), LinkInv(Symbols), pc = "done", mods = Built(p),
         NEW i \in 1 .. Len(p), NEW l \in 1 .. Len(p[i]), NEW d \in 1 .. Size(p[i][l])
  PROVE  output[Start(p, i) + (OffsetOf(p[i], l) + d) - 1] = MeantBytes(p, i, p[i][l])[d]
<1>1. CASE ~External(p[i][l], Defined(p[i]))
  BY <1>1, OwnByte, OwnMeant
<1>2. CASE External(p[i][l], Defined(p[i]))
  <2>1. PICK line : line = p[i][l]
    OBVIOUS
  <2>2. line \in Line /\ line.op = "la" /\ FinalAddress(p, i, line.arg) \in Nat
    BY <1>2, <2>1, LinkedSound, MeantParts DEF External
  <2>3. PICK a : a = FinalAddress(p, i, line.arg)
    OBVIOUS
  <2>4. MeantBytes(p, i, line) = Bytes(line, a)
    <3>1. a = CASE line.op = "la" -> FinalAddress(p, i, line.arg)
                [] line.op = "num" -> line.arg
                [] OTHER -> 0
      BY <2>2, <2>3
    <3> QED BY <3>1, Zenon DEF MeantBytes
  <2>5. Bytes(line, a)[1] = LaOp /\ \A n \in 0 .. 2 : Bytes(line, a)[n + 2] = Digit(a, n)
    BY <2>2, <2>3, BytesAre
  <2>6. Size(line) = 4
    BY <2>2, LineKinds
  <2>7. CASE d = 1
    <3>1. output[Start(p, i) + (OffsetOf(p[i], l) + d) - 1] =
          Bytes(PrepText(p[i])[l], AddressAt(p[i], Start(p, i), l))[d]
      BY <2>7, OwnByte
    <3>2. PrepText(p[i])[l] = Num(0)
      BY <1>2, BuiltParts, PrepKinds
    <3>3. AddressAt(p[i], Start(p, i), l) = 0
      BY <1>2 DEF AddressAt
    <3>4. Num(0) \in Line /\ Num(0).op = "num" /\ 0 \in Nat
      BY DEF Num, Line
    <3>5. Bytes(Num(0), 0)[1] = LaOp
      BY <3>4, BytesAre
    <3> QED BY <2>1, <2>4, <2>5, <2>7, <3>1, <3>2, <3>3, <3>5
  <2>8. CASE d # 1
    <3>1. PICK n : n = d - 2
      OBVIOUS
    <3>2. n \in 0 .. 2 /\ n + 2 = d
      BY <2>1, <2>6, <2>8, <3>1
    <3>3. output[Start(p, i) + OffsetOf(p[i], l) + 1 + n] = Digit(a, n)
      BY <1>2, <2>1, <2>3, <3>2, AddressByte
    <3>4. Start(p, i) + OffsetOf(p[i], l) + 1 + n = Start(p, i) + (OffsetOf(p[i], l) + d) - 1
      <4>1. PICK b : b = Start(p, i)
        OBVIOUS
      <4>2. PICK o : o = OffsetOf(p[i], l)
        OBVIOUS
      <4>3. b \in Nat /\ o \in Nat
        BY <4>1, <4>2, BuiltParts, Starts, Offsets
      <4>4. b + o + 1 + n = b + (o + d) - 1
        BY <3>2, <4>3
      <4> QED BY <4>1, <4>2, <4>4
    <3>5. Bytes(line, a)[d] = Digit(a, n)
      BY <2>5, <3>2
    <3> QED BY <2>1, <2>4, <3>3, <3>4, <3>5
  <2> QED BY <2>7, <2>8
<1> QED BY <1>1, <1>2

(* What link24 has written is the image of the program.                    *)
LEMMA LinkedImage ==
  ASSUME NEW p, Fair(p), LinkInv(Symbols), pc = "done", mods = Built(p)
  PROVE  Sound(p) /\ OutputBytes = Image(p)
<1>1. Sound(p)
  BY LinkedSound
<1>2. addr = Total(p)
  BY BasesAre
<1>3. PICK I : I = Image(p)
  OBVIOUS
<1>4. I \in Seq(Nat) /\ Len(I) = addr /\ addr \in Nat
  BY <1>1, <1>2, <1>3, ImageParts
<1>5. I = [q \in 1 .. addr |-> I[q]]
  BY <1>4
<1>6. ASSUME NEW q \in 1 .. addr PROVE output[q - 1] = I[q]
  <2>1. q \in 1 .. Total(p)
    BY <1>2
  <2>2. PICK i \in 1 .. Len(p) : \E l \in 1 .. Len(p[i]) : \E d \in 1 .. Size(p[i][l]) :
           /\ q = Start(p, i) + (OffsetOf(p[i], l) + d)
           /\ Image(p)[q] = MeantBytes(p, i, p[i][l])[d]
    BY <1>1, <2>1, ImageByte
  <2>3. PICK l \in 1 .. Len(p[i]) : \E d \in 1 .. Size(p[i][l]) :
           /\ q = Start(p, i) + (OffsetOf(p[i], l) + d)
           /\ Image(p)[q] = MeantBytes(p, i, p[i][l])[d]
    BY <2>2
  <2>4. PICK d \in 1 .. Size(p[i][l]) :
           /\ q = Start(p, i) + (OffsetOf(p[i], l) + d)
           /\ Image(p)[q] = MeantBytes(p, i, p[i][l])[d]
    BY <2>3
  <2>5. output[Start(p, i) + (OffsetOf(p[i], l) + d) - 1] = MeantBytes(p, i, p[i][l])[d]
    BY LinkedByte
  <2>6. PICK u : u = Start(p, i) + (OffsetOf(p[i], l) + d)
    OBVIOUS
  <2>7. q = u
    BY <2>4, <2>6
  <2>8. I[q] = MeantBytes(p, i, p[i][l])[d]
    BY <1>3, <2>4
  <2>9. output[u - 1] = I[q]
    <3>1. PICK v : v = MeantBytes(p, i, p[i][l])[d]
      OBVIOUS
    <3>2. PICK w : w = Start(p, i) + (OffsetOf(p[i], l) + d) - 1
      OBVIOUS
    <3>3. output[w] = v
      BY <2>5, <3>1, <3>2, Zenon
    <3>4. w = u - 1
      <4>1. PICK b : b = Start(p, i)
        OBVIOUS
      <4>2. PICK o : o = OffsetOf(p[i], l)
        OBVIOUS
      <4>3. b \in Nat /\ o \in Nat /\ d \in Int
        BY <4>1, <4>2, BuiltParts, Starts, Offsets
      <4>4. u = b + (o + d) /\ w = b + (o + d) - 1
        BY <2>6, <3>2, <4>1, <4>2
      <4> QED BY <4>3, <4>4
    <3> QED BY <2>8, <3>1, <3>3, <3>4, Zenon
  <2> QED BY <2>7, <2>9
<1>7. OutputBytes = [q \in 1 .. addr |-> output[q - 1]]
  BY DEF OutputBytes
<1> QED BY <1>1, <1>3, <1>5, <1>6, <1>7

-----------------------------------------------------------------------------
(* The script.                                                             *)

First(F, n) == [i \in 1 .. n |-> F[i]]

LEMMA FirstNext ==
  ASSUME NEW F, NEW n \in Nat
  PROVE  /\ Append(First(F, n), F[n + 1]) = First(F, n + 1)
         /\ Len(First(F, n)) = n /\ \A i \in 1 .. n : First(F, n)[i] = F[i]
<1> DEFINE A == {F[i] : i \in 1 .. n + 1}
           f == First(F, n)
           x == F[n + 1]
           g == First(F, n + 1)
<1>1. x \in A /\ \A i \in 1 .. n : F[i] \in A
  OBVIOUS
<1>2. f = [i \in 1 .. n |-> F[i]] /\ g = [i \in 1 .. n + 1 |-> F[i]]
  BY DEF First
<1> HIDE DEF A, f, g
<1>3. f \in Seq(A) /\ Len(f) = n /\ \A i \in 1 .. n : f[i] = F[i]
  BY <1>1, <1>2
<1> HIDE DEF x
<1>4. /\ Append(f, x) \in Seq(A) /\ Len(Append(f, x)) = n + 1
      /\ Append(f, x)[n + 1] = x /\ \A i \in 1 .. n : Append(f, x)[i] = f[i]
  BY <1>1, <1>3, AppendParts
<1>5. PICK h : h = Append(f, x)
  OBVIOUS
<1>6. h = [i \in 1 .. n + 1 |-> h[i]]
  <2>1. h \in Seq(A) /\ Len(h) = n + 1
    BY <1>4, <1>5
  <2> QED BY <2>1
<1>7. ASSUME NEW i \in 1 .. n + 1 PROVE h[i] = F[i]
  <2>1. CASE i = n + 1
    BY <1>4, <1>5, <2>1 DEF x
  <2>2. CASE i # n + 1
    <3>1. i \in 1 .. n
      BY <2>2
    <3> QED BY <1>3, <1>4, <1>5, <3>1
  <2> QED BY <2>1, <2>2
<1>8. h = g
  BY <1>2, <1>6, <1>7
<1> QED BY <1>3, <1>5, <1>8 DEF f, x, g

(* What each phase makes of the whole program.                             *)
Stubs(p) == [i \in 1 .. Len(p) |-> Stub(p[i])]
Listings(p) == [i \in 1 .. Len(p) |-> Listing(p[i])]
Metas(p) == [i \in 1 .. Len(p) |-> [exports |-> ExportsFor(p[i]), fixups |-> FixupsFor(p[i])]]
Bases(p) == [i \in 1 .. Len(p) |-> Start(p, i)]
Binaries(p) == [i \in 1 .. Len(p) |-> Linked(PrepText(p[i]), Start(p, i))]

Rank == [prep |-> 1, assemble |-> 2, emit |-> 3, layout |-> 4, reassemble |-> 5, link |-> 6,
         linking |-> 7]

(* How far the phase of a rank has come.                                   *)
Made(r) == IF Rank[stage] > r THEN Len(srcs) ELSE IF Rank[stage] = r THEN at - 1 ELSE 0

Scripted ==
  /\ srcs \in Programs /\ Fair(srcs) /\ entry = 1 /\ at \in 1 .. Len(srcs)
  /\ stage \in DOMAIN Rank

Products ==
  /\ stubs = First(Stubs(srcs), Made(1)) /\ listings = First(Listings(srcs), Made(2))
  /\ metas = First(Metas(srcs), Made(3)) /\ bases = First(Bases(srcs), Made(4))
  /\ bins = First(Binaries(srcs), Made(5))

Linker ==
  IF stage = "linking" THEN mods = Built(srcs) /\ LinkInv(Symbols) ELSE LinkInit

ScriptInv == srcs # <<>> => Scripted /\ Products /\ Linker

AllRegular == \A p \in Programs : \A i \in DOMAIN p : Regular(p[i])

LEMMA ScriptStart ==
  ASSUME AllRegular, EntryPlaces = {1}, Init
  PROVE  ScriptInv
<1> SUFFICES ASSUME srcs # <<>> PROVE Scripted /\ Products /\ Linker
  BY DEF ScriptInv
<1>1. /\ srcs \in Programs /\ stage = "prep" /\ at = 1 /\ entry = 1 /\ LinkInit
      /\ stubs = <<>> /\ listings = <<>> /\ metas = <<>> /\ bases = <<>> /\ bins = <<>>
  <2>1. /\ srcs \in Programs /\ stage = "prep" /\ at = 1 /\ LinkInit
        /\ stubs = <<>> /\ listings = <<>> /\ metas = <<>> /\ bases = <<>> /\ bins = <<>>
        /\ entry \in EntryPlaces
    BY DEF Init
  <2> QED BY <2>1
<1>2. srcs \in Seq(Seq(Line)) /\ \A i \in DOMAIN srcs : Assembles(srcs[i]) /\ Regular(srcs[i])
  BY <1>1, ProgramsAssumption DEF AllRegular
<1>3. Fair(srcs)
  BY <1>2 DEF Fair
<1>4. at \in 1 .. Len(srcs) /\ stage \in DOMAIN Rank /\ Rank[stage] = 1
  <2>1. Len(srcs) \in Nat /\ Len(srcs) > 0
    BY <1>3, BuiltParts
  <2> QED BY <1>1, <2>1 DEF Rank
<1>5. \A r \in 1 .. 5 : Made(r) = 0
  BY <1>1, <1>4 DEF Made
<1>6. \A F : First(F, 0) = <<>>
  BY DEF First
<1> QED BY <1>1, <1>3, <1>4, <1>5, <1>6 DEF Scripted, Products, Linker

LEMMA StepMakes ==
  ASSUME Scripted, NEW r \in 1 .. 5, NEW phase, NEW next, Step(phase, next),
         phase \in DOMAIN Rank, next \in DOMAIN Rank, Rank[phase] = r, Rank[next] = r + 1
  PROVE  /\ Made(r) = at - 1 /\ Made(r)' = at
         /\ \A q \in 1 .. 5 : q # r => Made(q)' = Made(q)
         /\ \A q \in 1 .. 5 : q < r => Made(q) = Len(srcs)
         /\ Scripted' /\ at \in 1 .. Len(srcs) /\ Len(srcs) \in Nat /\ UNCHANGED <<srcs, linkVars>>
         /\ stage # "linking" /\ stage' # "linking"
<1>1. /\ stage = phase /\ srcs' = srcs /\ entry' = entry /\ linkVars' = linkVars
      /\ IF at < Len(srcs) THEN at' = at + 1 /\ stage' = stage ELSE at' = 1 /\ stage' = next
  BY DEF Step
<1>2. /\ srcs \in Programs /\ Fair(srcs) /\ entry = 1 /\ at \in 1 .. Len(srcs)
  BY DEF Scripted
<1>3. Len(srcs) \in Nat
  BY <1>2, BuiltParts
<1>4. Rank[stage] = r /\ stage # "linking" /\ next # "linking" /\ stage' # "linking"
  BY <1>1 DEF Rank
<1>5. Made(r) = at - 1 /\ \A q \in 1 .. 5 : q < r => Made(q) = Len(srcs)
  BY <1>4 DEF Made
<1>6. CASE at < Len(srcs)
  <2>1. at' = at + 1 /\ Rank[stage'] = r /\ stage' = stage
    BY <1>1, <1>4, <1>6
  <2>2. Made(r)' = at /\ \A q \in 1 .. 5 : q # r => Made(q)' = Made(q)
    BY <1>1, <1>2, <1>4, <2>1 DEF Made
  <2>3. Scripted'
    BY <1>1, <1>2, <1>3, <1>6, <2>1 DEF Scripted
  <2> QED BY <1>1, <1>2, <1>3, <1>4, <1>5, <2>2, <2>3
<1>7. CASE ~(at < Len(srcs))
  <2>1. at' = 1 /\ Rank[stage'] = r + 1 /\ stage' = next /\ at = Len(srcs)
    BY <1>1, <1>2, <1>3, <1>7
  <2>2. Made(r)' = at /\ \A q \in 1 .. 5 : q # r => Made(q)' = Made(q)
    BY <1>1, <1>2, <1>4, <2>1 DEF Made
  <2>3. Scripted'
    BY <1>1, <1>2, <1>3, <2>1 DEF Scripted
  <2> QED BY <1>1, <1>2, <1>3, <1>4, <1>5, <2>2, <2>3
<1> QED BY <1>6, <1>7

LEMMA Grows ==
  ASSUME NEW F, NEW made, NEW n \in Nat \ {0}, made = First(F, n - 1)
  PROVE  Append(made, F[n]) = First(F, n)
<1>1. n - 1 \in Nat /\ n - 1 + 1 = n
  OBVIOUS
<1>2. Append(First(F, n - 1), F[n - 1 + 1]) = First(F, n - 1 + 1)
  BY <1>1, FirstNext
<1> QED BY <1>1, <1>2

(* A phase has made one more of its products, and no other has moved.      *)
Turns(r) ==
  /\ Made(r) = at - 1 /\ Made(r)' = at
  /\ \A q \in 1 .. 5 : q # r => Made(q)' = Made(q)
  /\ \A q \in 1 .. 5 : q < r => Made(q) = Len(srcs)
  /\ at \in 1 .. Len(srcs) /\ Len(srcs) \in Nat /\ srcs' = srcs

LEMMA Phase ==
  ASSUME Scripted, Linker, NEW r \in 1 .. 5, NEW phase, NEW next, Step(phase, next),
         phase \in DOMAIN Rank, next \in DOMAIN Rank, Rank[phase] = r, Rank[next] = r + 1
  PROVE  Turns(r) /\ Scripted' /\ Linker'
<1>1. Turns(r) /\ Scripted' /\ UNCHANGED <<srcs, linkVars>> /\ stage # "linking" /\ stage' # "linking"
  BY StepMakes DEF Turns
<1>2. Linker'
  BY <1>1 DEF Linker, LinkInit, linkVars
<1> QED BY <1>1, <1>2

LEMMA PrepMakes ==
  ASSUME Scripted, Products, Linker, Prep
  PROVE  Scripted' /\ Products' /\ Linker'
<1>1. Step("prep", "assemble")
  BY DEF Prep
<1>2. Turns(1) /\ Scripted' /\ Linker'
  <2>1. /\ 1 \in 1 .. 5 /\ "prep" \in DOMAIN Rank /\ "assemble" \in DOMAIN Rank
        /\ Rank["prep"] = 1 /\ Rank["assemble"] = 1 + 1
    BY DEF Rank
  <2> QED BY <1>1, <2>1, Phase
<1>3. Stubs(srcs)[at] = [text |-> PrepText(srcs[at]), syms |-> Syms(srcs[at])]
  BY <1>2 DEF Turns, Stubs, Stub
<1>4. stubs' = First(Stubs(srcs), at)
  <2>1. stubs' = Append(stubs, Stubs(srcs)[at]) /\ at \in Nat \ {0}
    BY <1>2, <1>3 DEF Prep, Turns
  <2>2. stubs = First(Stubs(srcs), at - 1)
    BY <1>2 DEF Products, Turns
  <2> QED BY <2>1, <2>2, Grows
<1>5. Products'
  BY <1>2, <1>4 DEF Prep, Products, Turns
<1> QED BY <1>2, <1>5

LEMMA AssembleMakes ==
  ASSUME Scripted, Products, Linker, AssembleAtZero
  PROVE  Scripted' /\ Products' /\ Linker'
<1>1. Step("assemble", "emit")
  BY DEF AssembleAtZero
<1>2. Turns(2) /\ Scripted' /\ Linker'
  <2>1. /\ 2 \in 1 .. 5 /\ "assemble" \in DOMAIN Rank /\ "emit" \in DOMAIN Rank
        /\ Rank["assemble"] = 2 /\ Rank["emit"] = 2 + 1
    BY DEF Rank
  <2> QED BY <1>1, <2>1, Phase
<1>3. Listings(srcs)[at] = Assembled(stubs[at].text, 0)
  <2>1. stubs[at] = Stub(srcs[at])
    BY <1>2 DEF Products, Turns, First, Stubs
  <2>2. Listings(srcs)[at] = Listing(srcs[at])
    BY <1>2 DEF Turns, Listings
  <2> QED BY <2>1, <2>2 DEF Stub, Listing
<1>4. listings' = First(Listings(srcs), at)
  <2>1. listings' = Append(listings, Listings(srcs)[at]) /\ at \in Nat \ {0}
    BY <1>2, <1>3 DEF AssembleAtZero, Turns
  <2>2. listings = First(Listings(srcs), at - 1)
    BY <1>2 DEF Products, Turns
  <2> QED BY <2>1, <2>2, Grows
<1>5. Products'
  BY <1>2, <1>4 DEF AssembleAtZero, Products, Turns
<1> QED BY <1>2, <1>5

LEMMA EmitMakes ==
  ASSUME Scripted, Products, Linker, Emit
  PROVE  Scripted' /\ Products' /\ Linker'
<1>1. Step("emit", "layout")
  BY DEF Emit
<1>2. Turns(3) /\ Scripted' /\ Linker'
  <2>1. /\ 3 \in 1 .. 5 /\ "emit" \in DOMAIN Rank /\ "layout" \in DOMAIN Rank
        /\ Rank["emit"] = 3 /\ Rank["layout"] = 3 + 1
    BY DEF Rank
  <2> QED BY <1>1, <2>1, Phase
<1>3. Metas(srcs)[at] = [exports |-> ExportsOf(listings[at], stubs[at].syms),
                         fixups |-> FixupsOf(listings[at], stubs[at].syms)]
  <2>1. stubs[at] = Stub(srcs[at])
    BY <1>2 DEF Products, Turns, First, Stubs
  <2>2. listings[at] = Listing(srcs[at])
    BY <1>2 DEF Products, Turns, First, Listings
  <2>3. Metas(srcs)[at] = [exports |-> ExportsFor(srcs[at]), fixups |-> FixupsFor(srcs[at])]
    BY <1>2 DEF Turns, Metas
  <2>4. stubs[at].syms = Syms(srcs[at])
    BY <2>1 DEF Stub
  <2> QED BY <2>2, <2>3, <2>4, Zenon DEF ExportsFor, FixupsFor
<1>4. metas' = First(Metas(srcs), at)
  <2>1. metas' = Append(metas, Metas(srcs)[at]) /\ at \in Nat \ {0}
    BY <1>2, <1>3 DEF Emit, Turns
  <2>2. metas = First(Metas(srcs), at - 1)
    BY <1>2 DEF Products, Turns
  <2> QED BY <2>1, <2>2, Grows
<1>5. Products'
  BY <1>2, <1>4 DEF Emit, Products, Turns
<1> QED BY <1>2, <1>5

LEMMA LayoutMakes ==
  ASSUME Scripted, Products, Linker, Layout
  PROVE  Scripted' /\ Products' /\ Linker'
<1>1. Step("layout", "reassemble")
  BY DEF Layout
<1>2. Turns(4) /\ Scripted' /\ Linker'
  <2>1. /\ 4 \in 1 .. 5 /\ "layout" \in DOMAIN Rank /\ "reassemble" \in DOMAIN Rank
        /\ Rank["layout"] = 4 /\ Rank["reassemble"] = 4 + 1
    BY DEF Rank
  <2> QED BY <1>1, <2>1, Phase
<1>3. Bases(srcs)[at] = IF at = 1 THEN 0 ELSE bases[at - 1] + Len(Binary(listings[at - 1]))
  <2>1. Bases(srcs)[at] = Start(srcs, at) /\ Fair(srcs)
    BY <1>2 DEF Turns, Bases, Scripted
  <2>2. CASE at = 1
    BY <2>1, <2>2, Starts
  <2>3. CASE at # 1
    <3>1. PICK h : h = at - 1
      OBVIOUS
    <3>2. h \in 1 .. Len(srcs) - 1 /\ h \in 1 .. Len(srcs) /\ h \in 1 .. at - 1 /\ h + 1 = at
      BY <1>2, <2>3, <3>1 DEF Turns
    <3>3. bases[h] = Start(srcs, h)
      BY <1>2, <3>2 DEF Products, Turns, First, Bases
    <3>4. listings[h] = Listing(srcs[h])
      BY <1>2, <3>2 DEF Products, Turns, First, Listings
    <3>5. Len(Binary(Listing(srcs[h]))) = SizeOf(srcs[h])
      <4>1. srcs[h] \in Seq(Line) /\ Assembles(srcs[h]) /\ 0 \in Nat
        BY <2>1, <3>2, BuiltParts
      <4>2. Len(Linked(PrepText(srcs[h]), 0)) = SizeOf(srcs[h])
        BY <4>1, BinaryIs
      <4> QED BY <4>2 DEF Linked, Listing
    <3>6. Start(srcs, h + 1) = Start(srcs, h) + SizeOf(srcs[h])
      BY <2>1, <3>2, Starts
    <3> QED BY <2>1, <2>3, <3>1, <3>2, <3>3, <3>4, <3>5, <3>6
  <2> QED BY <2>2, <2>3
<1>4. bases' = First(Bases(srcs), at)
  <2>1. bases' = Append(bases, Bases(srcs)[at]) /\ at \in Nat \ {0}
    BY <1>2, <1>3 DEF Layout, Turns
  <2>2. bases = First(Bases(srcs), at - 1)
    BY <1>2 DEF Products, Turns
  <2> QED BY <2>1, <2>2, Grows
<1>5. Products'
  BY <1>2, <1>4 DEF Layout, Products, Turns
<1> QED BY <1>2, <1>5

LEMMA ReassembleMakes ==
  ASSUME Scripted, Products, Linker, Reassemble
  PROVE  Scripted' /\ Products' /\ Linker'
<1>1. Step("reassemble", "link")
  BY DEF Reassemble
<1>2. Turns(5) /\ Scripted' /\ Linker'
  <2>1. /\ 5 \in 1 .. 5 /\ "reassemble" \in DOMAIN Rank /\ "link" \in DOMAIN Rank
        /\ Rank["reassemble"] = 5 /\ Rank["link"] = 5 + 1
    BY DEF Rank
  <2> QED BY <1>1, <2>1, Phase
<1>3. Binaries(srcs)[at] = Linked(stubs[at].text, bases[at])
  <2>1. stubs[at] = Stub(srcs[at])
    BY <1>2 DEF Products, Turns, First, Stubs
  <2>2. bases[at] = Start(srcs, at)
    BY <1>2 DEF Products, Turns, First, Bases
  <2>3. Binaries(srcs)[at] = Linked(PrepText(srcs[at]), Start(srcs, at))
    BY <1>2 DEF Turns, Binaries
  <2> QED BY <2>1, <2>2, <2>3 DEF Stub
<1>4. bins' = First(Binaries(srcs), at)
  <2>1. bins' = Append(bins, Binaries(srcs)[at]) /\ at \in Nat \ {0}
    BY <1>2, <1>3 DEF Reassemble, Turns
  <2>2. bins = First(Binaries(srcs), at - 1)
    BY <1>2 DEF Products, Turns
  <2> QED BY <2>1, <2>2, Grows
<1>5. Products'
  BY <1>2, <1>4 DEF Reassemble, Products, Turns
<1> QED BY <1>2, <1>5

LEMMA RunKeeps ==
  ASSUME Scripted, Products, Linker, RunLink24
  PROVE  Scripted' /\ Products' /\ Linker'
<1>1. /\ stage = "link" /\ Load([j \in 1 .. Len(srcs) |-> ModuleOf(Ordered(Len(srcs), entry)[j])])
      /\ stage' = "linking" /\ srcs' = srcs /\ entry' = entry /\ at' = at /\ products' = products
  <2>1. stage # "handmade"
    BY DEF Scripted, Rank
  <2> QED BY <2>1 DEF RunLink24
<1>2. Fair(srcs) /\ entry = 1 /\ Len(srcs) \in Nat /\ at \in 1 .. Len(srcs)
  BY BuiltParts DEF Scripted
<1>3. /\ \A r \in 1 .. 5 : Made(r) = Len(srcs) /\ Made(r)' = Len(srcs)
      /\ Made(3) = Len(srcs) /\ Made(5) = Len(srcs)
  BY <1>1 DEF Made, Rank
<1>4. Scripted' /\ Products'
  <2>1. Scripted'
    BY <1>1 DEF Scripted, Rank
  <2>2. \A r \in 1 .. 5 : Made(r)' = Made(r)
    BY <1>3
  <2>3. /\ stubs' = stubs /\ listings' = listings /\ metas' = metas /\ bases' = bases /\ bins' = bins
    BY <1>1 DEF products
  <2> QED BY <1>1, <2>1, <2>2, <2>3 DEF Products
<1>5. ASSUME NEW j \in 1 .. Len(srcs)
      PROVE  ModuleOf(Ordered(Len(srcs), entry)[j]) = Built(srcs)[j]
  <2>1. Ordered(Len(srcs), entry)[j] = j
    BY <1>2 DEF Ordered
  <2>2. metas[j] = [exports |-> ExportsFor(srcs[j]), fixups |-> FixupsFor(srcs[j])]
    <3>1. metas = First(Metas(srcs), Len(srcs))
      BY SMTT(60), <1>3 DEF Products
    <3> QED BY <3>1 DEF First, Metas
  <2>3. bins[j] = Linked(PrepText(srcs[j]), Start(srcs, j))
    <3>1. bins = First(Binaries(srcs), Len(srcs))
      BY SMTT(60), <1>3 DEF Products
    <3> QED BY <3>1 DEF First, Binaries
  <2>4. ModuleOf(j) = [exports |-> ExportsFor(srcs[j]), fixups |-> FixupsFor(srcs[j]),
                       bin |-> Linked(PrepText(srcs[j]), Start(srcs, j))]
    BY <2>2, <2>3 DEF ModuleOf
  <2>5. Built(srcs)[j] = [exports |-> ExportsFor(srcs[j]), fixups |-> FixupsFor(srcs[j]),
                          bin |-> Linked(PrepText(srcs[j]), Start(srcs, j))]
    BY DEF Built
  <2> QED BY <2>1, <2>4, <2>5, Zenon
<1>6. [j \in 1 .. Len(srcs) |-> ModuleOf(Ordered(Len(srcs), entry)[j])] = Built(srcs)
  <2>1. PICK M : M = Built(srcs)
    OBVIOUS
  <2>2. M = [j \in 1 .. Len(srcs) |-> M[j]]
    BY <2>1 DEF Built
  <2>3. \A j \in 1 .. Len(srcs) : ModuleOf(Ordered(Len(srcs), entry)[j]) = M[j]
    BY <1>5, <2>1, Zenon
  <2>4. [j \in 1 .. Len(srcs) |-> ModuleOf(Ordered(Len(srcs), entry)[j])] =
        [j \in 1 .. Len(srcs) |-> M[j]]
    BY <2>3, Zenon
  <2> QED BY <2>1, <2>2, <2>4, Zenon
<1>7. Load(Built(srcs))
  BY <1>1, <1>6, Zenon
<1>8. LinkInv(Symbols)
  <2>1. LinkInit
    BY <1>1 DEF Linker
  <2> QED BY <2>1, LinkInvStart
<1>9. LinkInv(Symbols)'
  BY <1>2, <1>7, <1>8, BuiltParts, BuiltWell, LinkInvLoad
<1>10. mods' = Built(srcs)
  BY <1>7 DEF Load
<1>11. mods' = Built(srcs')
  BY <1>1, <1>10, Zenon
<1>12. Linker'
  BY <1>1, <1>9, <1>11, Zenon DEF Linker
<1> QED BY <1>4, <1>12

LEMMA Stays ==
  ASSUME Scripted, Products, UNCHANGED script
  PROVE  Scripted' /\ Products'
<1>1. /\ srcs' = srcs /\ entry' = entry /\ at' = at /\ stage' = stage
      /\ stubs' = stubs /\ listings' = listings /\ metas' = metas /\ bases' = bases /\ bins' = bins
  BY DEF script, products
<1>2. \A r \in 1 .. 5 : Made(r)' = Made(r)
  BY <1>1 DEF Made
<1>3. Scripted'
  BY <1>1 DEF Scripted
<1> QED BY <1>1, <1>2, <1>3 DEF Products

LEMMA LinkingKeeps ==
  ASSUME Scripted, Products, Linker, Linking
  PROVE  Scripted' /\ Products' /\ Linker'
<1>1. LinkNext /\ UNCHANGED script /\ srcs' = srcs /\ stage' = stage
  BY DEF Linking, script
<1>2. stage = "linking"
  <2>1. pc # "idle"
    BY <1>1 DEF LinkNext, Place, PlaceAll, Define, Duplicate, Allocate, Copy, CopyAll, Patch,
                Unresolved, OutOfRange, Write, Turn
  <2> QED BY <2>1 DEF Linker, LinkInit
<1>3. mods = Built(srcs) /\ LinkInv(Symbols)
  BY <1>2 DEF Linker
<1>4. LinkInv(Symbols)' /\ mods' = mods
  BY <1>1, <1>3, LinkInvStep, StepKeeps DEF LinkInv
<1>5. mods' = Built(srcs')
  BY <1>1, <1>3, <1>4, Zenon
<1>6. Linker'
  BY <1>1, <1>2, <1>4, <1>5, Zenon DEF Linker
<1> QED BY <1>1, <1>6, Stays

LEMMA StutterStays ==
  ASSUME Scripted, Products, Linker, UNCHANGED vars
  PROVE  Scripted' /\ Products' /\ Linker'
<1>1. UNCHANGED script /\ UNCHANGED linkVars /\ srcs' = srcs /\ stage' = stage
  BY DEF vars, script
<1>2. mods' = mods
  BY <1>1 DEF linkVars
<1>3. CASE stage = "linking"
  <2>1. LinkInv(Symbols)' /\ mods = Built(srcs)
    BY <1>1, <1>3, LinkInvStutter DEF Linker
  <2>2. mods' = Built(srcs')
    BY <1>1, <1>2, <2>1, Zenon
  <2>3. Linker'
    BY <1>1, <1>3, <2>1, <2>2, Zenon DEF Linker
  <2> QED BY <1>1, <2>3, Stays
<1>4. CASE stage # "linking"
  <2>1. Linker'
    BY <1>1, <1>4 DEF Linker, LinkInit, linkVars
  <2> QED BY <1>1, <2>1, Stays
<1> QED BY <1>3, <1>4

LEMMA ScriptStep ==
  ASSUME ScriptInv, [Next]_vars
  PROVE  ScriptInv'
<1>1. srcs' = srcs
  BY DEF Next, vars, script, Prep, AssembleAtZero, Emit, Layout, Reassemble, Step, RunLink24,
         Linking, Over
<1> SUFFICES ASSUME srcs # <<>> PROVE Scripted' /\ Products' /\ Linker'
  BY <1>1 DEF ScriptInv
<1>2. Scripted /\ Products /\ Linker
  BY DEF ScriptInv
<1>3. CASE Prep
  BY <1>2, <1>3, PrepMakes
<1>4. CASE AssembleAtZero
  BY <1>2, <1>4, AssembleMakes
<1>5. CASE Emit
  BY <1>2, <1>5, EmitMakes
<1>6. CASE Layout
  BY <1>2, <1>6, LayoutMakes
<1>7. CASE Reassemble
  BY <1>2, <1>7, ReassembleMakes
<1>8. CASE RunLink24
  BY <1>2, <1>8, RunKeeps
<1>9. CASE Linking
  BY <1>2, <1>9, LinkingKeeps
<1>10. CASE Over \/ UNCHANGED vars
  BY <1>2, <1>10, StutterStays DEF Over
<1> QED BY <1>3, <1>4, <1>5, <1>6, <1>7, <1>8, <1>9, <1>10 DEF Next

(* A link that has ended one way or the other is one of the program.       *)
LEMMA Ended ==
  ASSUME ScriptInv, srcs # <<>>, pc \in {"done", "died"}
  PROVE  Fair(srcs) /\ mods = Built(srcs) /\ LinkInv(Symbols)
<1>1. Scripted /\ Linker
  BY DEF ScriptInv
<1>2. stage = "linking"
  BY <1>1 DEF Linker, LinkInit
<1> QED BY <1>1, <1>2 DEF Linker, Scripted

(* For any set of programs of any number of modules of any length, each    *)
(* one the assembler takes and Regular, the entry module first: what prep, *)
(* emit, the script's layout and link24 write together is, byte for byte,  *)
(* the program, every la holding the final address of the one symbol it    *)
(* can mean.                                                               *)
THEOREM LinkedProgram ==
  ASSUME AllRegular, EntryPlaces = {1}
  PROVE  Spec => []LinkedMeans
<1>1. Init => ScriptInv
  BY ScriptStart
<1>2. ScriptInv /\ [Next]_vars => ScriptInv'
  BY ScriptStep
<1>3. ScriptInv => LinkedMeans
  <2> SUFFICES ASSUME ScriptInv, srcs # <<>>, pc = "done"
               PROVE  Sound(srcs) /\ OutputBytes = Image(Arranged)
    BY DEF LinkedMeans
  <2>1. Fair(srcs) /\ mods = Built(srcs) /\ LinkInv(Symbols)
    BY Ended
  <2>2. Arranged = srcs
    <3>1. entry = 1 /\ srcs \in Seq(Seq(Line))
      BY ProgramsAssumption DEF ScriptInv, Scripted
    <3>2. Len(srcs) \in Nat /\ Len(srcs) >= 1
      BY DEF ScriptInv, Scripted
    <3>3. <<srcs[1]>> \o SubSeq(srcs, 2, Len(srcs)) = srcs
      <4>1. SubSeq(srcs, 1, Len(srcs)) = <<srcs[1]>> \o SubSeq(srcs, 1 + 1, Len(srcs))
        BY <3>1, <3>2, SubSeqRecursiveFirst
      <4> QED BY <3>1, <4>1, SubSeqFull
    <3>4. SubSeq(srcs, 1, 0) = <<>>
      BY SubSeqEmpty
    <3>5. Arranged = <<srcs[1]>> \o SubSeq(srcs, 1, 0) \o SubSeq(srcs, 2, Len(srcs))
      BY <3>1 DEF Arranged
    <3>6. <<srcs[1]>> \o <<>> = <<srcs[1]>>
      BY <3>1, <3>2
    <3> QED BY <3>3, <3>4, <3>5, <3>6
  <2>3. Sound(srcs) /\ OutputBytes = Image(srcs)
    BY <2>1, LinkedImage
  <2> QED BY <2>2, <2>3, Zenon
<1> QED BY <1>1, <1>2, <1>3, PTL DEF Spec

(* And link24 refuses such a program only where a name it shares has two   *)
(* owners or none: neither prep nor emit nor the layout brings it to an    *)
(* error of their own making.                                              *)
THEOREM LinkRefusals ==
  ASSUME AllRegular, EntryPlaces = {1}
  PROVE  Spec => []RefusedOnlyIfUnsound
<1>1. Init => ScriptInv
  BY ScriptStart
<1>2. ScriptInv /\ [Next]_vars => ScriptInv'
  BY ScriptStep
<1>3. ScriptInv => RefusedOnlyIfUnsound
  <2> SUFFICES ASSUME ScriptInv, srcs # <<>>, pc = "died"
               PROVE  ~Sound(srcs)
    BY DEF RefusedOnlyIfUnsound
  <2>1. Fair(srcs) /\ mods = Built(srcs) /\ LinkInv(Symbols)
    BY Ended
  <2>2. Twice(mods) \/ Missing(mods)
    BY <2>1 DEF LinkInv, RefusedRightly
  <2>3. Shared(srcs, mods) /\ Refers(srcs, mods)
    <3>1. Shared(srcs, Built(srcs)) /\ Refers(srcs, Built(srcs))
      BY <2>1, BuiltShares
    <3> QED BY <2>1, <3>1, Zenon
  <2>4. \A i \in DOMAIN srcs : srcs[i] \in Seq(Line)
    BY <2>1, BuiltParts
  <2> QED BY <2>2, <2>3, <2>4, TwiceUnsound, MissingUnsound
<1> QED BY <1>1, <1>2, <1>3, PTL DEF Spec
=============================================================================
