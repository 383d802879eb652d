------------------------------ MODULE HeapProofs ------------------------------
(***************************************************************************)
(* IInv is inductive for Heap, hence every invariant of the heap holds for *)
(* every buffer, every size of it, every set of requests and every data,   *)
(* as long as no address of a forged header is passed to FREEMAIN; and     *)
(* Heap implements HeapContract.                                           *)
(***************************************************************************)
EXTENDS HeapLifo, FiniteSetTheorems, TLAPS

LEMMA MagicNat == Magic \in Nat
BY SMT DEF Magic

USE MagicNat DEF HeaderSize, Junk, HeapEnd, Remainder, Stamped, Below

(* A block lies inside the buffer. *)
LEMMA BlockInside ==
  ASSUME TypeOK, HeapTiled, NEW h \in Blocks
  PROVE  /\ h \in Hdr /\ h \in Nat /\ h >= Base /\ bsize[h] \in Nat
         /\ EndOf(h) <= HeapEnd
BY HeapAssumption DEF TypeOK, HeapTiled, Blocks, EndOf, Hdr

(* Two blocks are a header apart at least. *)
LEMMA BlocksApart ==
  ASSUME TypeOK, HeapTiled, NEW g \in Blocks, NEW h \in Blocks, g < h
  PROVE  h >= g + HeaderSize /\ h >= g + bsize[g]
BY BlockInside DEF HeapTiled, EndOf

(* Where a walk stands: CURR is the neighbour after PREV. *)
LEMMA WalkNeighbours ==
  ASSUME IInv, pc # "idle"
  PROVE  /\ IsNext(curr, prev)
         /\ prev = 0 \/ prev \in free
         /\ curr = 0 \/ curr \in free
<1>1. CASE prev = 0
  BY <1>1 DEF IInv, WalkInPlace, FreeListExact, IsNext
<1>2. CASE prev # 0
  <2>1. prev \in free /\ curr = bnext[prev]
    BY <1>2 DEF IInv, WalkInPlace
  <2>2. IsNext(curr, prev)
    BY <2>1 DEF IInv, FreeListExact
  <2>3. QED BY <2>1, <2>2 DEF IsNext
<1>3. QED
  BY <1>1, <1>2

(* No next word of a block straddles the headers of others, ...            *)
LEMMA BlocksWhole ==
  ASSUME TypeOK, HeapTiled, NEW hs \in SUBSET Blocks, NEW h \in Blocks
  PROVE  h \notin Straddling(hs)
<1> SUFFICES ASSUME h \notin hs, NEW g \in hs, h >= g - 5, h <= g + 2 PROVE FALSE
  BY DEF Straddling
<1>1. g \in Blocks /\ g # h
  OBVIOUS
<1>2. CASE g < h
  BY <1>1, <1>2, BlocksApart, BlockInside
<1>3. CASE h < g
  BY <1>1, <1>3, BlocksApart, BlockInside
<1>4. QED BY <1>1, <1>2, <1>3, BlockInside

(* ... or has a byte of another block's data.                              *)
LEMMA BlocksNotData ==
  ASSUME TypeOK, HeapTiled, NEW g \in Blocks, NEW h \in Blocks
  PROVE  h \notin InData(g)
BY BlocksApart, BlockInside DEF InData

(* What an overlay leaves in memory. *)
Words == Hdr \cup {0, Magic, Junk}
LEMMA Overlaid ==
  ASSUME TypeOK, NEW w \in [Hdr -> Words], NEW t \in SUBSET Hdr, Overlay(w, t)
  PROVE  /\ bnext' \in [Hdr -> Words] /\ forged' \subseteq Hdr
         /\ \A a \in Hdr : a \notin t => bnext'[a] = w[a]
         /\ \A a \in Hdr : a \notin t => (a \in forged' <=> a \in forged /\ w[a] = Magic)
         /\ \A a \in t : bnext'[a] = Magic <=> a \in forged'
<1>1. PICK data \in SUBSET (t \cap Marks) :
        /\ bnext' = [a \in Hdr |-> IF a \in data THEN Magic
                                   ELSE IF a \in t THEN Junk ELSE w[a]]
        /\ forged' = {a \in forged \ t : w[a] = Magic} \cup data
  BY DEF Overlay
<1>2. bnext' \in [Hdr -> Words] /\ forged' \subseteq Hdr
  BY <1>1 DEF Words, TypeOK
<1>3. ASSUME NEW a \in Hdr, a \notin t
      PROVE  bnext'[a] = w[a] /\ (a \in forged' <=> a \in forged /\ w[a] = Magic)
  BY <1>1, <1>3
<1>4. Junk # Magic
  BY DEF Magic
<1>5. \A a \in t : bnext'[a] = Magic <=> a \in forged'
  BY <1>1, <1>4
<1>6. QED BY <1>2, <1>3, <1>5

(* An overlay that tears no block's next word keeps the sentinels exact.   *)
LEMMA OverlaySentinel ==
  ASSUME TypeOK, NEW w \in [Hdr -> Words], NEW t \in SUBSET Hdr, Overlay(w, t),
         Blocks' \cap t = {}, \A a \in Blocks' : ~(a \in forged /\ w[a] = Magic),
         Blocks' \subseteq Hdr,
         \A a \in Hdr : w[a] = Magic => a \in live' \/ a \in forged,
         \A a \in live' : w[a] = Magic
  PROVE  SentinelExact'
<1>0. /\ \A a \in Hdr : a \notin t => bnext'[a] = w[a]
      /\ \A a \in Hdr : a \notin t => (a \in forged' <=> a \in forged /\ w[a] = Magic)
      /\ \A a \in t : bnext'[a] = Magic <=> a \in forged'
  BY Overlaid
<1>1. forged' \cap Blocks' = {}
  BY <1>0
<1>2. ASSUME NEW a \in Hdr PROVE bnext'[a] = Magic <=> a \in live' \cup forged'
  <2>1. live' \subseteq Blocks'
    BY DEF Blocks
  <2>2. CASE a \in t
    BY <1>0, <2>1, <2>2
  <2>3. CASE a \notin t
    <3>1. bnext'[a] = w[a] /\ (a \in forged' <=> a \in forged /\ w[a] = Magic)
      BY <1>0, <2>3
    <3>2. w[a] = Magic => a \in live' \/ a \in forged
      OBVIOUS
    <3>3. a \in live' => w[a] = Magic
      OBVIOUS
    <3>4. QED BY <3>1, <3>2, <3>3
  <2>4. QED BY <2>2, <2>3
<1>3. QED BY <1>1, <1>2 DEF SentinelExact

LEMMA InitIInv == Init => IInv
<1> SUFFICES ASSUME Init PROVE IInv
  OBVIOUS
<1>1. TypeOK
  BY HeapAssumption DEF Init, TypeOK
<1>2. HeapTiled /\ FreeListExact /\ BlockFitsRequest /\ WalkInPlace
  BY DEF Init, HeapTiled, FreeListExact, BlockFitsRequest, WalkInPlace, Blocks, IsNext
<1>3. SentinelExact
  BY HeapAssumption DEF Init, SentinelExact, Magic
<1>4. QED BY <1>1, <1>2, <1>3 DEF IInv

LEMMA GetmainCallIInv ==
  ASSUME IInv, NEW n \in Sizes, GetmainCall(n)
  PROVE  IInv'
<1> USE DEF GetmainCall, prog
<1>1. n \in Nat
  BY HeapAssumption
<1>2. CASE initDone
  <2>1. TypeOK'
    BY <1>1, <1>2 DEF IInv, TypeOK
  <2>2. HeapTiled' /\ FreeListExact' /\ SentinelExact' /\ BlockFitsRequest'
    <3>1. UNCHANGED <<bsize, bnext, freeHead, initDone, free, live, asked, forged>>
      BY <1>2
    <3>2. HeapTiled'
      BY <3>1 DEF IInv, HeapTiled, Blocks, EndOf
    <3>3. FreeListExact'
      BY <3>1 DEF IInv, FreeListExact, IsNext
    <3>4. QED BY <3>1, <3>2, <3>3 DEF IInv, SentinelExact, BlockFitsRequest, Blocks
  <2>3. WalkInPlace'
    <3>0. free' = free /\ prev' = 0
      BY <1>2
    <3>1. \A g \in free' : ~(g <= prev')
      BY <3>0, HeapAssumption DEF IInv, TypeOK, Hdr
    <3>2. pc' = "getWalk" /\ initDone' /\ prev' = 0 /\ curr' = freeHead' /\ needed' >= HeaderSize
      BY <1>1, <1>2
    <3>3. QED BY <3>1, <3>2 DEF WalkInPlace
  <2>4. QED BY <2>1, <2>2, <2>3 DEF IInv
<1>3. CASE ~initDone
  <2>1. free = {} /\ live = {}
    BY <1>3 DEF IInv, HeapTiled, Blocks
  <2>2. Base \in Hdr
    BY HeapAssumption DEF Hdr
  <2>20. PICK w, t : w = [bnext EXCEPT ![Base] = 0] /\ t = Straddling({Base})
    OBVIOUS
  <2>21. w \in [Hdr -> Words] /\ t \in SUBSET Hdr /\ Base \notin t /\ Overlay(w, t) /\ w[Base] = 0
    BY <1>3, <2>2, <2>20 DEF IInv, TypeOK, Words, Straddling
  <2>22. bnext' \in [Hdr -> Words] /\ forged' \subseteq Hdr /\ bnext'[Base] = 0
    BY <2>2, <2>21, Overlaid DEF IInv
  <2>3. TypeOK'
    <3>1. bsize' \in [Hdr -> Nat]
      BY <1>3, <2>2, HeapAssumption DEF IInv, TypeOK
    <3>2. QED BY <1>1, <1>3, <2>2, <2>22, <3>1 DEF IInv, TypeOK, Words
  <2>4. HeapTiled' /\ BlockFitsRequest'
    BY <1>3, <2>1, <2>2, HeapAssumption
       DEF IInv, TypeOK, HeapTiled, BlockFitsRequest, Blocks, EndOf
  <2>5. FreeListExact'
    BY <1>3, <2>1, <2>2, <2>22, HeapAssumption DEF FreeListExact, IsNext
  <2>6. SentinelExact'
    <3>1. Blocks' = {Base} /\ live' = {} /\ Magic # 0
      BY <1>3, <2>1 DEF Blocks, Magic
    <3>2. \A a \in Hdr : w[a] = Magic => a \in forged
      BY <2>1, <2>2, <2>20, <3>1 DEF IInv, TypeOK, SentinelExact
    <3>3. QED BY <2>2, <2>21, <3>1, <3>2, OverlaySentinel DEF IInv
  <2>7. WalkInPlace'
    BY <1>1, <1>3, <2>2, HeapAssumption DEF IInv, TypeOK, WalkInPlace, Hdr
  <2>8. QED BY <2>3, <2>4, <2>5, <2>6, <2>7 DEF IInv
<1>4. QED BY <1>2, <1>3 DEF IInv, TypeOK

(* The pointers after CURR, a free block the walk stands at, is replaced in *)
(* the list by h: the next free block, or the remainder of the split.      *)
LEMMA GetmainWholeIInv ==
  ASSUME IInv, GetmainWhole
  PROVE  IInv'
<1> USE DEF GetmainWhole, Relink, GetReturn, Returned
<1>1. /\ curr \in free /\ IsNext(curr, prev) /\ (prev = 0 \/ prev \in free)
      /\ prev # curr /\ pc = "getWalk"
  BY WalkNeighbours DEF IsNext, IInv, TypeOK, Hdr
<1>2. curr \in Blocks /\ curr \in Hdr /\ curr > 0
  BY <1>1, BlockInside, HeapAssumption DEF IInv, Blocks
<1>3. IsNext(bnext[curr], curr) /\ bnext[curr] \in Hdr \cup {0}
  BY <1>1 DEF IInv, FreeListExact, IsNext, TypeOK
<1>4. bsize' = bsize /\ initDone' = initDone
      /\ free' = free \ {curr} /\ live' = live \cup {curr}
  OBVIOUS
<1>50. Blocks' = Blocks /\ Blocks \subseteq Hdr /\ 0 \notin Hdr
  <2>1. Blocks' = Blocks
    BY <1>1, <1>4 DEF Blocks
  <2>2. Blocks \subseteq Hdr
    BY DEF Blocks, IInv, TypeOK
  <2>3. 0 \notin Hdr
    BY HeapAssumption DEF Hdr
  <2>4. QED BY <2>1, <2>2, <2>3
<1>51. PICK w, hs : /\ w = [h \in Hdr |-> IF h = prev THEN bnext[curr]
                                         ELSE IF h = curr THEN Magic ELSE bnext[h]]
                    /\ hs = {curr} \cup ({prev} \ {0})
  OBVIOUS
<1>52. Overlay(w, Straddling(hs))
  <2>1. CASE prev = 0
    <3>1. w = [bnext EXCEPT ![curr] = Magic] /\ hs = {curr}
      BY <1>1, <1>2, <1>50, <1>51, <2>1 DEF IInv, TypeOK
    <3>2. QED BY <2>1, <3>1
  <2>2. CASE prev # 0
    <3>1. w = [[bnext EXCEPT ![curr] = Magic] EXCEPT ![prev] = bnext[curr]]
          /\ hs = {curr} \cup {prev}
      BY <1>1, <1>2, <1>50, <1>51, <2>2 DEF IInv, TypeOK
    <3>2. QED BY <2>2, <3>1
  <2>3. QED BY <2>1, <2>2
<1>53. PICK t : t = Straddling(hs)
  OBVIOUS
<1>54. /\ w \in [Hdr -> Words] /\ t \in SUBSET Hdr /\ Overlay(w, t)
       /\ \A h \in Blocks : h \notin t
  <2>1. hs \in SUBSET Blocks
    BY <1>1, <1>2, <1>51 DEF Blocks
  <2>2. QED BY <1>2, <1>3, <1>51, <1>52, <1>53, <2>1, BlocksWhole
            DEF IInv, TypeOK, Words, Straddling
<1>5. \A h \in Blocks : bnext'[h] = IF h = prev THEN bnext[curr]
                                    ELSE IF h = curr THEN Magic ELSE bnext[h]
  BY <1>50, <1>51, <1>54, Overlaid DEF IInv
<1>6. TypeOK'
  <2>1. bnext' \in [Hdr -> Words] /\ forged' \subseteq Hdr
    BY <1>54, Overlaid DEF IInv
  <2>2. freeHead' \in Hdr \cup {0}
    <3>1. freeHead' = bnext[curr] \/ freeHead' = freeHead
      OBVIOUS
    <3>2. QED BY <1>3, <3>1 DEF IInv, TypeOK
  <2>3. asked' \in [Hdr -> Nat]
    <3>1. needed \in Nat /\ needed >= HeaderSize
      BY <1>1 DEF IInv, TypeOK, WalkInPlace
    <3>2. needed - HeaderSize \in Nat
      BY <3>1
    <3>3. QED BY <1>2, <3>2 DEF IInv, TypeOK
  <2>4. live' \subseteq Hdr /\ free' \subseteq Hdr
    BY <1>2, <1>4 DEF IInv, TypeOK
  <2>5. QED BY <1>4, <2>1, <2>2, <2>3, <2>4 DEF IInv, TypeOK, Words
<1>7. HeapTiled'
  <2>1. Blocks' = Blocks
    BY <1>1, <1>4 DEF Blocks
  <2>2. QED BY <1>1, <1>4, <2>1 DEF IInv, HeapTiled, EndOf
<1>8. FreeListExact'
  <2>0. /\ \A g \in free : g \in Nat /\ g > 0
        /\ prev \in Nat /\ curr \in Nat /\ IsNext(freeHead, 0)
    BY <1>1, HeapAssumption DEF IInv, FreeListExact, TypeOK, Hdr
  <2>1. IsNext(freeHead, 0)'
    <3>1. CASE prev = 0
      <4>1. freeHead' = bnext[curr]
        BY <3>1
      <4>2. \A g \in free' : g >= curr /\ g # curr
        BY <1>1, <1>4, <2>0, <3>1 DEF IsNext
      <4>3. QED BY <1>3, <1>4, <2>0, <4>1, <4>2 DEF IsNext
    <3>2. CASE prev # 0
      <4>1. freeHead' = freeHead /\ freeHead # curr
        BY <1>1, <2>0, <3>2 DEF IsNext
      <4>2. QED BY <1>4, <2>0, <4>1 DEF IsNext
    <3>3. QED BY <3>1, <3>2
  <2>2. ASSUME NEW h \in free' PROVE IsNext(bnext[h], h)'
    <3>1. h \in free /\ h # curr /\ h \in Hdr /\ h \in Blocks
      BY <1>4 DEF IInv, TypeOK, Blocks
    <3>2. CASE h = prev
      <4>1. bnext'[h] = bnext[curr]
        BY <1>5, <3>1, <3>2
      <4>2. QED BY SMTT(60), <1>1, <1>3, <1>4, <3>1, <3>2, <4>1, HeapAssumption
                DEF IInv, TypeOK, IsNext, Hdr
    <3>3. CASE h # prev
      <4>1. bnext'[h] = bnext[h] /\ IsNext(bnext[h], h)
        BY <1>5, <3>1, <3>3 DEF IInv, FreeListExact
      <4>2. bnext[h] # curr
        BY <1>1, <3>1, <3>3, <4>1, HeapAssumption DEF IInv, TypeOK, IsNext, Hdr
      <4>3. QED BY <1>4, <4>1, <4>2 DEF IsNext
    <3>4. QED BY <3>2, <3>3
  <2>3. QED BY <2>1, <2>2 DEF FreeListExact
<1>9. SentinelExact'
  <2>1. bnext[curr] # Magic
    BY <1>3, HeapAssumption DEF Hdr
  <2>2. \A a \in Blocks : a \notin forged /\ (bnext[a] = Magic <=> a \in live)
    BY <1>50 DEF IInv, SentinelExact
  <2>3. \A a \in live' : w[a] = Magic
    <3>0. live \cap free = {} /\ 0 \notin live
      BY <1>50 DEF IInv, HeapTiled, TypeOK
    <3>1. \A a \in live' : a \in Blocks /\ a # prev /\ (a = curr \/ a \in live)
      BY <1>1, <1>2, <1>4, <3>0 DEF Blocks
    <3>2. QED BY <1>50, <1>51, <2>2, <3>1
  <2>4. \A a \in Hdr : w[a] = Magic => a \in live' \/ a \in forged
    BY <1>4, <1>51, <2>1 DEF IInv, SentinelExact
  <2>5. QED BY <1>50, <1>54, <2>2, <2>3, <2>4, OverlaySentinel DEF IInv
<1>10. BlockFitsRequest'
  BY <1>1, <1>2, <1>4 DEF IInv, TypeOK, BlockFitsRequest, WalkInPlace, Fits, Splits
<1>11. WalkInPlace'
  BY DEF WalkInPlace
<1>12. QED BY <1>6, <1>7, <1>8, <1>9, <1>10, <1>11 DEF IInv

(* The remainder of the split takes CURR's place in the list. *)
LEMMA GetmainSplitIInv ==
  ASSUME IInv, GetmainSplit
  PROVE  IInv'
<1> USE DEF GetmainSplit, Relink, GetReturn, Returned
<1> DEFINE rest == curr + needed
<1>1. /\ curr \in free /\ IsNext(curr, prev) /\ (prev = 0 \/ prev \in free)
      /\ prev # curr /\ pc = "getWalk"
  BY WalkNeighbours DEF IsNext, IInv, TypeOK, Hdr
<1>2. /\ curr \in Blocks /\ curr \in Hdr /\ curr \in Nat /\ curr > 0 /\ EndOf(curr) <= HeapEnd
      /\ needed \in Nat /\ needed >= HeaderSize /\ bsize[curr] \in Nat
      /\ bsize[curr] >= needed + HeaderSize + 1
  BY <1>1, BlockInside, HeapAssumption DEF IInv, Blocks, TypeOK, WalkInPlace, Splits
<1>3. /\ rest \in Hdr /\ rest \in Nat /\ rest > curr /\ rest > 0
      /\ rest + (bsize[curr] - needed) = EndOf(curr)
  BY <1>2, HeapAssumption DEF Hdr, EndOf
<1>4. IsNext(bnext[curr], curr) /\ bnext[curr] \in Hdr \cup {0}
  BY <1>1 DEF IInv, FreeListExact, IsNext, TypeOK
<1>5. /\ initDone' = initDone /\ free' = (free \ {curr}) \cup {rest}
      /\ live' = live \cup {curr}
  OBVIOUS
<1>6. \A h \in Blocks : h < curr \/ h = curr \/ h >= EndOf(curr)
  BY <1>2, BlockInside DEF IInv, HeapTiled
<1>7. \A h \in Blocks : h <= rest - HeaderSize \/ h >= rest + HeaderSize + 1
  BY <1>1, <1>2, <1>3, <1>6, BlocksApart, BlockInside DEF IInv, EndOf
<1>8. bsize' = [h \in Hdr |-> IF h = curr THEN needed
                              ELSE IF h = rest THEN bsize[curr] - needed
                              ELSE bsize[h]]
  BY <1>2, <1>3 DEF IInv, TypeOK
<1>12. Blocks' = Blocks \cup {rest} /\ rest \notin Blocks
  BY <1>1, <1>5, <1>7, <1>3 DEF Blocks, Hdr
<1>120. /\ Blocks' \subseteq Hdr /\ 0 \notin Hdr /\ prev # rest /\ curr # rest
        /\ (prev = 0 \/ prev \in Blocks)
  <2>1. 0 \notin Hdr
    BY HeapAssumption DEF Hdr
  <2>2. Blocks \subseteq Hdr
    BY DEF Blocks, IInv, TypeOK
  <2>3. prev = 0 \/ prev \in Blocks
    BY <1>1 DEF Blocks
  <2>4. curr # rest
    BY <1>2, <1>3
  <2>5. QED BY <1>3, <1>12, <2>1, <2>2, <2>3, <2>4
<1>121. PICK w, hs : /\ w = [h \in Hdr |-> IF h = prev THEN rest
                                          ELSE IF h = curr THEN Magic
                                          ELSE IF h = rest THEN bnext[curr]
                                          ELSE bnext[h]]
                     /\ hs = {curr} \cup ({prev} \ {0})
  OBVIOUS
<1>122. PICK t : t = Straddling({rest} \cup hs)
  OBVIOUS
<1>123. Overlay(w, t)
  <2>1. CASE prev = 0
    <3>1. /\ w = [[bnext EXCEPT ![rest] = bnext[curr]] EXCEPT ![curr] = Magic]
          /\ {rest} \cup hs = {rest, curr}
      BY <1>2, <1>3, <1>120, <1>121, <2>1 DEF IInv, TypeOK
    <3>2. QED BY <1>122, <2>1, <3>1
  <2>2. CASE prev # 0
    <3>1. /\ w = [[[bnext EXCEPT ![rest] = bnext[curr]] EXCEPT ![curr] = Magic]
                   EXCEPT ![prev] = rest]
          /\ {rest} \cup hs = {rest, curr} \cup {prev}
      BY <1>1, <1>2, <1>3, <1>120, <1>121, <2>2 DEF IInv, TypeOK
    <3>2. QED BY <1>122, <2>2, <3>1
  <2>3. QED BY <2>1, <2>2
<1>124. \A h \in Blocks' : h \notin t
  <2>1. hs \in SUBSET Blocks
    BY <1>2, <1>120, <1>121
  <2>2. ASSUME NEW h \in Blocks PROVE h \notin t
    <3>1. h \notin Straddling(hs)
      BY <2>1, BlocksWhole DEF IInv
    <3>2. ~(h >= rest - 5 /\ h <= rest + 2)
      BY <1>3, <1>7, BlockInside DEF IInv
    <3>3. QED BY <1>122, <3>1, <3>2 DEF Straddling
  <2>3. rest \notin t
    BY <1>122 DEF Straddling
  <2>4. QED BY <1>12, <2>2, <2>3
<1>125. w \in [Hdr -> Words] /\ t \in SUBSET Hdr
  BY <1>3, <1>4, <1>121, <1>122 DEF IInv, TypeOK, Words, Straddling
<1>9. \A h \in Blocks' : bnext'[h] = IF h = prev THEN rest
                                     ELSE IF h = curr THEN Magic
                                     ELSE IF h = rest THEN bnext[curr]
                                     ELSE bnext[h]
  BY <1>120, <1>121, <1>123, <1>124, <1>125, Overlaid DEF IInv
<1>13. TypeOK'
  <2>1. bsize' \in [Hdr -> Nat]
    BY <1>2, <1>8 DEF IInv, TypeOK
  <2>2. bnext' \in [Hdr -> Words] /\ forged' \subseteq Hdr
    BY <1>123, <1>125, Overlaid DEF IInv
  <2>3. QED
    BY <1>2, <1>3, <1>5, <2>1, <2>2 DEF IInv, TypeOK, Words
<1>14. HeapTiled'
  <2>1. \A h \in Blocks' : bsize'[h] >= HeaderSize
                          /\ (EndOf(h)' = HeapEnd \/ EndOf(h)' \in Blocks')
    <3>1. ASSUME NEW h \in Blocks, h # curr
          PROVE  bsize'[h] = bsize[h] /\ EndOf(h)' = EndOf(h)
      BY <1>8, <1>12, <3>1, BlockInside DEF EndOf, IInv
    <3>2. ASSUME NEW h, h = curr
          PROVE  EndOf(h)' = rest /\ bsize'[h] = needed
      BY <1>2, <1>3, <1>8, <3>2 DEF EndOf
    <3>3. ASSUME NEW h, h = rest
          PROVE  EndOf(h)' = EndOf(curr) /\ bsize'[h] = bsize[curr] - needed
      BY <1>2, <1>3, <1>8, <3>3 DEF EndOf
    <3>4. EndOf(curr) = HeapEnd \/ EndOf(curr) \in Blocks
      BY <1>2 DEF IInv, HeapTiled
    <3>5. \A h \in Blocks : bsize[h] >= HeaderSize /\ (EndOf(h) = HeapEnd \/ EndOf(h) \in Blocks)
      BY DEF IInv, HeapTiled
    <3>6. TAKE h \in Blocks'
    <3>7. CASE h = curr
      <4>1. EndOf(h)' = rest /\ bsize'[h] = needed
        BY <3>2, <3>7
      <4>2. rest \in Blocks'
        BY <1>12
      <4>3. QED BY <1>2, <4>1, <4>2
    <3>8. CASE h = rest
      <4>1. EndOf(h)' = EndOf(curr) /\ bsize'[h] = bsize[curr] - needed
        BY <3>3, <3>8
      <4>2. bsize[curr] - needed >= HeaderSize
        BY <1>2
      <4>3. QED BY <1>12, <3>4, <4>1, <4>2
    <3>9. CASE h \in Blocks /\ h # curr
      BY <1>12, <3>1, <3>5, <3>9
    <3>10. QED
      BY <1>12, <3>7, <3>8, <3>9
  <2>2. \A g, h \in Blocks' : g < h => EndOf(g)' <= h
    <3> SUFFICES ASSUME NEW g \in Blocks', NEW h \in Blocks', g < h
                 PROVE  EndOf(g)' <= h
      OBVIOUS
    <3>1. CASE g = curr
      BY <1>2, <1>3, <1>6, <1>8, <1>12, <3>1, BlockInside DEF EndOf, IInv
    <3>2. CASE g = rest
      <4>1. h \in Blocks /\ h >= EndOf(curr)
        BY <1>2, <1>3, <1>6, <1>12, <3>2, BlockInside DEF IInv
      <4>2. QED BY <1>2, <1>3, <1>8, <3>2, <4>1 DEF EndOf
    <3>3. CASE g \in Blocks /\ g # curr
      <4>1. EndOf(g)' = EndOf(g)
        BY <1>8, <1>12, <3>3, BlockInside DEF EndOf, IInv
      <4>2. CASE h \in Blocks
        BY <3>3, <4>1, <4>2 DEF IInv, HeapTiled
      <4>3. CASE h = rest
        <5>1. g < curr
          BY <1>2, <1>3, <1>6, <3>3, <4>3, BlockInside DEF IInv, EndOf
        <5>2. EndOf(g) <= curr
          BY <1>2, <3>3, <5>1 DEF IInv, HeapTiled
        <5>3. QED BY <1>2, <1>3, <3>3, <4>1, <4>3, <5>2, BlockInside DEF IInv, EndOf
      <4>4. QED BY <1>12, <4>2, <4>3
    <3>4. QED BY <1>12, <3>1, <3>2, <3>3
  <2>3. free' \cap live' = {} /\ (IF initDone' THEN Base \in Blocks' ELSE Blocks' = {})
    BY <1>1, <1>2, <1>3, <1>5, <1>12 DEF IInv, HeapTiled, Blocks, TypeOK, Hdr
  <2>4. QED BY <2>1, <2>2, <2>3 DEF HeapTiled
<1>15. FreeListExact'
  <2>0. /\ \A g \in free : g \in Nat /\ (g < curr \/ g = curr \/ g > rest)
        /\ curr \in Nat /\ rest \in Nat
    BY <1>1, <1>2, <1>3, <1>6, BlockInside DEF IInv, Blocks, EndOf, Hdr
  <2>1. IsNext(freeHead, 0)'
    <3>1. CASE prev = 0
      BY <1>1, <1>3, <1>5, <2>0, <3>1 DEF IsNext
    <3>2. CASE prev # 0
      <4>1. freeHead' = freeHead /\ freeHead # curr /\ freeHead \in free
        BY SMTT(60), <1>1, <2>0, <3>2, HeapAssumption DEF IInv, FreeListExact, IsNext, TypeOK, Hdr
      <4>2. QED BY <1>1, <1>3, <1>5, <2>0, <4>1 DEF IInv, FreeListExact, IsNext
    <3>3. QED BY <3>1, <3>2
  <2>2. ASSUME NEW h \in free' PROVE IsNext(bnext[h], h)'
    <3>1. CASE h = rest
      <4>1. bnext'[h] = bnext[curr]
        BY <1>1, <1>3, <1>9, <1>12, <3>1 DEF Blocks
      <4>2. CASE bnext[curr] = 0 /\ \A g \in free : g <= curr
        <5>1. \A g \in free' : g <= rest
          BY <1>3, <1>5, <2>0, <4>2
        <5>2. QED BY <3>1, <4>1, <4>2, <5>1 DEF IsNext
      <4>3. CASE /\ bnext[curr] \in free /\ bnext[curr] > curr
                 /\ \A g \in free : g <= curr \/ g >= bnext[curr]
        <5>1. bnext[curr] > rest /\ bnext[curr] \in free' /\ bnext[curr] \in Nat
          BY <1>5, <2>0, <4>3
        <5>2. \A g \in free' : g <= rest \/ g >= bnext[curr]
          BY <1>3, <1>5, <2>0, <4>3
        <5>3. QED BY <3>1, <4>1, <5>1, <5>2 DEF IsNext
      <4>4. QED BY <1>4, <4>2, <4>3 DEF IsNext
    <3>2. CASE h # rest /\ h = prev
      <4>1. bnext'[h] = rest
        BY <1>1, <1>9, <1>12, <3>2 DEF Blocks
      <4>2. QED
        BY <1>1, <1>3, <1>5, <2>0, <3>2, <4>1 DEF IsNext
    <3>3. CASE h # rest /\ h # prev
      <4>1. h \in free /\ h # curr /\ h \in Hdr
        BY <1>5, <3>3 DEF IInv, TypeOK
      <4>2. bnext'[h] = bnext[h] /\ IsNext(bnext[h], h)
        BY <1>9, <1>12, <3>3, <4>1 DEF IInv, FreeListExact, Blocks
      <4>3. bnext[h] # curr
        BY SMTT(60), <1>1, <2>0, <3>3, <4>1, <4>2, HeapAssumption DEF IInv, TypeOK, IsNext, Hdr
      <4>4. \A g \in free : g <= h \/ g >= bnext[h] \/ bnext[h] = 0
        BY <4>2 DEF IsNext
      <4>5. rest > h => bnext[h] # 0 /\ bnext[h] <= curr
        BY <1>1, <2>0, <4>1, <4>2, <4>4 DEF IsNext
      <4>6. rest > h => bnext[h] < curr
        BY <2>0, <4>2, <4>3, <4>5 DEF IsNext
      <4>7. QED
        BY <1>3, <1>5, <2>0, <4>1, <4>2, <4>3, <4>5, <4>6 DEF IsNext
    <3>4. QED BY <3>1, <3>2, <3>3
  <2>3. QED BY <2>1, <2>2 DEF FreeListExact
<1>16. SentinelExact'
  <2>1. bnext[curr] # Magic /\ rest # Magic
    BY <1>3, <1>4, HeapAssumption DEF Hdr
  <2>2. \A a \in Blocks : a \notin forged /\ (bnext[a] = Magic <=> a \in live)
    BY <1>12, <1>120 DEF IInv, SentinelExact
  <2>3. \A a \in live' : w[a] = Magic
    <3>0. live \cap free = {} /\ 0 \notin live
      BY <1>120 DEF IInv, HeapTiled, TypeOK
    <3>1. \A a \in live' : a \in Blocks /\ a # prev /\ (a = curr \/ a \in live)
      BY <1>1, <1>2, <1>5, <3>0 DEF Blocks
    <3>2. \A a \in Blocks : a \in Hdr /\ a # rest
      BY <1>12, <1>120
    <3>3. QED BY <1>121, <2>2, <3>1, <3>2
  <2>4. \A a \in Hdr : w[a] = Magic => a \in live' \/ a \in forged
    BY <1>5, <1>121, <2>1 DEF IInv, SentinelExact
  <2>5. \A a \in Blocks' : ~(a \in forged /\ w[a] = Magic)
    BY <1>3, <1>12, <1>120, <1>121, <2>1, <2>2
  <2>6. QED BY <1>120, <1>123, <1>124, <1>125, <2>3, <2>4, <2>5, OverlaySentinel DEF IInv
<1>17. BlockFitsRequest'
  <2>1. ASSUME NEW h \in live, h # curr
        PROVE  bsize'[h] = bsize[h] /\ asked'[h] = asked[h]
    BY <1>2, <1>8, <1>12, <2>1 DEF Blocks, IInv, TypeOK
  <2>2. bsize'[curr] = needed /\ asked'[curr] = needed - HeaderSize
    BY <1>2, <1>8 DEF IInv, TypeOK
  <2>3. SUFFICES ASSUME NEW h \in live'
                 PROVE  /\ bsize'[h] >= asked'[h] + HeaderSize
                        /\ bsize'[h] <= asked'[h] + 2 * HeaderSize
    BY DEF BlockFitsRequest
  <2>4. CASE h = curr
    BY <1>2, <2>2, <2>4
  <2>5. CASE h # curr
    BY <1>5, <2>1, <2>5 DEF IInv, BlockFitsRequest
  <2>6. QED BY <2>4, <2>5
<1>18. WalkInPlace'
  BY DEF WalkInPlace
<1>19. QED BY <1>13, <1>14, <1>15, <1>16, <1>17, <1>18 DEF IInv

LEMMA GetmainNextIInv ==
  ASSUME IInv, GetmainNext
  PROVE  IInv'
<1> USE DEF GetmainNext, mem, prog
<1>1. curr \in free /\ IsNext(curr, prev) /\ pc = "getWalk" /\ curr > 0
  <2>1. curr # 0 /\ pc = "getWalk"
    OBVIOUS
  <2>2. curr \in free /\ IsNext(curr, prev)
    BY <2>1, WalkNeighbours
  <2>3. curr > 0
    BY <2>2, HeapAssumption DEF IInv, TypeOK, Hdr
  <2>4. QED BY <2>1, <2>2, <2>3
<1>2. IsNext(bnext[curr], curr) /\ bnext[curr] \in Hdr \cup {0}
  BY <1>1 DEF IInv, FreeListExact, IsNext, TypeOK
<1>3. TypeOK'
  BY <1>2 DEF IInv, TypeOK
<1>4. HeapTiled' /\ FreeListExact'
  BY DEF IInv, HeapTiled, FreeListExact, Blocks, EndOf, IsNext
<1>5. SentinelExact' /\ BlockFitsRequest'
  BY DEF IInv, SentinelExact, BlockFitsRequest, Blocks
<1>6. WalkInPlace'
  <2>1. \A g \in free : g <= curr => g <= prev \/ g = curr
    BY <1>1 DEF IsNext, IInv, TypeOK, Hdr
  <2>2. \A g \in free' : g <= prev' => ~Fits(g)'
    BY <2>1 DEF IInv, WalkInPlace, Fits
  <2>3. QED
    BY <1>1, <2>2 DEF IInv, WalkInPlace
<1>7. QED BY <1>3, <1>4, <1>5, <1>6 DEF IInv

LEMMA GetmainOomIInv ==
  ASSUME IInv, GetmainOom
  PROVE  IInv'
<1> USE DEF GetmainOom, Returned, mem, prog
<1>1. TypeOK'
  BY DEF IInv, TypeOK
<1>2. HeapTiled' /\ FreeListExact'
  BY DEF IInv, HeapTiled, FreeListExact, Blocks, EndOf, IsNext
<1>3. SentinelExact' /\ BlockFitsRequest' /\ WalkInPlace'
  BY DEF IInv, SentinelExact, BlockFitsRequest, WalkInPlace, Blocks
<1>4. QED BY <1>1, <1>2, <1>3 DEF IInv

LEMMA FreemainCallIInv ==
  ASSUME ~Forges, IInv, NEW h \in Hdr, NEW n \in Sizes, FreemainCall(h, n)
  PROVE  IInv'
<1> USE DEF FreemainCall, mem, prog
<1>1. HeapTiled' /\ FreeListExact'
  BY DEF IInv, HeapTiled, FreeListExact, Blocks, EndOf, IsNext
<1>2. SentinelExact' /\ BlockFitsRequest'
  BY DEF IInv, SentinelExact, BlockFitsRequest, Blocks
<1>3. CASE Refusal(h, n) # 0
  <2>1. Refusal(h, n) \in {1, 2}
    BY <1>3 DEF Refusal
  <2>2. TypeOK' /\ WalkInPlace'
    BY <1>3, <2>1 DEF IInv, TypeOK, WalkInPlace
  <2>3. QED BY <1>1, <1>2, <2>2 DEF IInv
<1>4. CASE Refusal(h, n) = 0
  <2>1. bnext[h] = Magic
    BY <1>4 DEF Refusal
  <2>2. h \in live
    <3>1. h \notin forged
      OBVIOUS
    <3>2. QED BY <2>1, <3>1 DEF IInv, SentinelExact
  <2>3. TypeOK'
    BY <1>4 DEF IInv, TypeOK
  <2>4. initDone
    BY <2>2 DEF IInv, HeapTiled, Blocks
  <2>5. WalkInPlace'
    BY <1>4, <2>2, <2>4, HeapAssumption DEF WalkInPlace, Hdr
  <2>6. QED BY <1>1, <1>2, <2>3, <2>5 DEF IInv
<1>5. QED BY <1>3, <1>4

LEMMA FreemainNextIInv ==
  ASSUME IInv, FreemainNext
  PROVE  IInv'
<1> USE DEF FreemainNext, mem, prog
<1>1. curr \in free /\ pc = "freeWalk" /\ curr > 0
  <2>1. curr # 0 /\ pc = "freeWalk"
    OBVIOUS
  <2>2. curr \in free
    BY <2>1, WalkNeighbours
  <2>3. curr > 0
    BY <2>2, HeapAssumption DEF IInv, TypeOK, Hdr
  <2>4. QED BY <2>1, <2>2, <2>3
<1>2. bnext[curr] \in Hdr \cup {0}
  BY <1>1 DEF IInv, FreeListExact, IsNext, TypeOK
<1>3. TypeOK'
  BY <1>1, <1>2 DEF IInv, TypeOK
<1>4. HeapTiled' /\ FreeListExact'
  BY DEF IInv, HeapTiled, FreeListExact, Blocks, EndOf, IsNext
<1>5. SentinelExact' /\ BlockFitsRequest'
  BY DEF IInv, SentinelExact, BlockFitsRequest, Blocks
<1>6. WalkInPlace'
  BY <1>1 DEF IInv, WalkInPlace
<1>7. QED BY <1>3, <1>4, <1>5, <1>6 DEF IInv

LEMMA FillIInv ==
  ASSUME IInv, NEW h \in live, Fill(h)
  PROVE  IInv'
<1> USE DEF Fill, frame, prog
<1>1. h \in Blocks
  BY DEF Blocks
<1>2. PICK w, t : w = bnext /\ t = InData(h)
  OBVIOUS
<1>3. w \in [Hdr -> Words] /\ t \in SUBSET Hdr /\ Overlay(w, t) /\ Blocks \cap t = {}
  BY <1>1, <1>2, BlocksNotData DEF IInv, TypeOK, Words, InData
<1>4. TypeOK' /\ \A g \in Blocks : bnext'[g] = bnext[g]
  <2>1. bnext' \in [Hdr -> Words] /\ forged' \subseteq Hdr
    BY <1>3, Overlaid DEF IInv
  <2>2. Blocks \subseteq Hdr
    BY DEF Blocks, IInv, TypeOK
  <2>3. \A g \in Blocks : bnext'[g] = bnext[g]
    BY <1>2, <1>3, <2>2, Overlaid DEF IInv
  <2>4. QED BY <2>1, <2>3 DEF IInv, TypeOK, Words
<1>5. HeapTiled' /\ BlockFitsRequest'
  BY DEF IInv, HeapTiled, BlockFitsRequest, Blocks, EndOf
<1>6. FreeListExact'
  BY <1>4 DEF IInv, FreeListExact, IsNext, Blocks
<1>7. SentinelExact'
  <2>1. Blocks' = Blocks /\ Blocks \subseteq Hdr /\ live' = live
    BY DEF Blocks, IInv, TypeOK
  <2>2. \A a \in Blocks : a \notin forged
    BY DEF IInv, SentinelExact
  <2>3. \A a \in Hdr : w[a] = Magic <=> a \in live \/ a \in forged
    BY <1>2 DEF IInv, SentinelExact
  <2>4. \A a \in live' : w[a] = Magic
    BY <2>1, <2>3 DEF Blocks
  <2>5. QED BY <1>3, <2>1, <2>2, <2>3, <2>4, OverlaySentinel DEF IInv
<1>8. WalkInPlace'
  BY DEF WalkInPlace
<1>9. QED BY <1>4, <1>5, <1>6, <1>7, <1>8 DEF IInv

(* BLOCK enters the list between PREV and CURR; when it touches CURR, it   *)
(* takes CURR's place instead.                                             *)
LEMMA FreemainLinkIInv ==
  ASSUME IInv, FreemainLink
  PROVE  IInv'
<1> USE DEF FreemainLink, Relink, Returned
<1> DEFINE after == IF Touches THEN bnext[curr] ELSE curr
           gone  == IF Touches THEN {curr} ELSE {}
<1>1. /\ block \in live /\ block \notin free /\ block \in Blocks /\ prev < block
      /\ IsNext(curr, prev) /\ (prev = 0 \/ prev \in free) /\ (curr = 0 \/ curr \in free)
      /\ pc = "freeWalk" /\ initDone
  BY WalkNeighbours DEF IInv, WalkInPlace, HeapTiled, Blocks
<1>2. /\ block \in Hdr /\ block \in Nat /\ block > 0 /\ prev \in Nat /\ curr \in Nat
      /\ 0 \notin Hdr /\ bsize[block] \in Nat /\ prev # block
  <2>1. block \in Hdr /\ bsize[block] \in Nat
    BY <1>1 DEF IInv, TypeOK
  <2>2. Hdr \subseteq Nat /\ 0 \notin Hdr
    BY HeapAssumption DEF Hdr
  <2>3. prev \in Nat /\ curr \in Nat
    BY <2>2 DEF IInv, TypeOK
  <2>4. QED BY <1>1, <2>1, <2>2, <2>3
<1>3. curr = 0 \/ curr > block
  BY <1>1, <1>2
<1>4. \A g \in free : g \in Nat /\ g \in Hdr /\ g > 0 /\ (g <= prev \/ (curr # 0 /\ g >= curr))
  BY <1>1, HeapAssumption DEF IInv, TypeOK, IsNext, Hdr
<1>5. Touches => curr \in free /\ curr # 0 /\ IsNext(bnext[curr], curr)
                 /\ curr = block + bsize[block] /\ bsize[curr] \in Nat
  BY <1>1, <1>2 DEF Touches, IInv, FreeListExact, TypeOK
<1>6. /\ initDone' = initDone /\ free' = (free \ gone) \cup {block}
      /\ live' = live \ {block} /\ Blocks' = Blocks \ gone
  BY <1>1, <1>5 DEF Blocks, IInv, HeapTiled
<1>7. bsize' = [h \in Hdr |-> IF h = block /\ Touches THEN bsize[block] + bsize[curr]
                              ELSE bsize[h]]
  BY <1>2, <1>5 DEF IInv, TypeOK
<1>9. after \in Hdr \cup {0} /\ after \in Nat
  <2>1. CASE Touches
    BY <1>4, <1>5, <2>1 DEF IsNext
  <2>2. CASE ~Touches
    BY <1>1, <1>2, <1>4, <2>2
  <2>3. QED BY <2>1, <2>2
<1>80. PICK w, hs : /\ w = [h \in Hdr |-> IF h = prev THEN block
                                         ELSE IF h = block THEN after ELSE bnext[h]]
                    /\ hs = {block} \cup ({prev} \ {0})
  OBVIOUS
<1>81. Overlay(w, Straddling(hs))
  <2>1. CASE prev = 0
    <3>1. w = [bnext EXCEPT ![block] = after] /\ hs = {block}
      BY <1>1, <1>2, <1>80, <2>1 DEF IInv, TypeOK
    <3>2. QED BY <2>1, <3>1
  <2>2. CASE prev # 0
    <3>1. /\ w = [[bnext EXCEPT ![block] = after] EXCEPT ![prev] = block]
          /\ hs = {block} \cup {prev}
      BY <1>1, <1>2, <1>80, <2>2 DEF IInv, TypeOK
    <3>2. QED BY <2>2, <3>1
  <2>3. QED BY <2>1, <2>2
<1>82. PICK t : t = Straddling(hs)
  OBVIOUS
<1>83. /\ w \in [Hdr -> Words] /\ t \in SUBSET Hdr /\ Overlay(w, t)
       /\ \A h \in Blocks : h \notin t
       /\ Blocks \subseteq Hdr
  <2>1. hs \in SUBSET Blocks
    BY <1>1, <1>80 DEF Blocks
  <2>2. w \in [Hdr -> Words]
    BY <1>2, <1>9, <1>80 DEF IInv, TypeOK, Words
  <2>3. QED BY <1>81, <1>82, <2>1, <2>2, BlocksWhole, BlockInside DEF IInv, Straddling
<1>8. \A h \in Blocks : bnext'[h] = IF h = prev THEN block
                                    ELSE IF h = block THEN after ELSE bnext[h]
  BY <1>80, <1>83, Overlaid DEF IInv
<1>10. TypeOK'
  <2>1. bnext' \in [Hdr -> Hdr \cup {0, Magic, Junk}] /\ forged' \subseteq Hdr
        /\ bsize' \in [Hdr -> Nat]
    BY <1>2, <1>5, <1>7, <1>83, Overlaid DEF IInv, TypeOK, Words
  <2>2. free' \subseteq Hdr /\ live' \subseteq Hdr /\ freeHead' \in Hdr \cup {0}
    BY <1>2, <1>6 DEF IInv, TypeOK
  <2>3. QED BY <1>2, <2>1, <2>2 DEF IInv, TypeOK
<1>11. HeapTiled'
  <2>1. ASSUME NEW h \in Blocks, h # block
        PROVE  bsize'[h] = bsize[h] /\ EndOf(h)' = EndOf(h)
    BY <1>7, <2>1, BlockInside DEF EndOf, IInv
  <2>2. ASSUME Touches, NEW h, h = block
        PROVE  EndOf(h)' = EndOf(curr) /\ bsize'[h] >= HeaderSize
    BY <1>2, <1>5, <1>7, <1>1, <2>2 DEF EndOf, IInv, HeapTiled, Blocks
  <2>3. ASSUME ~Touches, NEW h, h = block
        PROVE  EndOf(h)' = EndOf(h) /\ bsize'[h] = bsize[h]
    BY <1>2, <1>7, <2>3 DEF EndOf
  <2>4. ASSUME Touches, NEW h \in Blocks, EndOf(h) = curr
        PROVE  h = block
    <3>1. ~(h < block)
      BY <1>1, <1>3, <1>5, <2>4, BlockInside DEF IInv, HeapTiled
    <3>2. ~(block < h)
      <4> SUFFICES ASSUME block < h PROVE FALSE
        OBVIOUS
      <4>1. curr <= h
        BY <1>1, <1>5, <2>4 DEF IInv, HeapTiled, EndOf
      <4>2. EndOf(h) > h
        BY BlockInside DEF IInv, HeapTiled, EndOf
      <4>3. QED BY <1>2, <2>4, <4>1, <4>2, BlockInside DEF IInv
    <3>3. QED BY <1>2, <3>1, <3>2, BlockInside DEF IInv
  <2>5. ASSUME NEW h \in Blocks'
        PROVE  bsize'[h] >= HeaderSize /\ (EndOf(h)' = HeapEnd \/ EndOf(h)' \in Blocks')
    <3>1. CASE h = block /\ Touches
      <4>1. EndOf(curr) = HeapEnd \/ EndOf(curr) \in Blocks
        BY <1>5, <3>1 DEF IInv, HeapTiled, Blocks
      <4>2. EndOf(curr) # curr
        BY <1>2, <1>5, <3>1 DEF IInv, HeapTiled, Blocks, EndOf
      <4>3. QED BY <1>6, <2>2, <3>1, <4>1, <4>2
    <3>2. CASE h # block \/ ~Touches
      <4>1. h \in Blocks /\ bsize'[h] = bsize[h] /\ EndOf(h)' = EndOf(h)
        BY <1>6, <2>1, <2>3, <3>2
      <4>2. bsize[h] >= HeaderSize /\ (EndOf(h) = HeapEnd \/ EndOf(h) \in Blocks)
        BY <4>1 DEF IInv, HeapTiled
      <4>3. QED BY <1>6, <2>4, <3>2, <4>1, <4>2
    <3>3. QED BY <3>1, <3>2
  <2>6. ASSUME NEW g \in Blocks', NEW h \in Blocks', g < h
        PROVE  EndOf(g)' <= h
    <3>1. CASE g = block /\ Touches
      <4>1. h >= EndOf(block) /\ h # curr
        BY <1>1, <1>6, <2>6, <3>1 DEF IInv, HeapTiled
      <4>2. h > curr
        BY <1>2, <1>5, <1>6, <3>1, <4>1, BlockInside DEF IInv, EndOf
      <4>3. EndOf(curr) <= h
        BY <1>5, <1>6, <3>1, <4>2 DEF IInv, HeapTiled, Blocks
      <4>4. QED BY <2>2, <3>1, <4>3
    <3>2. CASE g # block \/ ~Touches
      BY <1>6, <2>1, <2>3, <2>6, <3>2 DEF IInv, HeapTiled
    <3>3. QED BY <3>1, <3>2
  <2>7. free' \cap live' = {} /\ (IF initDone' THEN Base \in Blocks' ELSE Blocks' = {})
    <3>1. Touches => curr # Base
      BY <1>2, <1>3, <1>5 DEF Hdr
    <3>2. QED BY <1>1, <1>6, <3>1 DEF IInv, HeapTiled
  <2>8. QED BY <2>5, <2>6, <2>7 DEF HeapTiled
<1>12. FreeListExact'
  <2>1. ASSUME NEW h, h = block PROVE IsNext(bnext[h], h)'
    <3>1. bnext'[h] = after
      BY <1>1, <1>2, <1>8, <2>1
    <3>2. CASE Touches
      <4>1. \A g \in free' : g = block \/ (g \in free /\ g # curr)
        BY <1>6, <3>2
      <4>2. \A g \in free' : g <= block \/ g > curr
        BY <1>1, <1>2, <1>4, <4>1
      <4>3. CASE after = 0
        BY <1>2, <1>4, <1>5, <2>1, <3>1, <3>2, <4>1, <4>2, <4>3 DEF IsNext
      <4>4. CASE after # 0
        <5>1. /\ after \in free /\ after > curr
              /\ \A g \in free : g <= curr \/ g >= after
          BY <1>5, <3>2, <4>4 DEF IsNext
        <5>2. after \in free' /\ after > block
          BY <1>2, <1>3, <1>5, <1>6, <1>9, <3>2, <5>1
        <5>3. \A g \in free' : g <= block \/ g >= after
          BY <1>2, <1>4, <4>1, <4>2, <5>1
        <5>4. QED BY <2>1, <3>1, <5>2, <5>3 DEF IsNext
      <4>5. QED BY <4>3, <4>4
    <3>3. CASE ~Touches
      <4>1. after = curr /\ free' = free \cup {block}
        BY <1>6, <3>3
      <4>2. CASE curr = 0
        BY <1>1, <1>2, <1>4, <2>1, <3>1, <4>1, <4>2 DEF IsNext
      <4>3. CASE curr # 0
        <5>1. \A g \in free' : g <= block \/ g >= curr
          BY <1>1, <1>2, <1>4, <4>1
        <5>2. QED BY <1>1, <1>3, <2>1, <3>1, <4>1, <4>3, <5>1 DEF IsNext
      <4>4. QED BY <4>2, <4>3
    <3>4. QED BY <3>2, <3>3
  <2>2. ASSUME NEW h, h = prev, prev # 0 PROVE IsNext(bnext[h], h)'
    <3>1. bnext'[h] = block
      BY <1>1, <1>8, <2>2 DEF Blocks
    <3>2. \A g \in free' : g <= prev \/ g >= block
      BY <1>2, <1>3, <1>4, <1>6
    <3>3. QED BY <1>1, <1>6, <2>2, <3>1, <3>2 DEF IsNext
  <2>3. ASSUME NEW h \in free', h # block, h # prev PROVE IsNext(bnext[h], h)'
    <3>1. h \in free /\ h \in Hdr /\ h \in Nat /\ bnext'[h] = bnext[h] /\ (Touches => h # curr)
      BY <1>4, <1>6, <1>8, <2>3 DEF Blocks
    <3>2. IsNext(bnext[h], h)
      BY <3>1 DEF IInv, FreeListExact
    <3>3. CASE h < prev
      <4>1. prev \in free
        BY <1>1, <3>1, <3>3
      <4>2. /\ bnext[h] \in free /\ bnext[h] > h /\ bnext[h] <= prev
            /\ \A g \in free : g <= h \/ g >= bnext[h]
        BY <1>2, <1>4, <3>1, <3>2, <3>3, <4>1 DEF IsNext
      <4>3. bnext[h] \in free'
        BY <1>1, <1>2, <1>3, <1>4, <1>6, <4>2
      <4>4. \A g \in free' : g <= h \/ g >= bnext[h]
        BY <1>1, <1>2, <1>4, <1>6, <4>2
      <4>5. QED BY <3>1, <4>2, <4>3, <4>4 DEF IsNext
    <3>4. CASE h > prev
      <4>1. curr # 0 /\ h >= curr /\ h > block
        BY <1>2, <1>3, <1>4, <3>1, <3>4
      <4>2. CASE bnext[h] = 0 /\ \A g \in free : g <= h
        <5>1. \A g \in free' : g <= h
          BY <1>2, <1>6, <3>1, <4>1, <4>2
        <5>2. QED BY <3>1, <4>2, <5>1 DEF IsNext
      <4>3. CASE /\ bnext[h] \in free /\ bnext[h] > h
                 /\ \A g \in free : g <= h \/ g >= bnext[h]
        <5>1. bnext[h] \in free'
          BY <1>2, <1>4, <1>6, <3>1, <4>1, <4>3
        <5>2. \A g \in free' : g <= h \/ g >= bnext[h]
          BY <1>2, <1>6, <3>1, <4>1, <4>3
        <5>3. QED BY <3>1, <4>3, <5>1, <5>2 DEF IsNext
      <4>4. QED BY <3>2, <4>2, <4>3 DEF IsNext
    <3>5. QED BY <1>2, <2>3, <3>1, <3>3, <3>4
  <2>4. IsNext(freeHead, 0)'
    <3>1. CASE prev = 0
      <4>1. freeHead' = block
        BY <1>1, <3>1
      <4>2. \A g \in free' : g >= block
        BY <1>2, <1>3, <1>4, <1>6, <3>1
      <4>3. QED BY <1>2, <1>6, <4>1, <4>2 DEF IsNext
    <3>2. CASE prev # 0
      <4>1. freeHead' = freeHead
        BY <1>1, <3>2
      <4>2. /\ freeHead \in free /\ freeHead > 0 /\ freeHead <= prev
            /\ \A g \in free : g <= 0 \/ g >= freeHead
        BY <1>1, <1>2, <1>4, <3>2 DEF IInv, FreeListExact, IsNext
      <4>3. freeHead \in free'
        BY <1>1, <1>2, <1>3, <1>4, <1>6, <4>2
      <4>4. \A g \in free' : g <= 0 \/ g >= freeHead
        BY <1>1, <1>2, <1>4, <1>6, <4>2
      <4>5. QED BY <4>1, <4>2, <4>3, <4>4 DEF IsNext
    <3>3. QED BY <3>1, <3>2
  <2>5. QED
    BY <1>2, <1>6, <1>1, <2>1, <2>2, <2>3, <2>4, <1>4 DEF FreeListExact
<1>13. SentinelExact'
  <2>1. block # Magic /\ after # Magic
    BY <1>2, <1>9, HeapAssumption DEF Hdr
  <2>2. \A a \in Blocks : a \notin forged /\ (bnext[a] = Magic <=> a \in live)
    BY <1>83 DEF IInv, SentinelExact
  <2>3. \A a \in live' : w[a] = Magic
    <3>1. \A a \in live' : a \in live /\ a \in Blocks /\ a # prev /\ a # block
      BY <1>1, <1>2, <1>6 DEF IInv, TypeOK, HeapTiled, Blocks
    <3>2. QED BY <1>80, <1>83, <2>2, <3>1
  <2>4. \A a \in Hdr : w[a] = Magic => a \in live' \/ a \in forged
    BY <1>6, <1>80, <2>1 DEF IInv, SentinelExact
  <2>5. Blocks' \subseteq Blocks
    BY <1>6
  <2>6. QED BY <1>83, <2>2, <2>3, <2>4, <2>5, OverlaySentinel DEF IInv
<1>14. BlockFitsRequest'
  <2> SUFFICES ASSUME NEW h \in live'
               PROVE  /\ bsize'[h] >= asked'[h] + HeaderSize
                      /\ bsize'[h] <= asked'[h] + 2 * HeaderSize
    BY DEF BlockFitsRequest
  <2>1. h \in live /\ h # block /\ h \in Hdr
    BY <1>6 DEF IInv, TypeOK
  <2>2. bsize'[h] = bsize[h] /\ asked'[h] = asked[h]
    BY <1>7, <2>1 DEF IInv, TypeOK
  <2>3. QED BY <2>1, <2>2 DEF IInv, BlockFitsRequest
<1>15. WalkInPlace'
  BY DEF WalkInPlace
<1>16. QED BY <1>10, <1>11, <1>12, <1>13, <1>14, <1>15 DEF IInv

-----------------------------------------------------------------------------

LEMMA NextIInv == ASSUME ~Forges PROVE IInv /\ [Next]_vars => IInv'
<1> SUFFICES ASSUME IInv, [Next]_vars PROVE IInv'
  OBVIOUS
<1>1. ASSUME NEW n \in Sizes, GetmainCall(n) PROVE IInv'
  BY <1>1, GetmainCallIInv
<1>2. CASE Getmain
  BY <1>2, GetmainSplitIInv, GetmainWholeIInv, GetmainNextIInv, GetmainOomIInv DEF Getmain
<1>3. ASSUME NEW h \in Hdr, NEW n \in Sizes, FreemainCall(h, n) PROVE IInv'
  BY <1>3, FreemainCallIInv
<1>4. CASE Freemain
  BY <1>4, FreemainNextIInv, FreemainLinkIInv DEF Freemain
<1>5. ASSUME NEW h \in live, Fill(h) PROVE IInv'
  BY <1>5, FillIInv
<1>6. CASE UNCHANGED vars
  <2>1. TypeOK'
    BY <1>6 DEF IInv, TypeOK, vars, mem, frame, prog
  <2>2. HeapTiled' /\ FreeListExact'
    BY <1>6 DEF IInv, HeapTiled, FreeListExact, Blocks, EndOf, IsNext, vars, mem, prog
  <2>3. SentinelExact' /\ BlockFitsRequest' /\ WalkInPlace'
    BY <1>6 DEF IInv, SentinelExact, BlockFitsRequest, WalkInPlace, Fits, Blocks,
                vars, mem, frame, prog
  <2>4. QED BY <2>1, <2>2, <2>3 DEF IInv
<1>7. QED BY <1>1, <1>2, <1>3, <1>4, <1>5, <1>6 DEF Next

(* IInv is an invariant of every heap, whatever its address, its size, the *)
(* requests made of it and the bytes the program writes, sentinels         *)
(* included, unless it has FREEMAIN free a header it has forged.           *)
THEOREM HeapInvariant == ASSUME ~Forges PROVE Spec => []IInv
<1>1. IInv /\ [Next]_vars => IInv'
  BY NextIInv
<1>2. QED BY InitIInv, <1>1, PTL DEF Spec

(* Every header word, pointer and local of the two procedures stays in its *)
(* range: no walk ever follows a pointer out of the buffer.                *)
THEOREM HeapTypeOK == ASSUME ~Forges PROVE Spec => []TypeOK
<1>1. IInv => TypeOK
  BY DEF IInv
<1>2. QED BY HeapInvariant, <1>1, PTL

(* The blocks of _PLSW_GETMAIN / _PLSW_FREEMAIN always tile the buffer:    *)
(* none overlaps another and no byte is lost.                              *)
THEOREM HeapSafe == ASSUME ~Forges PROVE Spec => []HeapTiled
<1>1. IInv => HeapTiled
  BY DEF IInv
<1>2. QED BY HeapInvariant, <1>1, PTL

(* The next words in memory always thread exactly the free blocks, in      *)
(* address order, from _PLSW_FREE_HEAD on.                                 *)
THEOREM HeapFreeList == ASSUME ~Forges PROVE Spec => []FreeListExact
<1>1. IInv => FreeListExact
  BY DEF IInv
<1>2. QED BY HeapInvariant, <1>1, PTL

(* The double-free check of _PLSW_FREEMAIN is right at the start of every  *)
(* block, and wherever a header once was: no grant, split, merge or free   *)
(* leaves a sentinel behind.  What reads as one and is none is made of the *)
(* program's own bytes, at an address where no block starts.               *)
THEOREM HeapSentinel == ASSUME ~Forges PROVE Spec => []SentinelExact
<1>1. IInv => SentinelExact
  BY DEF IInv
<1>2. QED BY HeapInvariant, <1>1, PTL

(* _PLSW_GETMAIN answers "out of memory" only when no free block would do. *)
THEOREM HeapOomIsHonest == ASSUME ~Forges PROVE Spec => OomIsHonest
<1>1. ASSUME IInv, [Next]_vars, rc' = 4, pc # "idle"
      PROVE  \A h \in free : ~Fits(h)
  <2>1. CASE GetmainOom
    <3>1. pc = "getWalk" /\ IsNext(0, prev) /\ prev \in Nat
      <4>1. pc = "getWalk" /\ curr = 0
        BY <2>1 DEF GetmainOom
      <4>2. IsNext(curr, prev)
        BY <1>1, <4>1, WalkNeighbours
      <4>3. prev \in Nat
        BY <1>1, HeapAssumption DEF IInv, TypeOK, Hdr
      <4>4. QED BY <4>1, <4>2, <4>3
    <3>2. \A g \in free : g <= prev
      BY <3>1, HeapAssumption DEF IsNext, IInv, TypeOK, Hdr
    <3>3. QED BY <1>1, <3>1, <3>2 DEF IInv, WalkInPlace
  <2>2. CASE UNCHANGED vars \/ GetmainNext \/ FreemainNext
    BY <1>1, <2>2 DEF vars, GetmainNext, FreemainNext, IInv, WalkInPlace, TypeOK
  <2>3. QED
    BY <1>1, <2>1, <2>2
       DEF Next, Getmain, Freemain, GetmainSplit, GetmainWhole, GetReturn, GetmainCall,
           FreemainCall, FreemainLink, Fill
<1>2. IInv /\ [Next]_vars => [rc' = 4 /\ pc # "idle" => \A h \in free : ~Fits(h)]_vars
  BY <1>1
<1>3. QED BY HeapInvariant, <1>2, PTL DEF Spec, OomIsHonest

-----------------------------------------------------------------------------
(* Refinement *)

(* An allocation adds the extent of CURR, apart from all the others.       *)
LEMMA GrantIsAllocate ==
  ASSUME IInv, IInv', NEW c, c = curr, c \in free, live' = live \cup {c},
         \A h \in live : bsize'[h] = bsize[h],
         EndOf(c)' <= HeapEnd, EndOf(c)' > c,
         \A h \in live : h > c => h >= EndOf(c)'
  PROVE  \E e \in Owned' : Contract!Allocate(e)
<1> DEFINE e == [lo |-> c, hi |-> EndOf(c)' - 1]
<1>1. /\ c \in Hdr /\ c \in Nat /\ bsize'[c] \in Nat
      /\ c \notin live /\ c \in Blocks
  BY HeapAssumption DEF IInv, TypeOK, HeapTiled, Hdr, Blocks
<1>2. e \in Contract!Extents /\ e.lo <= e.hi
  BY <1>1, HeapAssumption DEF Contract!Extents, Hdr, EndOf
<1>3. \A h \in live : EndOf(h)' = EndOf(h)
  BY DEF EndOf
<1>4. Owned' = Owned \cup {e}
  <2>1. Owned' = {[lo |-> h, hi |-> EndOf(h)' - 1] : h \in live'}
    BY DEF Owned
  <2>2. {[lo |-> h, hi |-> EndOf(h)' - 1] : h \in live} = Owned
    BY <1>3 DEF Owned
  <2>3. {[lo |-> h, hi |-> EndOf(h)' - 1] : h \in live \cup {c}}
        = {[lo |-> h, hi |-> EndOf(h)' - 1] : h \in live} \cup {e}
    OBVIOUS
  <2>4. QED BY <2>1, <2>2, <2>3
<1>5. ASSUME NEW d \in Owned PROVE Contract!Apart(d, e)
  <2>1. PICK h \in live : d = [lo |-> h, hi |-> EndOf(h) - 1]
    BY DEF Owned
  <2>2. h \in Blocks /\ h # c /\ h \in Nat /\ EndOf(h) \in Nat
    <3>1. h \in Blocks /\ h # c
      BY <1>1 DEF Blocks
    <3>2. h \in Nat /\ bsize[h] \in Nat
      BY <3>1, BlockInside DEF IInv
    <3>3. QED BY <3>1, <3>2 DEF EndOf
  <2>3. CASE h < c
    <3>1. EndOf(h) <= c
      BY <1>1, <2>2, <2>3 DEF IInv, HeapTiled
    <3>2. QED BY <1>1, <2>1, <2>2, <3>1 DEF Contract!Apart
  <2>4. CASE h > c
    BY <1>1, <2>1, <2>2, <2>4 DEF Contract!Apart, EndOf
  <2>5. QED BY <1>1, <2>2, <2>3, <2>4
<1>6. Contract!Allocate(e)
  BY <1>2, <1>4, <1>5 DEF Contract!Allocate
<1>7. e \in Owned'
  BY <1>4
<1>8. QED BY <1>6, <1>7

LEMMA SplitAllocates ==
  ASSUME IInv, IInv', GetmainSplit PROVE Contract!Next
<1> USE DEF GetmainSplit, GetReturn
<1>1. /\ curr \in free /\ curr \in Blocks /\ curr \in Hdr /\ curr \in Nat
      /\ needed \in Nat /\ needed >= HeaderSize /\ bsize[curr] \in Nat
      /\ bsize[curr] >= needed + HeaderSize + 1 /\ EndOf(curr) <= HeapEnd
      /\ \A h \in Blocks : h > curr => h >= curr + bsize[curr]
  BY WalkNeighbours, BlockInside, BlocksApart, HeapAssumption
     DEF IInv, Blocks, TypeOK, WalkInPlace, Splits, Hdr
<1>2. curr + needed \in Hdr
  BY <1>1, HeapAssumption DEF Hdr, EndOf
<1>3. PICK c : c = curr
  OBVIOUS
<1>4. bsize'[c] = needed
  BY <1>1, <1>2, <1>3 DEF IInv, TypeOK
<1>5. \A h \in live : h # curr /\ h # curr + needed
  BY <1>1 DEF IInv, HeapTiled, Blocks
<1>6. \A h \in live : bsize'[h] = bsize[h]
  BY <1>1, <1>2, <1>5 DEF IInv, TypeOK
<1>7. \A h \in live : h > c => h >= EndOf(c)'
  <2>1. EndOf(c)' = curr + needed
    BY <1>3, <1>4 DEF EndOf
  <2>2. \A h \in live : h \in Blocks /\ h \in Nat
    BY BlockInside DEF Blocks, IInv
  <2>3. QED BY <1>1, <1>3, <2>1, <2>2
<1>8. EndOf(c)' <= HeapEnd /\ EndOf(c)' > c
  BY <1>1, <1>3, <1>4, HeapAssumption DEF EndOf
<1>9. QED BY <1>1, <1>3, <1>6, <1>7, <1>8, GrantIsAllocate DEF Contract!Next

LEMMA WholeAllocates ==
  ASSUME IInv, IInv', GetmainWhole PROVE Contract!Next
<1> USE DEF GetmainWhole, GetReturn
<1>1. /\ curr \in free /\ curr \in Blocks /\ curr \in Nat /\ bsize[curr] \in Nat
      /\ bsize[curr] >= HeaderSize /\ EndOf(curr) <= HeapEnd
      /\ \A h \in Blocks : h > curr => h >= curr + bsize[curr]
  BY WalkNeighbours, BlockInside, BlocksApart, HeapAssumption
     DEF IInv, Blocks, TypeOK, HeapTiled, Hdr
<1>2. PICK c : c = curr
  OBVIOUS
<1>3. \A h \in live : h > c => h >= EndOf(c)'
  BY <1>1, <1>2 DEF EndOf, Blocks
<1>4. EndOf(c)' <= HeapEnd /\ EndOf(c)' > c
  BY <1>1, <1>2 DEF EndOf
<1>5. QED BY <1>1, <1>2, <1>3, <1>4, GrantIsAllocate DEF Contract!Next

LEMMA LinkReleases ==
  ASSUME IInv, FreemainLink PROVE Contract!Next
<1> USE DEF FreemainLink
<1>1. PICK b : b = block
  OBVIOUS
<1>2. b \in live /\ b \in Hdr /\ live' = live \ {b}
  BY <1>1 DEF IInv, WalkInPlace, TypeOK
<1>3. \A h \in live \ {b} : EndOf(h)' = EndOf(h)
  BY <1>1, <1>2 DEF IInv, TypeOK, EndOf
<1> DEFINE e == [lo |-> b, hi |-> EndOf(b) - 1]
<1>4. Owned' = {[lo |-> h, hi |-> EndOf(h) - 1] : h \in live \ {b}}
  BY <1>2, <1>3 DEF Owned
<1>5. Owned' = Owned \ {e}
  BY <1>2, <1>4 DEF Owned
<1>6. e \in Owned
  BY <1>2 DEF Owned
<1>7. QED BY <1>5, <1>6 DEF Contract!Next, Contract!Release

(* Every step of the heap is an allocation, a release, or changes nothing  *)
(* the program can see.                                                    *)
THEOREM HeapImplementsContract == ASSUME ~Forges PROVE Spec => ImplementsContract
<1>1. Init => Contract!Init
  BY DEF Init, Contract!Init, Owned
<1>2. IInv /\ IInv' /\ [Next]_vars => [Contract!Next]_Owned
  <2> SUFFICES ASSUME IInv, IInv', [Next]_vars PROVE [Contract!Next]_Owned
    OBVIOUS
  <2>1. CASE GetmainSplit
    BY <2>1, SplitAllocates
  <2>2. CASE GetmainWhole
    BY <2>2, WholeAllocates
  <2>3. CASE FreemainLink
    BY <2>3, LinkReleases
  <2>4. CASE UNCHANGED <<bsize, live>>
    BY <2>4 DEF Owned, EndOf
  <2>5. CASE live = {} /\ live' = {}
    BY <2>5 DEF Owned
  <2>6. ASSUME NEW n \in Sizes, GetmainCall(n)
        PROVE  UNCHANGED <<bsize, live>> \/ (live = {} /\ live' = {})
    BY <2>6 DEF GetmainCall, prog, IInv, HeapTiled, Blocks
  <2>7. QED
    BY <2>1, <2>2, <2>3, <2>4, <2>5, <2>6
       DEF Next, Getmain, Freemain, GetmainNext, GetmainOom, FreemainCall,
           FreemainNext, Fill, vars, mem, prog
<1>3. QED BY HeapInvariant, <1>1, <1>2, PTL DEF Spec, ImplementsContract, Contract!Spec

-----------------------------------------------------------------------------
(* Freeing in reverse order *)

(* While every free was of the youngest block, the blocks owned lie in the *)
(* order they were granted in, and one free block at most lies above them. *)
Ascending(s) == \A i, j \in 1..Len(s) : i < j => s[i] < s[j]
Stacked ==
  /\ order \in Seq(Hdr) /\ Ascending(order)
  /\ live = {order[i] : i \in 1..Len(order)}
  /\ \A g \in free : \A h \in live : h < g
  /\ \A g, h \in free : g = h
LifoShape == lifo => Stacked

(* The history variables only watch: HeapLifo behaves as Heap does.        *)
THEOREM LifoIsHeap == LifoSpec => Spec
<1>1. LifoInit => Init
  BY DEF LifoInit
<1>2. [LifoNext]_<<vars, lifo, order>> => [Next]_vars
  BY DEF LifoNext, Next, Granted, Freed, Getmain, Freemain
<1>3. QED BY <1>1, <1>2, PTL DEF LifoSpec, Spec

LEMMA GrantedShape ==
  ASSUME IInv, LifoShape, Granted
  PROVE  LifoShape'
<1> SUFFICES ASSUME lifo' PROVE Stacked'
  BY DEF LifoShape
<1>1. lifo /\ Stacked
  BY DEF Granted, LifoShape
<1> USE DEF Stacked
<1>2. /\ curr \in free /\ curr \in Hdr /\ curr \in Nat /\ needed \in Nat /\ needed > 0
  <2>1. pc = "getWalk" /\ curr # 0
    BY DEF Granted, GetmainSplit, GetmainWhole
  <2>2. curr \in free /\ needed >= HeaderSize
    BY <2>1, WalkNeighbours DEF IInv, WalkInPlace
  <2>3. QED BY <2>2, HeapAssumption DEF IInv, TypeOK, Hdr
<1>3. order' = Append(order, curr) /\ live' = live \cup {curr}
  BY <1>1 DEF Granted, GetmainSplit, GetmainWhole, GetReturn
<1>4. free' = {} \/ free' = {curr + needed}
  BY <1>1, <1>2 DEF Granted, GetmainSplit, GetmainWhole
<1>5. \A h \in live' : h <= curr /\ h \in Nat
  <2>1. \A h \in live : h < curr /\ h \in Nat
    BY SMTT(60), <1>1, <1>2, HeapAssumption DEF IInv, TypeOK, Hdr
  <2>2. QED BY <1>2, <1>3, <2>1
<1>6. order' \in Seq(Hdr) /\ Len(order') = Len(order) + 1 /\ Len(order) \in Nat
      /\ order'[Len(order) + 1] = curr
      /\ \A i \in 1..Len(order) : order'[i] = order[i]
  BY <1>1, <1>2, <1>3
<1>7. Ascending(order')
  BY <1>1, <1>2, <1>6 DEF Ascending
<1>8. live' = {order'[i] : i \in 1..Len(order')}
  BY <1>1, <1>3, <1>6
<1>9. (\A g \in free' : \A h \in live' : h < g) /\ (\A g, h \in free' : g = h)
  BY <1>2, <1>4, <1>5
<1>10. QED BY <1>6, <1>7, <1>8, <1>9

(* The youngest block ends where the free block starts: they coalesce.     *)
LEMMA FreedShape ==
  ASSUME IInv, LifoShape, Freed
  PROVE  LifoShape'
<1> SUFFICES ASSUME lifo' PROVE Stacked'
  BY DEF LifoShape
<1>1. lifo /\ Stacked
  BY DEF Freed, LifoShape
<1> USE DEF Stacked
<1>2. /\ block = Last(order) /\ order' = Front(order) /\ live' = live \ {block}
      /\ pc = "freeWalk" /\ ~Below
  BY DEF Freed, FreemainLink
<1>3. /\ block \in live /\ block \in Hdr /\ block \in Nat /\ block > 0 /\ prev < block
      /\ \A h \in free \cup live : h \in Nat /\ h \in Hdr /\ h > 0
  BY SMTT(60), <1>2, HeapAssumption DEF IInv, TypeOK, WalkInPlace, Hdr
<1> DEFINE n == Len(order)
<1>4. n \in Nat /\ n > 0
  BY <1>1, <1>3
<1>5. block = order[n] /\ order' = SubSeq(order, 1, n - 1)
  BY <1>2 DEF Last, Front
<1>6. order' \in Seq(Hdr) /\ Len(order') = n - 1
      /\ \A i \in 1..(n - 1) : order'[i] = order[i]
  <2>1. n - 1 \in 0..n /\ n - 1 \in Nat
    BY <1>4
  <2>2. \A i \in 1..(n - 1) : i \in 1..n /\ order[i] \in Hdr
    BY <1>1, <1>4
  <2>3. order' = [i \in 1..(n - 1) |-> order[i]]
    BY <1>1, <1>4, <1>5
  <2>4. QED BY <2>1, <2>2, <2>3
<1>7. Ascending(order')
  BY <1>1, <1>4, <1>6 DEF Ascending
<1>8. \A i \in 1..(n - 1) : order[i] < block
  BY <1>1, <1>4, <1>5 DEF Ascending
<1>9. live' = {order'[i] : i \in 1..Len(order')}
  <2>1. live' = {order[i] : i \in 1..n} \ {order[n]}
    BY <1>1, <1>2, <1>5
  <2>2. \A i \in 1..(n - 1) : order[i] # order[n] /\ i \in 1..n
    BY <1>1, <1>3, <1>4, <1>5, <1>8
  <2>3. \A i \in 1..n : i = n \/ i \in 1..(n - 1)
    BY <1>4
  <2>4. live' = {order[i] : i \in 1..(n - 1)}
    BY <2>1, <2>2, <2>3
  <2>5. QED BY <1>6, <2>4
<1>10. \A h \in live' : h < block /\ h \in Nat
  <2>1. live' \subseteq live
    BY <1>2
  <2>2. QED BY <1>3, <1>6, <1>8, <1>9, <2>1
<1>11. free' = {block}
  <2>1. prev = 0
    BY <1>1, <1>2, <1>3, WalkNeighbours DEF IInv
  <2>2. CASE free = {}
    BY <2>1, <2>2, <1>2, WalkNeighbours DEF Freed, FreemainLink, Touches, IsNext
  <2>3. CASE free # {}
    <3>0. PICK x : x \in free
      BY <2>3
    <3>1. free = {x}
      BY <1>1, <3>0
    <3>2. curr = x
      BY <1>2, <1>3, <2>1, <3>1, WalkNeighbours DEF IsNext
    <3>3. block \in Blocks /\ bsize[block] \in Nat /\ bsize[block] >= HeaderSize
          /\ block < x /\ EndOf(block) <= x
      BY <1>1, <1>3, <3>1 DEF IInv, TypeOK, Blocks, HeapTiled
    <3>4. \A h \in live : h <= block
      BY <1>2, <1>3, <1>10
    <3>5. EndOf(block) \notin live /\ EndOf(block) # HeapEnd
      BY <1>3, <3>1, <3>3, <3>4, HeapAssumption DEF EndOf, Hdr
    <3>6. EndOf(block) = x
      BY <3>1, <3>3, <3>5 DEF IInv, HeapTiled, Blocks
    <3>7. Touches
      BY <1>3, <3>1, <3>2, <3>6 DEF Touches, EndOf
    <3>8. QED BY <3>1, <3>2, <3>7 DEF Freed, FreemainLink
  <2>4. QED BY <2>2, <2>3
<1>12. QED BY <1>6, <1>7, <1>9, <1>10, <1>11

LEMMA LifoNextShape ==
  IInv /\ LifoShape /\ [LifoNext]_<<vars, lifo, order>> => LifoShape'
<1> SUFFICES ASSUME IInv, LifoShape, [LifoNext]_<<vars, lifo, order>>
             PROVE  LifoShape'
  OBVIOUS
<1>1. CASE UNCHANGED <<free, live, lifo, order>>
  BY <1>1 DEF LifoShape, Stacked, Ascending
<1>2. ASSUME NEW m \in Sizes, GetmainCall(m), UNCHANGED <<lifo, order>>
      PROVE  LifoShape'
  <2>1. CASE ~initDone
    <3>1. live' = {} /\ live = {} /\ free' = {Base}
      BY <1>2, <2>1 DEF GetmainCall, prog, IInv, HeapTiled, Blocks
    <3>2. QED BY <1>2, <3>1 DEF LifoShape, Stacked, Ascending
  <2>2. CASE initDone
    BY <1>1, <1>2, <2>2 DEF GetmainCall, prog
  <2>3. QED BY <2>1, <2>2
<1>3. QED
  BY <1>1, <1>2, GrantedShape, FreedShape
     DEF LifoNext, GetmainNext, GetmainOom, FreemainCall, FreemainNext, Fill, vars, prog

(* A program that frees in the reverse of the order it allocates in keeps  *)
(* the free memory in one piece, though _PLSW_FREEMAIN coalesces forward   *)
(* only.                                                                   *)
THEOREM LifoKeepsWhole == ASSUME ~Forges PROVE LifoSpec => []LifoStaysWhole
<1>1. LifoInit => LifoShape
  BY DEF LifoInit, Init, LifoShape, Stacked, Ascending
<1>2. LifoShape => LifoStaysWhole
  <2> SUFFICES ASSUME LifoShape, lifo PROVE Cardinality(free) <= 1
    BY DEF LifoStaysWhole
  <2>1. CASE free = {}
    BY <2>1, FS_EmptySet
  <2>2. CASE free # {}
    <3>0. PICK x : x \in free
      BY <2>2
    <3>1. free = {x}
      BY <3>0 DEF LifoShape, Stacked
    <3>2. QED BY <3>1, FS_Singleton
  <2>3. QED BY <2>1, <2>2
<1>3. QED BY LifoIsHeap, HeapInvariant, LifoNextShape, <1>1, <1>2, PTL DEF LifoSpec
===============================================================================
