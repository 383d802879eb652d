----------------------------- MODULE AstPoolProofs ----------------------------
(***************************************************************************)
(* For every number and size of chunks: nodes and chunks are never handed  *)
(* out twice nor lost, exhaustion is reported only when it is true, and    *)
(* the tree's links stay among the nodes, siblings in order; and a compile *)
(* that succeeds with chunks to spare has the whole source in its tree.    *)
(***************************************************************************)
EXTENDS AstPool, WellFoundedInduction, FiniteSetTheorems, SequenceTheorems, TLAPS

-----------------------------------------------------------------------------
(* Arithmetic of nd_xxx(i), and induction on sets of numbers.               *)

LEMMA PoolLimits ==
  /\ ChunkMax \in Nat \ {0} /\ PerChunk \in Nat \ {0}
  /\ MaxLines \in Nat \ {0} /\ MaxCompiles \in Nat \ {0}
BY PoolAssumption

LEMMA DivMod ==
  ASSUME NEW i \in Nat
  PROVE  /\ i \div PerChunk \in Nat /\ i % PerChunk \in Slots
         /\ i = (PerChunk * (i \div PerChunk)) + (i % PerChunk)
BY PoolLimits DEF Slots

(* A set of natural numbers has a least element.                           *)
LEMMA NatLeast ==
  ASSUME NEW T, T \subseteq Nat, T # {}
  PROVE  \E m \in T : \A k \in T : m <= k
<1>1. PICK x \in T : \A y \in T : ~ (<<y, x>> \in OpToRel(<, Nat))
  BY NatLessThanWellFounded, WFMin, Zenon
<1>2. ASSUME NEW y \in T PROVE ~ (y < x)
  <2>1. y \in Nat /\ x \in Nat
    OBVIOUS
  <2>2. ~ (<<y, x>> \in OpToRel(<, Nat))
    BY <1>1, Zenon
  <2> QED BY <2>1, <2>2, Zenon DEF OpToRel
<1>3. \A y \in T : y \in Nat /\ x \in Nat /\ ~(y < x)
  BY <1>2, Zenon
<1>4. \A y \in T : x <= y
  BY <1>3, SMT
<1> QED BY <1>4, Zenon

-----------------------------------------------------------------------------
(* One pool *)

Ref(p) == 0 .. p.nodes - 1 \cup {NodeNull}
FieldName == {"left", "right", "next", "ival"}

(* The chunk table and the AST's own: listed once, in use if listed, as    *)
(* many as the nodes need.                                                 *)
Listed(p) ==
  /\ \A c \in Chunks : p.inUse[c] <=> \E i \in 0 .. p.count - 1 : p.chunks[i] = c
  /\ \A i \in 0 .. p.count - 1 : p.chunks[i] \in Chunks
  /\ \A i, j \in 0 .. p.count - 1 : p.chunks[i] = p.chunks[j] => i = j
Enough(p) ==
  /\ p.nodes <= p.count * PerChunk
  /\ p.count = 0 \/ (p.count - 1) * PerChunk < p.nodes
Tables(p) == Listed(p) /\ Enough(p)
Honest(p) == p.exhausted => p.nodes = ChunkMax * PerChunk
Linked(p) == \A i \in 0 .. p.nodes - 1 : LinksOK(p, i)
Sound(p) == p \in Pool /\ Tables(p) /\ Honest(p) /\ Linked(p)

LEMMA PoolTypes ==
  ASSUME NEW p \in Pool
  PROVE  /\ p.inUse \in [Chunks -> BOOLEAN] /\ p.chunks \in [Chunks -> Chunks \cup {NoChunk}]
         /\ p.count \in 0 .. ChunkMax /\ p.nodes \in Nat /\ p.exhausted \in BOOLEAN
         /\ p.mem \in [Chunks -> [Slots -> Node]]
BY DEF Pool

(* The slot of a node, and no other node's.                                *)
LEMMA SlotOf ==
  ASSUME NEW p \in Pool, Tables(p), NEW i \in 0 .. p.nodes - 1
  PROVE  /\ i \div PerChunk \in 0 .. p.count - 1 /\ i % PerChunk \in Slots
         /\ p.chunks[i \div PerChunk] \in Chunks
<1>1. p.count \in Nat /\ p.nodes \in Nat /\ i \in Nat /\ p.nodes <= p.count * PerChunk
  BY PoolTypes DEF Tables, Listed, Enough
<1> DEFINE c == p.count
           d == i \div PerChunk
           m == i % PerChunk
<1>2. d \in Nat /\ m \in Slots /\ m \in Nat /\ i = (PerChunk * d) + m
  BY <1>1, DivMod, PoolLimits DEF Slots
<1> HIDE DEF c, d, m
<1>3. i < c * PerChunk /\ c \in Nat
  BY <1>1, PoolLimits DEF c
<1>4. d < c
  BY <1>2, <1>3, PoolLimits
<1>5. d \in 0 .. c - 1
  BY <1>2, <1>3, <1>4
<1> QED BY <1>2, <1>5 DEF Tables, Listed, Enough, c, d, m

LEMMA SlotsApart ==
  ASSUME NEW p \in Pool, Tables(p), NEW i \in 0 .. p.nodes - 1, NEW j \in 0 .. p.nodes - 1,
         p.chunks[i \div PerChunk] = p.chunks[j \div PerChunk], i % PerChunk = j % PerChunk
  PROVE  i = j
<1>1. i \div PerChunk = j \div PerChunk
  <2>1. i \div PerChunk \in 0 .. p.count - 1 /\ j \div PerChunk \in 0 .. p.count - 1
    BY SlotOf
  <2> QED BY <2>1 DEF Tables, Listed, Enough
<1>2. p.nodes \in Nat /\ i \in Nat /\ j \in Nat
  BY PoolTypes
<1> QED BY <1>1, <1>2, DivMod

LEMMA NodeTypes ==
  ASSUME NEW p \in Pool, Tables(p), NEW i \in 0 .. p.nodes - 1
  PROVE  Get(p, i) \in Node
<1>1. p.mem \in [Chunks -> [Slots -> Node]]
  BY PoolTypes
<1> QED BY <1>1, SlotOf DEF Get

(* A reference is a link: the pool has no more nodes than slots.           *)
LEMMA RefIsLink ==
  ASSUME NEW p \in Pool, Tables(p)
  PROVE  p.nodes <= ChunkMax * PerChunk /\ Ref(p) \subseteq Link
<1>1. p.nodes <= p.count * PerChunk /\ p.count \in 0 .. ChunkMax /\ p.nodes \in Nat
  BY PoolTypes DEF Tables, Enough
<1>2. p.count * PerChunk <= ChunkMax * PerChunk /\ p.count * PerChunk \in Nat
  BY <1>1, PoolLimits
<1>3. ChunkMax * PerChunk \in Nat
  BY PoolLimits
<1>4. p.nodes <= ChunkMax * PerChunk
  BY <1>1, <1>2, <1>3
<1>5. \A k \in 0 .. p.nodes - 1 : k \in Index
  BY <1>1, <1>3, <1>4 DEF Index
<1> QED BY <1>4, <1>5 DEF Ref, Link

(* Writing one field of one slot.                                          *)
LEMMA PutSlot ==
  ASSUME NEW p \in Pool, NEW a \in Chunks, NEW b \in Slots, NEW f \in FieldName, NEW x \in Link
  PROVE  LET q == [p EXCEPT !.mem[a][b] = [@ EXCEPT ![f] = x]] IN
           /\ q \in Pool /\ q.inUse = p.inUse /\ q.chunks = p.chunks /\ q.count = p.count
           /\ q.nodes = p.nodes /\ q.exhausted = p.exhausted
           /\ \A c \in Chunks, s \in Slots :
                q.mem[c][s] = IF c = a /\ s = b THEN [p.mem[a][b] EXCEPT ![f] = x]
                              ELSE p.mem[c][s]
<1>1. p.mem \in [Chunks -> [Slots -> Node]]
  BY PoolTypes
<1> DEFINE n == [p.mem[a][b] EXCEPT ![f] = x]
           mem == [p.mem EXCEPT ![a][b] = n]
           q == [p EXCEPT !.mem = mem]
<1>2. n \in Node
  <2>1. p.mem[a][b] \in Node
    BY <1>1
  <2> QED BY <2>1 DEF Node, FieldName
<1> HIDE DEF n
<1>3. /\ mem \in [Chunks -> [Slots -> Node]]
      /\ \A c \in Chunks, s \in Slots : mem[c][s] = IF c = a /\ s = b THEN n ELSE p.mem[c][s]
  BY <1>1, <1>2
<1> HIDE DEF mem
<1>4. /\ q \in Pool /\ q.inUse = p.inUse /\ q.chunks = p.chunks /\ q.count = p.count
      /\ q.nodes = p.nodes /\ q.exhausted = p.exhausted /\ q.mem = mem
  BY <1>3 DEF Pool
<1>5. [p EXCEPT !.mem[a][b] = [@ EXCEPT ![f] = x]] = q
  BY DEF Pool, mem, n
<1> HIDE DEF q
<1> QED BY <1>3, <1>4, <1>5 DEF n

(* The chunk list, its bound and the latch read only their own fields.     *)
LEMMA ListedSame ==
  ASSUME NEW p, NEW q, q.inUse = p.inUse, q.chunks = p.chunks, q.count = p.count, Listed(p)
  PROVE  Listed(q)
<1>1. \A k \in 0 .. q.count - 1 : q.chunks[k] = p.chunks[k]
  OBVIOUS
<1> QED BY <1>1 DEF Listed

LEMMA EnoughSame ==
  ASSUME NEW p, NEW q, q.count = p.count, q.nodes = p.nodes, Enough(p)
  PROVE  Enough(q)
BY ZenonT(60) DEF Enough

LEMMA HonestSame ==
  ASSUME NEW p, NEW q, q.exhausted = p.exhausted, q.nodes = p.nodes, Honest(p)
  PROVE  Honest(q)
BY ZenonT(60) DEF Honest

(* Writing a link of a node: that field changes and nothing else.          *)
LEMMA PutGets ==
  ASSUME NEW p, Sound(p), NEW i \in 0 .. p.nodes - 1, NEW f \in FieldName, NEW x \in Ref(p)
  PROVE  LET q == Put(p, i, f, x) IN
           /\ q \in Pool /\ Tables(q) /\ Honest(q) /\ q.nodes = p.nodes /\ q.exhausted = p.exhausted
           /\ Get(q, i) = [Get(p, i) EXCEPT ![f] = x]
           /\ \A j \in 0 .. p.nodes - 1 : j # i => Get(q, j) = Get(p, j)
<1> DEFINE a == p.chunks[i \div PerChunk]
           b == i % PerChunk
           q == Put(p, i, f, x)
<1>1. p \in Pool /\ Tables(p) /\ Honest(p)
  BY DEF Sound
<1>2. a \in Chunks /\ b \in Slots
  BY <1>1, SlotOf
<1>3. x \in Link
  BY <1>1, RefIsLink
<1>4. /\ q \in Pool /\ q.inUse = p.inUse /\ q.chunks = p.chunks /\ q.count = p.count
      /\ q.nodes = p.nodes /\ q.exhausted = p.exhausted
      /\ \A c \in Chunks, s \in Slots :
           q.mem[c][s] = IF c = a /\ s = b THEN [p.mem[a][b] EXCEPT ![f] = x] ELSE p.mem[c][s]
  <2> HIDE DEF a, b
  <2>1. q = [p EXCEPT !.mem[a][b] = [@ EXCEPT ![f] = x]]
    BY DEF Put, a, b
  <2> HIDE DEF q
  <2> QED BY SMTT(60), <1>1, <1>2, <1>3, <2>1, PutSlot
<1> HIDE DEF q
<1>5. Tables(q) /\ Honest(q)
  <2>1. q.inUse = p.inUse /\ q.chunks = p.chunks /\ q.count = p.count /\ q.nodes = p.nodes
        /\ q.exhausted = p.exhausted
    BY <1>4
  <2>2. Listed(p) /\ Enough(p) /\ Honest(p)
    BY <1>1 DEF Tables
  <2> QED BY <2>1, <2>2, ListedSame, EnoughSame, HonestSame DEF Tables
<1>6. Get(q, i) = [Get(p, i) EXCEPT ![f] = x]
  BY <1>2, <1>4 DEF Get
<1>7. ASSUME NEW j \in 0 .. p.nodes - 1, j # i PROVE Get(q, j) = Get(p, j)
  <2> DEFINE c == p.chunks[j \div PerChunk]
             s == j % PerChunk
  <2>1. c \in Chunks /\ s \in Slots
    BY <1>1, SlotOf
  <2>2. ~(c = a /\ s = b)
    BY <1>1, <1>7, SlotsApart
  <2>3. Get(q, j) = q.mem[c][s] /\ Get(p, j) = p.mem[c][s]
    BY <1>4 DEF Get
  <2> HIDE DEF c, s, a, b
  <2> QED BY <1>4, <2>1, <2>2, <2>3
<1> QED BY <1>4, <1>5, <1>6, <1>7 DEF q

-----------------------------------------------------------------------------
(* nd_alloc *)

(* chunk_alloc finds a free chunk, the first.                              *)
LEMMA FoundFree ==
  ASSUME NEW p \in Pool
  PROVE  IF FreeChunks(p) = {} THEN ChunkFound(p) = NoChunk ELSE ChunkFound(p) \in FreeChunks(p)
<1>1. FreeChunks(p) \subseteq Nat
  BY PoolLimits DEF FreeChunks, Chunks
<1>2. CASE FreeChunks(p) # {}
  <2> DEFINE F == FreeChunks(p)
  <2>1. PICK m \in F : \A k \in F : m <= k
    BY <1>1, <1>2, NatLeast
  <2> QED BY <1>2, <2>1 DEF ChunkFound
<1> QED BY <1>2 DEF ChunkFound

(* A full chunk table: every chunk is listed.                              *)
LEMMA AllListed ==
  ASSUME NEW p \in Pool, Listed(p), FreeChunks(p) = {}
  PROVE  p.count = ChunkMax
<1>1. p.count \in 0 .. ChunkMax /\ p.count \in Nat
  BY PoolTypes, PoolLimits
<1> DEFINE S == 0 .. p.count - 1
           f == [i \in S |-> p.chunks[i]]
<1>2. f \in Surjection(S, Chunks)
  <2>1. f \in [S -> Chunks]
    BY DEF Listed
  <2>2. \A c \in Chunks : \E i \in S : f[i] = c
    BY DEF Listed, FreeChunks
  <2> QED BY <2>1, <2>2 DEF Surjection
<1>3. IsFiniteSet(S) /\ Cardinality(S) = p.count
  BY SMTT(60), <1>1, FS_Interval
<1>4. Cardinality(Chunks) = ChunkMax
  BY PoolLimits, FS_Interval DEF Chunks
<1> HIDE DEF S, f
<1>5. Cardinality(Chunks) <= Cardinality(S)
  BY <1>2, <1>3, FS_Surjection
<1> QED BY <1>1, <1>3, <1>4, <1>5, PoolLimits

LEMMA NeedsExactly ==
  ASSUME NEW p \in Pool, Tables(p)
  PROVE  /\ NeedsChunk(p) => p.nodes = p.count * PerChunk
         /\ ~NeedsChunk(p) => p.nodes < p.count * PerChunk /\ p.count > 0
<1> DEFINE n == p.nodes
           c == p.count
           d == n \div PerChunk
           m == n % PerChunk
<1>1. c \in Nat /\ n \in Nat /\ n <= c * PerChunk
  BY PoolTypes, PoolLimits DEF Tables, Enough
<1>2. d \in Nat /\ m \in Nat /\ m < PerChunk /\ n = (PerChunk * d) + m
  <2> HIDE DEF n
  <2>1. d \in Nat /\ m \in Slots /\ n = (PerChunk * d) + m
    BY <1>1, DivMod
  <2> QED BY <2>1, PoolLimits DEF Slots
<1>3. NeedsChunk(p) <=> d >= c
  BY DEF NeedsChunk
<1> HIDE DEF n, c, d, m
<1>4. d >= c => n = c * PerChunk
  BY <1>1, <1>2, PoolLimits
<1>5. d < c => n < c * PerChunk /\ c > 0
  <2>1. ASSUME d < c PROVE n < c * PerChunk
    <3>1. d + 1 <= c
      BY <1>1, <1>2, <2>1
    <3>2. (d + 1) * PerChunk <= c * PerChunk
      BY <1>1, <1>2, <3>1, PoolLimits
    <3>3. n < (d + 1) * PerChunk
      BY <1>1, <1>2, PoolLimits
    <3> QED BY <1>1, <1>2, <3>2, <3>3, PoolLimits
  <2> QED BY <1>1, <1>2, <2>1
<1> QED BY <1>1, <1>2, <1>3, <1>4, <1>5 DEF n, c

(* A chunk is taken: marked, and listed last.                              *)
LEMMA ChunkTaken ==
  ASSUME NEW p \in Pool, Listed(p), NEW c \in FreeChunks(p), p.count < ChunkMax
  PROVE  LET g == AddChunk(p, c) IN
           /\ g \in Pool /\ Listed(g) /\ g.count = p.count + 1 /\ g.nodes = p.nodes
           /\ g.mem = p.mem /\ g.exhausted = p.exhausted
           /\ \A i \in 0 .. p.count - 1 : g.chunks[i] = p.chunks[i]
<1> DEFINE inUse == [p.inUse EXCEPT ![c] = TRUE]
           chunks == [p.chunks EXCEPT ![p.count] = c]
           g == AddChunk(p, c)
<1>1. /\ p.count \in Nat /\ p.count \in Chunks /\ c \in Chunks /\ ~p.inUse[c]
      /\ p.inUse \in [Chunks -> BOOLEAN] /\ p.chunks \in [Chunks -> Chunks \cup {NoChunk}]
  BY PoolTypes, PoolLimits DEF FreeChunks, Chunks
<1>2. /\ inUse \in [Chunks -> BOOLEAN] /\ chunks \in [Chunks -> Chunks \cup {NoChunk}]
      /\ \A d \in Chunks : inUse[d] <=> p.inUse[d] \/ d = c
      /\ chunks[p.count] = c /\ \A i \in Chunks : i # p.count => chunks[i] = p.chunks[i]
  BY <1>1
<1> HIDE DEF inUse, chunks
<1>3. /\ g.inUse = inUse /\ g.chunks = chunks /\ g.count = p.count + 1 /\ g.nodes = p.nodes
      /\ g.mem = p.mem /\ g.exhausted = p.exhausted /\ g \in Pool
  <2> DEFINE h == [p EXCEPT !.inUse = inUse, !.chunks = chunks, !.count = p.count + 1]
  <2>1. g = h
    BY DEF AddChunk, Take, Pool, inUse, chunks
  <2>2. p.count + 1 \in 0 .. ChunkMax
    BY <1>1, PoolLimits DEF Chunks
  <2> QED BY <1>2, <2>1, <2>2 DEF Pool
<1> HIDE DEF g
<1>4. \A i \in 0 .. p.count - 1 : i \in Chunks /\ i # p.count /\ g.chunks[i] = p.chunks[i]
  BY <1>1, <1>2, <1>3, PoolLimits DEF Chunks
<1>5. \A i \in 0 .. g.count - 1 : i \in 0 .. p.count - 1 \/ i = p.count
  BY <1>1, <1>3
<1>6. \A i \in 0 .. p.count - 1 : i \in 0 .. g.count - 1
  BY <1>1, <1>3
<1>7. p.count \in 0 .. g.count - 1 /\ g.chunks[p.count] = c
  BY <1>1, <1>2, <1>3
<1>8. \A i \in 0 .. p.count - 1 : p.chunks[i] # c
  BY <1>1 DEF Listed
<1>9. Listed(g)
  <2>1. \A d \in Chunks : g.inUse[d] <=> \E i \in 0 .. g.count - 1 : g.chunks[i] = d
    BY <1>2, <1>3, <1>4, <1>5, <1>6, <1>7 DEF Listed
  <2>2. \A i \in 0 .. g.count - 1 : g.chunks[i] \in Chunks
    BY <1>1, <1>4, <1>5, <1>7 DEF Listed
  <2>3. \A i, j \in 0 .. g.count - 1 : g.chunks[i] = g.chunks[j] => i = j
    BY <1>4, <1>5, <1>7, <1>8 DEF Listed
  <2> QED BY <2>1, <2>2, <2>3 DEF Listed
<1> QED BY <1>3, <1>4, <1>9 DEF g

LEMMA FreshIsNode ==
  ASSUME NEW ln \in 0 .. MaxLines
  PROVE  FreshNode(ln) \in Node
BY DEF FreshNode, Node, Link

(* The next index, in a listed chunk, is handed out with a fresh node.     *)
LEMMA NodeHanded ==
  ASSUME NEW g \in Pool, Listed(g), NEW ln \in 0 .. MaxLines,
         g.nodes < g.count * PerChunk, (g.count - 1) * PerChunk <= g.nodes
  PROVE  LET i == g.nodes
             q == Handed(g, ln) IN
           /\ q \in Pool /\ Tables(q) /\ q.nodes = i + 1 /\ q.exhausted = g.exhausted
           /\ Get(q, i) = FreshNode(ln)
           /\ \A j \in 0 .. i - 1 : Get(q, j) = Get(g, j)
<1> DEFINE i == g.nodes
           a == g.chunks[i \div PerChunk]
           b == i % PerChunk
           mem == [g.mem EXCEPT ![a][b] = FreshNode(ln)]
           q == Handed(g, ln)
<1>1. i \in Nat /\ g.count \in Nat /\ g.mem \in [Chunks -> [Slots -> Node]]
  BY PoolTypes, PoolLimits
<1>2. q = [g EXCEPT !.nodes = i + 1, !.mem = mem]
  BY DEF Pool, Handed
<1>3. /\ q.inUse = g.inUse /\ q.chunks = g.chunks /\ q.count = g.count /\ q.nodes = i + 1
      /\ q.exhausted = g.exhausted /\ q.mem = mem
  BY <1>2 DEF Pool
<1>4. mem \in [Chunks -> [Slots -> Node]]
  <2>1. FreshNode(ln) \in Node
    BY FreshIsNode
  <2> QED BY <1>1, <2>1
<1>5. q \in Pool
  <2>1. i + 1 \in Nat
    BY <1>1
  <2> HIDE DEF mem, q, i
  <2> QED BY <1>2, <1>4, <2>1 DEF Pool
<1> HIDE DEF q
<1>6. Tables(q)
  <2>1. Listed(q)
    BY <1>3, ListedSame
  <2>2. Enough(q)
    <3> DEFINE c == g.count
               e == c * PerChunk
               h == (c - 1) * PerChunk
    <3>1. e \in Int /\ h \in Int /\ i < e /\ h <= i
      BY <1>1, PoolLimits
    <3> HIDE DEF i, e, h
    <3>2. i + 1 <= e /\ h < i + 1
      BY <1>1, <3>1
    <3> QED BY <1>3, <3>2 DEF Enough, e, h
  <2> QED BY <2>1, <2>2 DEF Tables
<1>7. i \in 0 .. q.nodes - 1 /\ \A j \in 0 .. i - 1 : j \in 0 .. q.nodes - 1 /\ j # i
  <2>1. q.nodes = i + 1 /\ i \in Nat
    BY <1>1, <1>3
  <2> HIDE DEF i, a, b, mem
  <2> QED BY <2>1
<1>8. a \in Chunks /\ b \in Slots
  BY <1>3, <1>5, <1>6, <1>7, SlotOf
<1>9. Get(q, i) = FreshNode(ln)
  <2>1. mem[a][b] = FreshNode(ln)
    BY <1>1, <1>8
  <2> QED BY <1>3, <2>1 DEF Get
<1>10. ASSUME NEW j \in 0 .. i - 1 PROVE Get(q, j) = Get(g, j)
  <2> DEFINE c == g.chunks[j \div PerChunk]
             s == j % PerChunk
  <2>1. c \in Chunks /\ s \in Slots
    BY <1>3, <1>5, <1>6, <1>7, SlotOf
  <2>2. ~(c = a /\ s = b)
    BY ZenonT(60), <1>3, <1>5, <1>6, <1>7, SlotsApart
  <2>3. Get(q, j) = mem[c][s] /\ Get(g, j) = g.mem[c][s]
    BY <1>3 DEF Get
  <2> HIDE DEF c, s, a, b
  <2> QED BY <1>1, <1>8, <2>1, <2>2, <2>3
<1> QED BY <1>3, <1>5, <1>6, <1>9, <1>10 DEF q

(* nd_alloc: the next node, fresh, every other as it was; or no node, of a *)
(* pool that is full.                                                      *)
LEMMA AllocGets ==
  ASSUME NEW p, p \in Pool, Tables(p), Honest(p), NEW ln \in 0 .. MaxLines
  PROVE  LET r == NdAlloc(p, ln)
             q == r.pool
         IN  /\ q \in Pool /\ Tables(q) /\ Honest(q)
             /\ \A j \in 0 .. p.nodes - 1 : Get(q, j) = Get(p, j)
             /\ \/ r.node = NodeNull /\ q.nodes = p.nodes /\ q.exhausted
                \/ r.node = p.nodes /\ q.nodes = p.nodes + 1 /\ Get(q, p.nodes) = FreshNode(ln)
<1> DEFINE r == NdAlloc(p, ln)
<1>1. p.nodes \in Nat /\ p.count \in 0 .. ChunkMax /\ p.count \in Nat
  BY PoolTypes, PoolLimits
<1>2. CASE Full(p)
  <2> DEFINE q == [p EXCEPT !.exhausted = TRUE]
  <2>1. r.pool = q /\ r.node = NodeNull
    BY <1>2 DEF NdAlloc
  <2>2. /\ q \in Pool /\ q.inUse = p.inUse /\ q.chunks = p.chunks /\ q.count = p.count
        /\ q.nodes = p.nodes /\ q.mem = p.mem /\ q.exhausted = TRUE
    BY DEF Pool
  <2>3. p.count = ChunkMax
    <3>1. CASE ChunkFound(p) = NoChunk
      <4>1. NoChunk \notin FreeChunks(p)
        BY PoolLimits DEF FreeChunks, Chunks, NoChunk
      <4>2. FreeChunks(p) = {}
        BY <3>1, <4>1, FoundFree
      <4> QED BY <4>2, AllListed DEF Tables
    <3>2. CASE p.count >= ChunkMax
      BY <1>1, <3>2, PoolLimits
    <3> QED BY <1>2, <3>1, <3>2 DEF Full
  <2>4. p.nodes = ChunkMax * PerChunk
    BY <1>2, <2>3, NeedsExactly DEF Full
  <2> HIDE DEF q, r
  <2>5. Tables(q) /\ Honest(q)
    BY <2>2, <2>4 DEF Tables, Listed, Enough, Honest
  <2>6. \A j \in 0 .. p.nodes - 1 : Get(q, j) = Get(p, j)
    BY <2>2 DEF Get
  <2> QED BY <2>1, <2>2, <2>5, <2>6 DEF r
<1>3. CASE ~Full(p)
  <2> DEFINE g == Grown(p)
             q == Handed(g, ln)
  <2>1. r.pool = q /\ r.node = p.nodes
    BY <1>3 DEF NdAlloc
  <2> HIDE DEF q, r, g
  <2>2. /\ g \in Pool /\ Listed(g) /\ g.nodes = p.nodes /\ g.mem = p.mem
        /\ g.exhausted = p.exhausted
        /\ \A k \in 0 .. p.count - 1 : g.chunks[k] = p.chunks[k]
        /\ g.nodes < g.count * PerChunk /\ (g.count - 1) * PerChunk <= g.nodes
    <3>1. CASE NeedsChunk(p)
      <4> DEFINE c == ChunkFound(p)
                 taken == AddChunk(p, c)
      <4>1. g = taken
        BY <3>1 DEF g, Grown
      <4> HIDE DEF taken
      <4>2. c # NoChunk /\ p.count < ChunkMax
        BY <1>1, <1>3, <3>1, PoolLimits DEF Full
      <4>3. c \in FreeChunks(p)
        BY <4>2, FoundFree
      <4> HIDE DEF c
      <4>4. /\ taken \in Pool /\ Listed(taken) /\ taken.count = p.count + 1
            /\ taken.nodes = p.nodes /\ taken.mem = p.mem /\ taken.exhausted = p.exhausted
            /\ \A k \in 0 .. p.count - 1 : taken.chunks[k] = p.chunks[k]
        BY <4>2, <4>3, ChunkTaken DEF Tables, taken
      <4>5. p.nodes = p.count * PerChunk
        BY <3>1, NeedsExactly
      <4>6. p.nodes < (p.count + 1) * PerChunk /\ (p.count + 1) - 1 = p.count
        BY <1>1, <4>5, PoolLimits
      <4>7. g.count - 1 = p.count
        BY <1>1, <4>1, <4>4
      <4>8. g.nodes < g.count * PerChunk /\ (g.count - 1) * PerChunk <= g.nodes
        BY <1>1, <4>1, <4>4, <4>5, <4>6, <4>7
      <4> QED BY <4>1, <4>4, <4>8
    <3>2. CASE ~NeedsChunk(p)
      <4>1. p.nodes < p.count * PerChunk /\ p.count > 0
        BY <3>2, NeedsExactly
      <4>2. (p.count - 1) * PerChunk <= p.nodes
        <5>1. (p.count - 1) * PerChunk \in Int
          BY <1>1, PoolLimits
        <5> QED BY <1>1, <4>1, <5>1 DEF Tables, Enough
      <4>3. g = p
        BY <3>2 DEF g, Grown
      <4> QED BY <4>1, <4>2, <4>3 DEF Tables
    <3> QED BY <3>1, <3>2
  <2>3. /\ q \in Pool /\ Tables(q) /\ q.nodes = p.nodes + 1 /\ q.exhausted = p.exhausted
        /\ Get(q, p.nodes) = FreshNode(ln)
        /\ \A j \in 0 .. p.nodes - 1 : Get(q, j) = Get(g, j)
    BY <2>2, NodeHanded DEF q
  <2>4. \A j \in 0 .. p.nodes - 1 : Get(g, j) = Get(p, j)
    <3> TAKE j \in 0 .. p.nodes - 1
    <3>1. j \div PerChunk \in 0 .. p.count - 1
      BY SlotOf
    <3> QED BY <2>2, <3>1 DEF Get
  <2>5. Honest(q)
    <3>1. ASSUME p.exhausted PROVE FALSE
      <4>1. p.nodes = ChunkMax * PerChunk
        BY <3>1 DEF Honest
      <4>2. g.count \in 0 .. ChunkMax
        BY <2>2, PoolTypes
      <4>3. g.count * PerChunk <= ChunkMax * PerChunk
        BY <4>2, PoolLimits
      <4>4. g.count * PerChunk \in Nat
        BY <4>2, PoolLimits
      <4> QED BY <1>1, <2>2, <4>1, <4>3, <4>4
    <3> QED BY <2>3, <3>1 DEF Honest
  <2> QED BY <2>1, <2>3, <2>4, <2>5 DEF r
<1> QED BY <1>2, <1>3

-----------------------------------------------------------------------------
(* The links of the tree *)

(* q has the nodes of p as they are there, and may have more.              *)
Grows(p, q) ==
  p.nodes <= q.nodes /\ \A j \in 0 .. p.nodes - 1 : Get(q, j) = Get(p, j)

(* No node before b has a sibling at b or after it.                        *)
Closed(p, b) ==
  \A i \in 0 .. b - 1 : Get(p, i).next = NodeNull \/ Get(p, i).next < b

(* A construct of node n was built on p, and is linked to nothing yet.     *)
Built(p, q, n) ==
  /\ Sound(q) /\ Grows(p, q)
  /\ n = NodeNull \/ (n \in p.nodes .. q.nodes - 1 /\ Closed(q, n))

LEMMA RefGrows ==
  ASSUME NEW p \in Pool, NEW q \in Pool, Grows(p, q)
  PROVE  Ref(p) \subseteq Ref(q)
BY PoolTypes DEF Grows, Ref

LEMMA LinkRanges ==
  ASSUME NEW p, Sound(p), NEW i \in 0 .. p.nodes - 1
  PROVE  /\ Get(p, i).left \in Ref(p) /\ Get(p, i).right \in Ref(p)
         /\ Get(p, i).ival \in Ref(p) /\ Get(p, i).next \in Ref(p)
         /\ Get(p, i).next = NodeNull \/ i < Get(p, i).next
BY DEF Sound, Linked, LinksOK, Ref

LEMMA AllocSound ==
  ASSUME NEW p, Sound(p), NEW ln \in 0 .. MaxLines
  PROVE  LET r == NdAlloc(p, ln) IN
           /\ Built(p, r.pool, r.node)
           /\ r.node = NodeNull => r.pool.exhausted
           /\ r.node # NodeNull => Get(r.pool, r.node).left = NodeNull
<1> DEFINE r == NdAlloc(p, ln)
           q == r.pool
<1>1. /\ q \in Pool /\ Tables(q) /\ Honest(q)
      /\ \A j \in 0 .. p.nodes - 1 : Get(q, j) = Get(p, j)
      /\ \/ r.node = NodeNull /\ q.nodes = p.nodes /\ q.exhausted
         \/ r.node = p.nodes /\ q.nodes = p.nodes + 1 /\ Get(q, p.nodes) = FreshNode(ln)
  BY AllocGets DEF Sound
<1>2. p.nodes \in Nat /\ p \in Pool
  BY PoolTypes DEF Sound
<1> HIDE DEF q, r
<1>3. Grows(p, q)
  BY <1>1, <1>2 DEF Grows
<1>4. Linked(q)
  <2>1. ASSUME NEW i \in 0 .. p.nodes - 1 PROVE LinksOK(q, i)
    <3>1. LinksOK(p, i) /\ Get(q, i) = Get(p, i)
      BY <1>1 DEF Sound, Linked
    <3>2. Ref(p) \subseteq Ref(q)
      BY <1>1, <1>2, <1>3, RefGrows
    <3> QED BY <3>1, <3>2 DEF LinksOK, Ref
  <2>2. ASSUME Get(q, p.nodes) = FreshNode(ln) PROVE LinksOK(q, p.nodes)
    BY <2>2 DEF LinksOK, FreshNode
  <2>3. ASSUME NEW i \in 0 .. q.nodes - 1
        PROVE  i \in 0 .. p.nodes - 1 \/ (i = p.nodes /\ Get(q, p.nodes) = FreshNode(ln))
    BY <1>1, <1>2
  <2> QED BY <2>1, <2>2, <2>3 DEF Linked
<1>5. r.node # NodeNull => Closed(q, r.node)
  <2>1. \A i \in 0 .. p.nodes - 1 : Get(q, i).next = NodeNull \/ Get(q, i).next < p.nodes
    <3> TAKE i \in 0 .. p.nodes - 1
    <3>1. Get(p, i).next \in Ref(p) /\ Get(q, i) = Get(p, i)
      BY <1>1, LinkRanges
    <3> QED BY <1>2, <3>1 DEF Ref
  <2> QED BY <1>1, <2>1 DEF Closed
<1>6. r.node # NodeNull => r.node \in p.nodes .. q.nodes - 1 /\ Get(q, r.node).left = NodeNull
  BY <1>1, <1>2 DEF FreshNode
<1>7. Sound(q)
  BY <1>1, <1>4 DEF Sound
<1>8. Built(p, q, r.node)
  BY <1>3, <1>5, <1>6, <1>7 DEF Built
<1>9. r.node = NodeNull => q.exhausted
  <2>1. p.nodes # NodeNull
    BY <1>2 DEF NodeNull
  <2> QED BY <1>1, <2>1
<1> QED BY <1>6, <1>8, <1>9 DEF q, r

(* Writing a link to a node, to a later one if it is a sibling's.          *)
LEMMA PutSound ==
  ASSUME NEW p, Sound(p), NEW i \in 0 .. p.nodes - 1, NEW f \in FieldName, NEW x \in Ref(p),
         f = "next" => x = NodeNull \/ i < x
  PROVE  Sound(Put(p, i, f, x))
<1> DEFINE q == Put(p, i, f, x)
<1>1. /\ q \in Pool /\ Tables(q) /\ Honest(q) /\ q.nodes = p.nodes
      /\ Get(q, i) = [Get(p, i) EXCEPT ![f] = x]
      /\ \A j \in 0 .. p.nodes - 1 : j # i => Get(q, j) = Get(p, j)
  BY PutGets
<1> HIDE DEF q
<1>2. LinksOK(q, i)
  <2>1. Get(p, i) \in Node
    BY NodeTypes DEF Sound
  <2>2. LinksOK(p, i)
    BY DEF Sound, Linked
  <2> DEFINE m == Get(p, i)
             n == Get(q, i)
  <2>3. /\ n.left = IF f = "left" THEN x ELSE m.left
        /\ n.right = IF f = "right" THEN x ELSE m.right
        /\ n.ival = IF f = "ival" THEN x ELSE m.ival
        /\ n.next = IF f = "next" THEN x ELSE m.next
    BY <1>1, <2>1 DEF Node, FieldName
  <2> QED BY <1>1, <2>2, <2>3 DEF LinksOK, Ref
<1>3. \A j \in 0 .. p.nodes - 1 : j # i => LinksOK(q, j)
  BY <1>1 DEF Sound, Linked, LinksOK
<1>4. Linked(q)
  BY <1>1, <1>2, <1>3 DEF Linked
<1> QED BY <1>1, <1>4 DEF Sound, q

(* More nodes than the construct's, or a link of its own node but next.    *)
LEMMA BuiltGrows ==
  ASSUME NEW p \in Pool, NEW q, NEW n, Built(p, q, n), NEW r, Sound(r), Grows(q, r)
  PROVE  Built(p, r, n)
<1>1. p.nodes \in Nat /\ q.nodes \in Nat /\ r.nodes \in Nat
  BY PoolTypes DEF Built, Sound
<1>2. Grows(p, r)
  BY <1>1 DEF Built, Grows
<1>3. ASSUME n # NodeNull PROVE n \in p.nodes .. r.nodes - 1 /\ Closed(r, n)
  <2>1. n \in p.nodes .. q.nodes - 1 /\ Closed(q, n) /\ q.nodes <= r.nodes
    BY <1>3 DEF Built, Grows
  <2>2. n \in p.nodes .. r.nodes - 1 /\ \A i \in 0 .. n - 1 : i \in 0 .. q.nodes - 1
    BY <1>1, <2>1
  <2>3. \A i \in 0 .. n - 1 : Get(r, i) = Get(q, i)
    BY <2>2 DEF Grows
  <2> QED BY <2>1, <2>2, <2>3 DEF Closed
<1> QED BY <1>2, <1>3 DEF Built

LEMMA BuiltSet ==
  ASSUME NEW p \in Pool, NEW q, NEW n, Built(p, q, n),
         NEW f \in FieldName \ {"next"}, NEW x \in Ref(q)
  PROVE  LET r == SetIf(q, n, f, x) IN Built(p, r, n) /\ r.nodes = q.nodes
<1>1. CASE n = NodeNull
  BY <1>1 DEF SetIf
<1>2. CASE n # NodeNull
  <2> DEFINE r == Put(q, n, f, x)
  <2>1. /\ Sound(q) /\ p.nodes \in Nat /\ q.nodes \in Nat /\ n \in p.nodes .. q.nodes - 1
        /\ n \in 0 .. q.nodes - 1 /\ Closed(q, n) /\ Grows(p, q)
    BY <1>2, PoolTypes DEF Built, Sound
  <2>2. /\ Sound(r) /\ r.nodes = q.nodes
        /\ \A j \in 0 .. q.nodes - 1 : j # n => Get(r, j) = Get(q, j)
    BY <2>1, PutGets, PutSound DEF FieldName
  <2> HIDE DEF r
  <2>3. \A j \in 0 .. n - 1 : Get(r, j) = Get(q, j)
    BY <2>1, <2>2
  <2>4. Closed(r, n)
    BY <2>1, <2>3 DEF Closed
  <2>5. Grows(p, r)
    BY <2>1, <2>2, <2>3 DEF Grows
  <2>6. Built(p, r, n)
    BY <2>1, <2>2, <2>4, <2>5 DEF Built
  <2> QED BY <1>2, <2>2, <2>6 DEF SetIf, r
<1> QED BY <1>1, <1>2

-----------------------------------------------------------------------------
(* nd_append *)

(* A step repeated n times: the values it goes through.                    *)
Iterates(f, I, first, step, n) ==
  f \in [0 .. n -> I] /\ f[0] = first /\ \A k \in 1 .. n : f[k] = step[f[k - 1]]

LEMMA Iterated ==
  ASSUME NEW I, NEW first, first \in I, NEW step, step \in [I -> I], NEW n \in Nat
  PROVE  \E f : Iterates(f, I, first, step, n)
<1> DEFINE Good(m) == \E f : Iterates(f, I, first, step, m)
           T == {m \in Nat : ~Good(m)}
<1>1. SUFFICES ASSUME T # {} PROVE FALSE
  OBVIOUS
<1>2. PICK m \in T : \A k \in T : m <= k
  <2>1. T \subseteq Nat
    OBVIOUS
  <2> HIDE DEF T
  <2> QED BY <1>1, <2>1, NatLeast
<1>3. m \in Nat /\ ~Good(m) /\ \A k \in Nat : ~Good(k) => m <= k
  BY <1>2
<1>4. CASE m = 0
  <2> DEFINE f == [k \in 0 .. 0 |-> first]
  <2>1. Iterates(f, I, first, step, 0)
    BY DEF Iterates
  <2> HIDE DEF f
  <2>2. Good(0)
    BY <2>1
  <2> QED BY <1>3, <1>4, <2>2
<1>5. CASE m # 0
  <2>1. m - 1 \in Nat /\ Good(m - 1)
    <3>1. m - 1 \in Nat /\ ~(m <= m - 1)
      BY <1>3, <1>5
    <3> HIDE DEF Good
    <3> QED BY <1>3, <3>1
  <2>2. PICK g : Iterates(g, I, first, step, m - 1)
    BY <2>1
  <2> DEFINE f == [k \in 0 .. m |-> IF k = m THEN step[g[m - 1]] ELSE g[k]]
  <2>3. Iterates(f, I, first, step, m)
    BY <1>3, <2>1, <2>2 DEF Iterates
  <2> HIDE DEF f
  <2>4. Good(m)
    BY <2>3
  <2> QED BY <1>3, <2>4
<1> QED BY <1>4, <1>5

(* The walk along the siblings, and that it stays before b.                *)
LEMMA WalkSteps ==
  ASSUME NEW p, Sound(p), NEW b \in 0 .. p.nodes, Closed(p, b), NEW first \in 0 .. b - 1
  PROVE  LET at == SiblingWalk(p, first) IN
           /\ at[0] = first /\ \A k \in 1 .. p.nodes : at[k] = NextSibling(p, at[k - 1])
           /\ \A k \in 0 .. p.nodes : at[k] \in first .. b - 1
<1> DEFINE n == p.nodes
           I == first .. b - 1
           step == [i \in I |-> NextSibling(p, i)]
           Walk(f) == f = [k \in 0 .. n |-> IF k = 0 THEN first ELSE NextSibling(p, f[k - 1])]
           at == SiblingWalk(p, first)
<1>1. n \in Nat /\ first \in I /\ b \in Nat /\ first \in Nat
  BY PoolTypes DEF Sound
<1>2. ASSUME NEW i \in I PROVE NextSibling(p, i) \in I
  <2>1. i \in 0 .. p.nodes - 1 /\ i \in 0 .. b - 1 /\ first <= i
    BY <1>1
  <2>2. Get(p, i).next \in Ref(p) /\ (Get(p, i).next = NodeNull \/ i < Get(p, i).next)
    BY <2>1, LinkRanges
  <2>3. Get(p, i).next = NodeNull \/ Get(p, i).next < b
    BY <2>1 DEF Closed
  <2> QED BY <1>1, <2>1, <2>2, <2>3 DEF NextSibling, Ref
<1>3. step \in [I -> I]
  BY <1>2
<1>4. PICK f : Iterates(f, I, first, step, n)
  <2> HIDE DEF step, I, n
  <2> QED BY <1>1, <1>3, Iterated
<1>5. Walk(f)
  <2> HIDE DEF I, n
  <2>1. \A k \in 1 .. n : k - 1 \in 0 .. n /\ f[k - 1] \in I
    BY <1>1, <1>4 DEF Iterates
  <2>2. \A k \in 1 .. n : f[k] = NextSibling(p, f[k - 1])
    BY <1>4, <2>1 DEF Iterates
  <2>3. \A k \in 0 .. n : k = 0 \/ k \in 1 .. n
    BY <1>1
  <2> HIDE DEF step
  <2> QED BY <1>4, <2>2, <2>3 DEF Iterates
<1>6. at = CHOOSE h : Walk(h)
  BY DEF SiblingWalk
<1>7. Walk(at)
  <2> HIDE DEF Walk, at
  <2> QED BY <1>5, <1>6
<1> HIDE DEF at
<1>8. at[0] = first /\ \A k \in 1 .. n : at[k] = NextSibling(p, at[k - 1])
  <2> HIDE DEF n
  <2>1. 0 \in 0 .. n /\ \A k \in 1 .. n : k \in 0 .. n /\ k # 0
    BY <1>1
  <2> QED BY <1>7, <2>1
<1> DEFINE T == {k \in 0 .. n : at[k] \notin I}
<1>9. T = {}
  <2> SUFFICES ASSUME T # {} PROVE FALSE
    OBVIOUS
  <2>1. PICK m \in T : \A k \in T : m <= k
    <3>1. T \subseteq Nat
      BY <1>1
    <3> HIDE DEF T
    <3> QED BY <3>1, NatLeast
  <2>2. m \in 1 .. n /\ m - 1 \in 0 .. n /\ ~(m <= m - 1)
    <3>1. m \in 0 .. n /\ at[m] \notin I
      BY <2>1
    <3>2. m # 0
      BY <1>1, <1>8, <3>1
    <3> HIDE DEF n
    <3> QED BY <1>1, <3>1, <3>2
  <2>3. at[m - 1] \in I
    <3> HIDE DEF I, n
    <3> QED BY <2>1, <2>2
  <2>4. at[m] \in I
    <3> HIDE DEF I, n
    <3> QED BY <1>2, <1>8, <2>2, <2>3
  <2> QED BY <2>1, <2>4
<1>10. \A k \in 0 .. n : at[k] \in I
  BY <1>9
<1> QED BY <1>8, <1>10 DEF at

(* The last sibling: it is before b, and none follows it.                  *)
LEMMA LastSiblingIsLast ==
  ASSUME NEW p, Sound(p), NEW b \in 0 .. p.nodes, Closed(p, b), NEW first \in 0 .. b - 1
  PROVE  LastSibling(p, first) \in first .. b - 1 /\ Get(p, LastSibling(p, first)).next = NodeNull
<1> DEFINE n == p.nodes
           at == SiblingWalk(p, first)
           Stopped(k) == Get(p, at[k]).next = NodeNull
           T == {k \in 0 .. n : ~Stopped(k) /\ at[k] < k}
<1>1. /\ at[0] = first /\ \A k \in 1 .. n : at[k] = NextSibling(p, at[k - 1])
      /\ \A k \in 0 .. n : at[k] \in first .. b - 1
  BY WalkSteps
<1>2. n \in Nat /\ first \in Nat /\ b \in Nat /\ b <= n
  BY PoolTypes DEF Sound
<1> HIDE DEF at, n
<1>3. ASSUME NEW k \in 1 .. n
      PROVE  (Stopped(k - 1) => Stopped(k)) /\ (~Stopped(k - 1) => at[k - 1] < at[k])
  <2>1. k - 1 \in 0 .. n /\ at[k - 1] \in first .. b - 1 /\ at[k] = NextSibling(p, at[k - 1])
    BY <1>1, <1>2
  <2>2. at[k - 1] \in 0 .. p.nodes - 1
    BY <1>2, <2>1 DEF n
  <2>3. Get(p, at[k - 1]).next = NodeNull \/ at[k - 1] < Get(p, at[k - 1]).next
    BY <2>2, LinkRanges
  <2> QED BY <2>1, <2>3 DEF NextSibling
<1>4. T = {}
  <2> SUFFICES ASSUME T # {} PROVE FALSE
    OBVIOUS
  <2>1. PICK m \in T : \A k \in T : m <= k
    <3>1. T \subseteq Nat
      BY <1>2
    <3> HIDE DEF T
    <3> QED BY <3>1, NatLeast
  <2>2. m \in 0 .. n /\ ~Stopped(m) /\ at[m] < m /\ \A k \in 0 .. n : ~Stopped(k) /\ at[k] < k => m <= k
    <3> HIDE DEF Stopped
    <3> QED BY <2>1
  <2>3. at[m] \in first .. b - 1
    BY <1>1, <2>2
  <2>4. m \in 1 .. n /\ m - 1 \in 0 .. n /\ ~(m <= m - 1)
    BY <1>2, <2>2, <2>3
  <2>5. ~Stopped(m - 1) /\ at[m - 1] < at[m]
    BY <1>3, <2>2, <2>4
  <2>6. at[m - 1] \in first .. b - 1
    BY <1>1, <2>4
  <2>7. at[m - 1] < m - 1
    BY <1>2, <2>2, <2>3, <2>4, <2>5, <2>6
  <2> QED BY <2>2, <2>4, <2>5, <2>7
<1>5. n \in 0 .. n /\ at[n] \in first .. b - 1 /\ at[n] < n
  BY <1>1, <1>2
<1>6. Stopped(n)
  BY <1>4, <1>5
<1> QED BY <1>5, <1>6 DEF LastSibling, at, n

-----------------------------------------------------------------------------
(* The open blocks *)

LeftOf(p, i) == Get(p, i).left

(* Open blocks in the order they were allocated, each with children after  *)
(* it and before the next, and no sibling link across one.                 *)
Nested(p, o) ==
  /\ o \in Seq(Ref(p))
  /\ \A k \in 1 .. Len(o) : o[k] # NodeNull =>
       Closed(p, o[k]) /\ (LeftOf(p, o[k]) = NodeNull \/ o[k] < LeftOf(p, o[k]))
  /\ \A j, k \in 1 .. Len(o) : j < k /\ o[j] # NodeNull /\ o[k] # NodeNull =>
       o[j] < o[k] /\ (LeftOf(p, o[j]) = NodeNull \/ LeftOf(p, o[j]) < o[k])

(* A node that may join the last open block, or open a block in it.        *)
Fits(p, o, n) ==
  /\ n \in 0 .. p.nodes - 1 /\ Closed(p, n)
  /\ \A k \in 1 .. Len(o) : o[k] # NodeNull =>
       o[k] < n /\ (LeftOf(p, o[k]) = NodeNull \/ LeftOf(p, o[k]) < n)

LEMMA SoundPool ==
  ASSUME NEW p, Sound(p)
  PROVE  p \in Pool /\ Tables(p) /\ p.nodes \in Nat /\ NodeNull \notin 0 .. p.nodes - 1
BY PoolTypes DEF Sound, NodeNull

LEMMA BlockRef ==
  ASSUME NEW p, Sound(p), NEW o \in Seq(Ref(p)), NEW k \in 1 .. Len(o), o[k] # NodeNull
  PROVE  /\ o[k] \in 0 .. p.nodes - 1
         /\ LeftOf(p, o[k]) = NodeNull \/ LeftOf(p, o[k]) \in 0 .. p.nodes - 1
<1>1. o[k] \in Ref(p)
  OBVIOUS
<1>2. o[k] \in 0 .. p.nodes - 1
  BY <1>1 DEF Ref
<1>3. LeftOf(p, o[k]) \in Ref(p)
  BY <1>2, LinkRanges DEF LeftOf
<1> QED BY <1>2, <1>3 DEF Ref

(* Building leaves the open blocks as they were, and its node fits them.   *)
LEMMA BuiltFits ==
  ASSUME NEW p, Sound(p), NEW o, Nested(p, o), NEW q, NEW n, Built(p, q, n)
  PROVE  Nested(q, o) /\ (n # NodeNull => Fits(q, o, n))
<1>1. /\ p \in Pool /\ q \in Pool /\ p.nodes \in Nat /\ q.nodes \in Nat /\ Sound(q)
      /\ p.nodes <= q.nodes /\ \A j \in 0 .. p.nodes - 1 : Get(q, j) = Get(p, j)
      /\ o \in Seq(Ref(p))
  BY SoundPool DEF Built, Grows, Nested
<1>2. o \in Seq(Ref(q))
  <2>1. Ref(p) \subseteq Ref(q)
    BY <1>1, RefGrows DEF Built
  <2> QED BY <1>1, <2>1
<1>3. ASSUME NEW k \in 1 .. Len(o), o[k] # NodeNull
      PROVE  /\ LeftOf(q, o[k]) = LeftOf(p, o[k]) /\ (Closed(p, o[k]) => Closed(q, o[k]))
             /\ o[k] \in 0 .. p.nodes - 1
             /\ LeftOf(p, o[k]) = NodeNull \/ LeftOf(p, o[k]) \in 0 .. p.nodes - 1
  <2>1. /\ o[k] \in 0 .. p.nodes - 1
        /\ LeftOf(p, o[k]) = NodeNull \/ LeftOf(p, o[k]) \in 0 .. p.nodes - 1
    BY <1>1, <1>3, BlockRef
  <2>2. \A i \in 0 .. o[k] - 1 : i \in 0 .. p.nodes - 1
    BY <1>1, <2>1
  <2> QED BY <1>1, <2>1, <2>2 DEF LeftOf, Closed
<1>4. Nested(q, o)
  BY <1>2, <1>3 DEF Nested
<1>5. ASSUME n # NodeNull PROVE Fits(q, o, n)
  <2>1. n \in p.nodes .. q.nodes - 1 /\ Closed(q, n)
    BY <1>5 DEF Built
  <2>2. n \in 0 .. q.nodes - 1 /\ p.nodes <= n
    BY <1>1, <2>1
  <2>3. ASSUME NEW k \in 1 .. Len(o), o[k] # NodeNull
        PROVE  o[k] < n /\ (LeftOf(q, o[k]) = NodeNull \/ LeftOf(q, o[k]) < n)
    BY <1>1, <1>3, <2>2, <2>3
  <2> QED BY <2>1, <2>2, <2>3 DEF Fits
<1> QED BY <1>4, <1>5

(* A block opens.                                                          *)
LEMMA OpensNested ==
  ASSUME NEW p, Sound(p), NEW o, Nested(p, o), NEW n,
         n # NodeNull => Fits(p, o, n) /\ LeftOf(p, n) = NodeNull
  PROVE  Nested(p, Append(o, n))
<1> DEFINE r == Append(o, n)
<1>1. n \in Ref(p) /\ o \in Seq(Ref(p)) /\ Len(o) \in Nat
  BY DEF Ref, Fits, Nested
<1>2. r \in Seq(Ref(p)) /\ Len(r) = Len(o) + 1
  BY <1>1
<1>3. \A k \in 1 .. Len(o) : r[k] = o[k]
  BY <1>1
<1>4. r[Len(o) + 1] = n
  BY <1>1
<1> HIDE DEF r
<1>5. \A k \in 1 .. Len(r) : (k \in 1 .. Len(o) /\ r[k] = o[k]) \/ (k = Len(o) + 1 /\ r[k] = n)
  BY <1>1, <1>2, <1>3, <1>4
<1>6. \A k \in 1 .. Len(r) : r[k] # NodeNull =>
        Closed(p, r[k]) /\ (LeftOf(p, r[k]) = NodeNull \/ r[k] < LeftOf(p, r[k]))
  BY <1>5 DEF Nested, Fits
<1>7. ASSUME NEW j \in 1 .. Len(r), NEW k \in 1 .. Len(r), j < k, r[j] # NodeNull, r[k] # NodeNull
      PROVE  r[j] < r[k] /\ (LeftOf(p, r[j]) = NodeNull \/ LeftOf(p, r[j]) < r[k])
  <2>1. j \in 1 .. Len(o) /\ r[j] = o[j]
    BY <1>1, <1>2, <1>5, <1>7
  <2>2. CASE k \in 1 .. Len(o) /\ r[k] = o[k]
    BY <1>7, <2>1, <2>2 DEF Nested
  <2>3. CASE r[k] = n
    BY <1>7, <2>1, <2>3 DEF Fits
  <2> QED BY <1>5, <2>2, <2>3
<1> QED BY <1>2, <1>6, <1>7 DEF Nested, r

(* The last block closes, and may join the one around it.                  *)
LEMMA ClosesNested ==
  ASSUME NEW p, Sound(p), NEW o, Nested(p, o), Len(o) > 1
  PROVE  /\ Nested(p, Front(o)) /\ Len(Front(o)) = Len(o) - 1
         /\ Last(Front(o)) = o[Len(o) - 1] /\ Last(o) \in Ref(p)
         /\ Last(o) # NodeNull => Fits(p, Front(o), Last(o))
<1> DEFINE r == Front(o)
           l == Len(o)
<1>1. o \in Seq(Ref(p)) /\ l \in Nat /\ l > 1
  BY DEF Nested
<1>2. r \in Seq(Ref(p)) /\ Len(r) = l - 1 /\ \A k \in 1 .. l - 1 : r[k] = o[k]
  BY <1>1 DEF Front
<1>3. Last(o) = o[l] /\ o[l] \in Ref(p) /\ l \in 1 .. l
  BY <1>1 DEF Last
<1>4. Last(r) = o[l - 1]
  BY <1>1, <1>2 DEF Last
<1> HIDE DEF r, l
<1>5. \A k \in 1 .. Len(r) : k \in 1 .. l /\ k < l /\ r[k] = o[k]
  BY <1>1, <1>2
<1>6. Nested(p, r)
  BY <1>2, <1>5 DEF Nested, l
<1>7. ASSUME o[l] # NodeNull PROVE Fits(p, r, o[l])
  <2>1. o[l] \in 0 .. p.nodes - 1 /\ Closed(p, o[l])
    BY <1>3, <1>7 DEF Ref, Nested, l
  <2> QED BY <1>3, <1>5, <1>7, <2>1 DEF Fits, Nested, l
<1> QED BY <1>2, <1>3, <1>4, <1>6, <1>7 DEF r, l

(* A node joins the last open block: as its first child, or after the last *)
(* of its children, which had no sibling.                                  *)
LEMMA AppendSound ==
  ASSUME NEW p, Sound(p), NEW o, Nested(p, o), Len(o) >= 1, NEW n, n # NodeNull => Fits(p, o, n)
  PROVE  LET q == NdAppend(p, Last(o), n) IN Sound(q) /\ Nested(q, o)
<1> DEFINE l == Len(o)
           up == Last(o)
           q == NdAppend(p, up, n)
<1>1. o \in Seq(Ref(p)) /\ l \in Nat /\ l \in 1 .. l /\ up = o[l]
  BY DEF Nested, Last
<1>2. CASE up = NodeNull \/ n = NodeNull
  BY <1>2 DEF NdAppend
<1>3. CASE up # NodeNull /\ n # NodeNull
  <2> HIDE DEF up, l
  <2>1. /\ up \in 0 .. p.nodes - 1 /\ n \in 0 .. p.nodes - 1 /\ n \in Ref(p) /\ up < n
        /\ Closed(p, n) /\ p.nodes \in Nat
    BY <1>1, <1>3, BlockRef, SoundPool DEF Fits, Ref, l
  <2>2. /\ LeftOf(p, up) = NodeNull
           \/ (LeftOf(p, up) \in 0 .. p.nodes - 1 /\ up < LeftOf(p, up) /\ LeftOf(p, up) < n)
    BY <1>1, <1>3, BlockRef DEF Fits, Nested, l
  <2>3. \A k \in 1 .. Len(o) : o[k] # NodeNull => o[k] \in 0 .. p.nodes - 1 /\ o[k] <= up
    <3> SUFFICES ASSUME NEW k \in 1 .. Len(o), o[k] # NodeNull
                 PROVE  o[k] \in 0 .. p.nodes - 1 /\ o[k] <= up
      OBVIOUS
    <3>1. o[k] \in 0 .. p.nodes - 1
      BY <1>1, BlockRef
    <3>2. k = l \/ k < l
      BY <1>1 DEF l
    <3> QED BY <1>1, <1>3, <2>1, <3>1, <3>2 DEF Nested, l
  <2>4. CASE LeftOf(p, up) = NodeNull
    <3> DEFINE r == Put(p, up, "left", n)
    <3>1. q = r
      BY <1>3, <2>4 DEF NdAppend, LeftOf
    <3>2. Get(p, up) \in Node
      BY <2>1, NodeTypes, SoundPool
    <3>3. /\ Sound(r) /\ r.nodes = p.nodes /\ Get(r, up) = [Get(p, up) EXCEPT !["left"] = n]
          /\ \A j \in 0 .. p.nodes - 1 : j # up => Get(r, j) = Get(p, j)
      BY <2>1, PutGets, PutSound DEF FieldName
    <3>4. LeftOf(r, up) = n /\ Get(r, up).next = Get(p, up).next
      BY <3>2, <3>3 DEF Node, LeftOf
    <3> HIDE DEF r
    <3>5. \A j \in 0 .. p.nodes - 1 : Get(r, j).next = Get(p, j).next
      BY <3>3, <3>4
    <3>6. \A k \in 1 .. Len(o) : o[k] # NodeNull => Closed(r, o[k])
      <4> SUFFICES ASSUME NEW k \in 1 .. Len(o), o[k] # NodeNull PROVE Closed(r, o[k])
        OBVIOUS
      <4>1. \A i \in 0 .. o[k] - 1 : i \in 0 .. p.nodes - 1
        BY <2>1, <2>3
      <4>2. Closed(p, o[k])
        BY DEF Nested
      <4> QED BY <3>5, <4>1, <4>2 DEF Closed
    <3>7. \A k \in 1 .. Len(o) : o[k] # NodeNull /\ o[k] # up => LeftOf(r, o[k]) = LeftOf(p, o[k])
      BY <2>3, <3>3 DEF LeftOf
    <3>8. o \in Seq(Ref(r))
      BY <1>1, <3>3 DEF Ref
    <3>9. \A j, k \in 1 .. Len(o) : j < k /\ o[j] # NodeNull /\ o[k] # NodeNull => o[j] # up
      <4> SUFFICES ASSUME NEW j \in 1 .. Len(o), NEW k \in 1 .. Len(o), j < k,
                          o[j] # NodeNull, o[k] # NodeNull
                   PROVE  o[j] # up
        OBVIOUS
      <4>1. o[j] < o[k]
        BY DEF Nested
      <4> QED BY <2>1, <2>3, <4>1
    <3>10. Nested(r, o)
      BY <2>1, <3>4, <3>6, <3>7, <3>8, <3>9 DEF Nested
    <3> QED BY <3>1, <3>3, <3>10 DEF up
  <2>5. CASE LeftOf(p, up) # NodeNull
    <3> DEFINE first == LeftOf(p, up)
               i == LastSibling(p, first)
               r == Put(p, i, "next", n)
    <3>1. q = r
      BY <1>3, <2>5 DEF NdAppend, LeftOf
    <3>2. first \in 0 .. n - 1 /\ n \in 0 .. p.nodes
      BY <2>1, <2>2, <2>5
    <3>3. i \in first .. n - 1
      <4> HIDE DEF first
      <4> QED BY <2>1, <3>2, LastSiblingIsLast
    <3>4. i \in 0 .. p.nodes - 1 /\ i < n /\ up < i
      <4> HIDE DEF i
      <4> QED BY <2>1, <2>2, <2>5, <3>2, <3>3
    <3> HIDE DEF i, first
    <3>5. Get(p, i) \in Node
      BY <3>4, NodeTypes, SoundPool
    <3>6. /\ Sound(r) /\ r.nodes = p.nodes /\ Get(r, i) = [Get(p, i) EXCEPT !["next"] = n]
          /\ \A j \in 0 .. p.nodes - 1 : j # i => Get(r, j) = Get(p, j)
      BY <2>1, <3>4, PutGets, PutSound DEF FieldName
    <3>7. Get(r, i).left = Get(p, i).left
      BY <3>5, <3>6 DEF Node
    <3> HIDE DEF r
    <3>8. \A j \in 0 .. p.nodes - 1 : LeftOf(r, j) = LeftOf(p, j)
      BY <3>6, <3>7 DEF LeftOf
    <3>9. \A k \in 1 .. Len(o) : o[k] # NodeNull => Closed(r, o[k])
      <4> SUFFICES ASSUME NEW k \in 1 .. Len(o), o[k] # NodeNull PROVE Closed(r, o[k])
        OBVIOUS
      <4>1. \A j \in 0 .. o[k] - 1 : j \in 0 .. p.nodes - 1 /\ j # i
        BY <2>1, <2>3, <3>4
      <4>2. Closed(p, o[k])
        BY DEF Nested
      <4> QED BY <3>6, <4>1, <4>2 DEF Closed
    <3>10. o \in Seq(Ref(r))
      BY <1>1, <3>6 DEF Ref
    <3>11. Nested(r, o)
      BY <2>3, <3>8, <3>9, <3>10 DEF Nested
    <3> QED BY <3>1, <3>6, <3>11 DEF up
  <2> QED BY <2>4, <2>5
<1> QED BY <1>2, <1>3

(* The write through index -1 after a failed nd_alloc: the pool is full,   *)
(* and the last slot of chunk 0 loses its sibling.                         *)
LEMMA CutSound ==
  ASSUME NEW p, Sound(p), NEW o, Nested(p, o), p.exhausted
  PROVE  LET q == SetElse(p, NodeNull, NodeNull) IN Sound(q) /\ Nested(q, o)
<1> DEFINE i == PerChunk - 1
           q == Put(p, i, "next", NodeNull)
<1>1. /\ p.nodes \in Nat /\ p.nodes = ChunkMax * PerChunk /\ NodeNull \in Ref(p)
      /\ p \in Pool /\ Tables(p)
  BY SoundPool DEF Sound, Honest, Ref
<1>2. i \in 0 .. p.nodes - 1
  <2>1. ChunkMax * PerChunk >= PerChunk
    BY PoolLimits
  <2> QED BY <1>1, <2>1, PoolLimits
<1> HIDE DEF i
<1>3. /\ Sound(q) /\ q.nodes = p.nodes /\ Get(q, i) = [Get(p, i) EXCEPT !["next"] = NodeNull]
      /\ \A j \in 0 .. p.nodes - 1 : j # i => Get(q, j) = Get(p, j)
  BY <1>1, <1>2, PutGets, PutSound DEF FieldName
<1>4. Get(p, i) \in Node
  BY <1>1, <1>2, NodeTypes
<1>5. Get(q, i).left = Get(p, i).left /\ Get(q, i).next = NodeNull
  BY <1>3, <1>4 DEF Node
<1>6. SetElse(p, NodeNull, NodeNull) = q
  BY DEF SetElse, i
<1> HIDE DEF q
<1>7. \A j \in 0 .. p.nodes - 1 :
        /\ LeftOf(q, j) = LeftOf(p, j)
        /\ Get(q, j).next = NodeNull \/ Get(q, j).next = Get(p, j).next
  BY <1>3, <1>5 DEF LeftOf
<1>8. o \in Seq(Ref(p)) /\ o \in Seq(Ref(q))
  BY <1>3 DEF Nested, Ref
<1>9. \A k \in 1 .. Len(o) : o[k] # NodeNull =>
        LeftOf(q, o[k]) = LeftOf(p, o[k]) /\ Closed(q, o[k])
  <2> SUFFICES ASSUME NEW k \in 1 .. Len(o), o[k] # NodeNull
               PROVE  LeftOf(q, o[k]) = LeftOf(p, o[k]) /\ Closed(q, o[k])
    OBVIOUS
  <2>1. o[k] \in 0 .. p.nodes - 1
    BY <1>8, BlockRef
  <2>2. \A j \in 0 .. o[k] - 1 : j \in 0 .. p.nodes - 1
    BY <1>1, <2>1
  <2>3. Closed(p, o[k])
    BY DEF Nested
  <2> QED BY <1>7, <2>1, <2>2, <2>3 DEF Closed
<1>10. Nested(q, o)
  BY <1>8, <1>9 DEF Nested
<1> QED BY <1>3, <1>6, <1>10

(* A pool without room has no further node.                                *)
LEMMA FullNoNode ==
  ASSUME NEW p, Sound(p), p.exhausted, NEW ln \in 0 .. MaxLines
  PROVE  NdAlloc(p, ln).node = NodeNull
<1> DEFINE r == NdAlloc(p, ln)
<1>1. Built(p, r.pool, r.node)
  BY AllocSound
<1> HIDE DEF r
<1>2. r.pool \in Pool /\ r.pool.nodes <= ChunkMax * PerChunk /\ r.pool.nodes \in Nat
  BY <1>1, SoundPool, RefIsLink DEF Built
<1>3. p.nodes = ChunkMax * PerChunk /\ p.nodes \in Nat
  BY SoundPool DEF Sound, Honest
<1>4. r.node \notin p.nodes .. r.pool.nodes - 1
  BY <1>2, <1>3
<1>5. r.node = NodeNull
  BY <1>1, <1>4 DEF Built
<1> QED BY <1>5 DEF r

-----------------------------------------------------------------------------
(* The parser *)

WalkOK ==
  /\ phase \in {"idle", "parsing"} /\ parseErr \in BOOLEAN
  /\ result \in {"none", "text", "null"}
  /\ line \in 0 .. MaxLines /\ compiles \in 0 .. MaxCompiles
AstInv == Sound(pool) /\ Nested(pool, open) /\ WalkOK

(* The pool after ast_init is empty.                                       *)
LEMMA EmptySound ==
  ASSUME NEW p \in Pool, p.count = 0, p.nodes = 0, p.exhausted = FALSE,
         \A c \in Chunks : ~p.inUse[c]
  PROVE  Sound(p) /\ Nested(p, <<>>)
<1>1. 0 .. p.count - 1 = {} /\ 0 .. p.nodes - 1 = {}
  OBVIOUS
<1>2. Tables(p)
  <2>1. 0 <= 0 * PerChunk
    BY PoolLimits
  <2> QED BY <1>1, <2>1 DEF Tables, Listed, Enough
<1>3. Sound(p)
  BY <1>1, <1>2 DEF Sound, Honest, Linked
<1>4. <<>> \in Seq(Ref(p)) /\ Len(<<>>) = 0
  OBVIOUS
<1>5. 1 .. Len(<<>>) = {}
  BY <1>4
<1> QED BY <1>3, <1>4, <1>5 DEF Nested

LEMMA ResetSound ==
  ASSUME NEW p \in Pool
  PROVE  LET q == AstInit(ChunkInit(p)) IN Sound(q) /\ Nested(q, <<>>)
<1> DEFINE c0 == ChunkInit(p)
           used == {c0.chunks[i] : i \in 0 .. c0.count - 1}
           f == ChunkFree(c0, used)
           q == AstInit(c0)
<1>1. p.chunks \in [Chunks -> Chunks \cup {NoChunk}] /\ p.count \in 0 .. ChunkMax
  BY PoolTypes
<1>2. /\ c0 \in Pool /\ c0.inUse = [c \in Chunks |-> FALSE] /\ c0.chunks = p.chunks
      /\ c0.count = p.count
  BY DEF ChunkInit, Pool
<1> HIDE DEF c0, used
<1>3. f \in Pool /\ (\A c \in Chunks : ~f.inUse[c]) /\ f.chunks = c0.chunks /\ f.count = c0.count
  <2>1. f.inUse = [c \in Chunks |-> c0.inUse[c] /\ c \notin used]
    BY <1>2 DEF ChunkFree, Pool
  <2>2. f.inUse \in [Chunks -> BOOLEAN] /\ \A c \in Chunks : ~f.inUse[c]
    BY <1>2, <2>1
  <2>3. f = [c0 EXCEPT !.inUse = f.inUse]
    BY <1>2, <2>1 DEF ChunkFree, Pool
  <2> HIDE DEF f
  <2> QED BY <1>2, <2>2, <2>3 DEF Pool
<1> DEFINE chunks == [i \in Chunks |-> IF i < c0.count THEN NoChunk ELSE f.chunks[i]]
<1>4. q = [f EXCEPT !.chunks = chunks, !.count = 0, !.nodes = 0, !.exhausted = FALSE]
  BY <1>3 DEF AstInit, used, Pool
<1>5. chunks \in [Chunks -> Chunks \cup {NoChunk}]
  BY <1>1, <1>2, <1>3
<1> HIDE DEF chunks, f, q
<1>6. /\ q \in Pool /\ q.count = 0 /\ q.nodes = 0 /\ q.exhausted = FALSE /\ q.inUse = f.inUse
  <2>1. 0 \in 0 .. ChunkMax /\ 0 \in Nat
    BY PoolLimits
  <2> QED BY <1>3, <1>4, <1>5, <2>1 DEF Pool
<1> QED BY <1>3, <1>6, EmptySound DEF q, c0

LEMMA AstStart == Init => AstInv
<1> SUFFICES ASSUME Init PROVE AstInv
  OBVIOUS
<1>1. FreshNode(0) \in Node
  BY FreshIsNode, PoolLimits
<1>2. [c \in Chunks |-> [s \in Slots |-> FreshNode(0)]] \in [Chunks -> [Slots -> Node]]
  BY <1>1
<1>3. pool \in Pool
  BY <1>2, PoolLimits DEF Init, Pool
<1>4. Sound(pool) /\ Nested(pool, <<>>)
  BY <1>3, EmptySound DEF Init
<1>5. WalkOK
  <2>1. 0 \in 0 .. MaxLines /\ 0 \in 0 .. MaxCompiles
    BY PoolLimits
  <2> QED BY <2>1 DEF Init, WalkOK
<1> QED BY <1>4, <1>5 DEF Init, AstInv

LEMMA StartStep ==
  ASSUME AstInv, CompileStart
  PROVE  AstInv'
<1> DEFINE p == AstInit(ChunkInit(pool))
           root == NdAlloc(p, 0)
<1>1. Sound(p) /\ Nested(p, <<>>)
  BY ResetSound, SoundPool DEF AstInv
<1>2. pool' = root.pool /\ open' = <<root.node>>
  BY DEF CompileStart
<1> HIDE DEF p
<1>3. /\ Built(p, root.pool, root.node)
      /\ root.node # NodeNull => LeftOf(root.pool, root.node) = NodeNull
  BY <1>1, AllocSound, PoolLimits DEF LeftOf
<1> HIDE DEF root
<1>4. /\ Sound(root.pool) /\ Nested(root.pool, <<>>)
      /\ root.node # NodeNull => Fits(root.pool, <<>>, root.node)
  BY <1>1, <1>3, BuiltFits DEF Built
<1>5. Nested(root.pool, Append(<<>>, root.node))
  BY <1>3, <1>4, OpensNested
<1>6. Append(<<>>, root.node) = <<root.node>>
  OBVIOUS
<1>7. WalkOK'
  BY PoolLimits DEF CompileStart, WalkOK, AstInv
<1> QED BY <1>2, <1>4, <1>5, <1>6, <1>7 DEF AstInv

LEMMA BlockOpenStep ==
  ASSUME AstInv, BlockOpen
  PROVE  AstInv'
<1> DEFINE b == NdAlloc(pool, line + 1)
<1>1. /\ pool' = b.pool /\ open' = Append(open, b.node) /\ line + 1 \in 0 .. MaxLines /\ WalkOK'
  BY PoolLimits DEF BlockOpen, ReadsLine, AstInv, WalkOK
<1>2. /\ Built(pool, b.pool, b.node)
      /\ b.node # NodeNull => LeftOf(b.pool, b.node) = NodeNull
  BY <1>1, AllocSound DEF LeftOf, AstInv
<1> HIDE DEF b
<1>3. Sound(b.pool) /\ Nested(b.pool, open) /\ (b.node # NodeNull => Fits(b.pool, open, b.node))
  BY <1>2, BuiltFits DEF AstInv, Built
<1>4. Nested(b.pool, Append(open, b.node))
  BY <1>2, <1>3, OpensNested
<1> QED BY <1>1, <1>3, <1>4 DEF AstInv

(* A statement built on the pool joins the innermost block.                *)
LEMMA JoinStep ==
  ASSUME AstInv, NEW q, NEW n, Built(pool, q, n), Len(open) > 1,
         pool' = NdAppend(q, Last(open), n), open' = open, WalkOK'
  PROVE  AstInv'
<1>1. Sound(q) /\ Nested(q, open) /\ (n # NodeNull => Fits(q, open, n))
  BY BuiltFits DEF AstInv, Built
<1>2. Len(open) >= 1
  BY DEF AstInv, Nested
<1>3. Sound(NdAppend(q, Last(open), n)) /\ Nested(NdAppend(q, Last(open), n), open)
  BY <1>1, <1>2, AppendSound
<1> QED BY <1>3 DEF AstInv

(* nd_alloc after other nodes: the construct so far, and its new node.     *)
LEMMA AllocOn ==
  ASSUME NEW p, Sound(p), NEW q, Sound(q), Grows(p, q), NEW ln \in 0 .. MaxLines
  PROVE  LET r == NdAlloc(q, ln) IN
           /\ Built(p, r.pool, r.node) /\ Sound(r.pool) /\ Grows(p, r.pool) /\ Grows(q, r.pool)
           /\ r.node \in Ref(r.pool)
           /\ r.node = NodeNull => r.pool.exhausted
<1> DEFINE r == NdAlloc(q, ln)
<1>1. Built(q, r.pool, r.node) /\ (r.node = NodeNull => r.pool.exhausted)
  BY AllocSound
<1> HIDE DEF r
<1>2. /\ p.nodes \in Nat /\ q.nodes \in Nat /\ r.pool.nodes \in Nat /\ Sound(r.pool)
      /\ Grows(q, r.pool)
  BY <1>1, SoundPool DEF Built
<1>3. Grows(p, r.pool)
  BY <1>2 DEF Grows
<1>4. r.node = NodeNull \/ (r.node \in p.nodes .. r.pool.nodes - 1 /\ Closed(r.pool, r.node))
  BY <1>1, <1>2 DEF Built, Grows
<1>5. r.node \in Ref(r.pool)
  BY <1>2, <1>4 DEF Ref
<1> QED BY <1>1, <1>2, <1>3, <1>4, <1>5 DEF Built, r

LEMMA GrowsSelf ==
  ASSUME NEW p, Sound(p)
  PROVE  Grows(p, p)
BY SoundPool DEF Grows

LEMMA ReturnStep ==
  ASSUME AstInv, ParseReturn
  PROVE  AstInv'
<1> DEFINE n == NdAlloc(pool, line + 1)
<1>1. /\ pool' = NdAppend(n.pool, Last(open), n.node) /\ open' = open /\ Len(open) > 1
      /\ line + 1 \in 0 .. MaxLines /\ WalkOK'
  BY PoolLimits DEF ParseReturn, InBlock, ReadsLine, AstInv, WalkOK
<1>2. Built(pool, n.pool, n.node)
  BY <1>1, AllocSound DEF AstInv
<1> HIDE DEF n
<1> QED BY <1>1, <1>2, JoinStep

LEMMA AssignStep ==
  ASSUME AstInv, ParseAssign
  PROVE  AstInv'
<1> DEFINE l == NdAlloc(pool, 0)
           r == NdAlloc(l.pool, 0)
           n == NdAlloc(r.pool, line + 1)
           half == SetIf(n.pool, n.node, "left", l.node)
           linked == SetIf(half, n.node, "right", r.node)
<1>1. /\ open' = open /\ Len(open) > 1 /\ line + 1 \in 0 .. MaxLines /\ 0 \in 0 .. MaxLines
      /\ WalkOK' /\ Sound(pool) /\ Grows(pool, pool) /\ pool \in Pool
      /\ IF l.node = NodeNull THEN pool' = l.pool ELSE pool' = NdAppend(linked, Last(open), n.node)
  <2>1. Sound(pool) /\ Grows(pool, pool) /\ pool \in Pool
    BY GrowsSelf, SoundPool DEF AstInv
  <2>2. open' = open /\ Len(open) > 1 /\ line + 1 \in 0 .. MaxLines /\ 0 \in 0 .. MaxLines
    BY PoolLimits DEF ParseAssign, InBlock, ReadsLine, AstInv, WalkOK
  <2>3. IF l.node = NodeNull THEN pool' = l.pool /\ parseErr' = TRUE
        ELSE pool' = NdAppend(linked, Last(open), n.node) /\ parseErr' = parseErr
    BY DEF ParseAssign
  <2> HIDE DEF l, linked
  <2>4. WalkOK'
    BY <2>2, <2>3 DEF ParseAssign, ReadsLine, AstInv, WalkOK
  <2> QED BY <2>1, <2>2, <2>3, <2>4
<1>2. /\ Built(pool, l.pool, l.node) /\ Sound(l.pool) /\ Grows(pool, l.pool)
      /\ l.node \in Ref(l.pool)
  BY <1>1, AllocOn
<1> HIDE DEF l
<1>3. /\ Sound(r.pool) /\ Grows(pool, r.pool) /\ Grows(l.pool, r.pool) /\ r.node \in Ref(r.pool)
  BY <1>1, <1>2, AllocOn
<1> HIDE DEF r
<1>4. /\ Built(pool, n.pool, n.node) /\ Sound(n.pool) /\ Grows(r.pool, n.pool)
  BY <1>1, <1>3, AllocOn
<1> HIDE DEF n
<1>5. l.node \in Ref(n.pool) /\ r.node \in Ref(n.pool)
  BY <1>2, <1>3, <1>4, RefGrows, SoundPool
<1>6. Built(pool, half, n.node) /\ half.nodes = n.pool.nodes
  BY <1>1, <1>4, <1>5, BuiltSet DEF FieldName
<1> HIDE DEF half
<1>7. Built(pool, linked, n.node)
  BY <1>1, <1>5, <1>6, BuiltSet DEF FieldName, Ref
<1> HIDE DEF linked
<1>8. CASE l.node = NodeNull
  <2>1. Nested(l.pool, open)
    BY <1>2, BuiltFits DEF AstInv
  <2> QED BY <1>1, <1>2, <1>8, <2>1 DEF AstInv
<1>9. CASE l.node # NodeNull
  BY <1>1, <1>7, <1>9, JoinStep
<1> QED BY <1>8, <1>9

LEMMA IfStep ==
  ASSUME AstInv, NEW hasElse \in BOOLEAN, ParseIf(hasElse)
  PROVE  AstInv'
<1> DEFINE cond == NdAlloc(pool, 0)
           then == NdAlloc(cond.pool, line + 2)
           n == NdAlloc(then.pool, line + 1)
           half == SetIf(n.pool, n.node, "left", cond.node)
           made == SetIf(half, n.node, "right", then.node)
           else == NdAlloc(made, line + 3)
           done == IF hasElse THEN SetElse(else.pool, n.node, else.node) ELSE made
<1>1. /\ pool' = NdAppend(done, Last(open), n.node) /\ open' = open /\ Len(open) > 1
      /\ line' = line + (IF hasElse THEN 3 ELSE 2) /\ line' <= MaxLines
      /\ UNCHANGED <<phase, parseErr, result, compiles>>
  BY DEF ParseIf, InBlock
<1>2. /\ Sound(pool) /\ Grows(pool, pool) /\ pool \in Pool /\ Nested(pool, open)
      /\ 0 \in 0 .. MaxLines /\ line + 1 \in 0 .. MaxLines /\ line + 2 \in 0 .. MaxLines
      /\ hasElse => line + 3 \in 0 .. MaxLines
      /\ WalkOK'
  <2>1. Sound(pool) /\ Grows(pool, pool) /\ pool \in Pool /\ Nested(pool, open)
    BY GrowsSelf, SoundPool DEF AstInv
  <2>2. line \in Nat /\ MaxLines \in Nat
    BY PoolLimits DEF AstInv, WalkOK
  <2>3. /\ 0 \in 0 .. MaxLines /\ line + 1 \in 0 .. MaxLines /\ line + 2 \in 0 .. MaxLines
        /\ (hasElse => line + 3 \in 0 .. MaxLines) /\ line' \in 0 .. MaxLines
    BY <1>1, <2>2
  <2>4. WalkOK'
    BY <1>1, <2>3 DEF AstInv, WalkOK
  <2> QED BY <2>1, <2>3, <2>4
<1> HIDE DEF done
<1>3. Sound(cond.pool) /\ Grows(pool, cond.pool) /\ cond.node \in Ref(cond.pool)
  BY <1>2, AllocOn
<1> HIDE DEF cond
<1>4. /\ Sound(then.pool) /\ Grows(pool, then.pool) /\ Grows(cond.pool, then.pool)
      /\ then.node \in Ref(then.pool)
  BY <1>2, <1>3, AllocOn
<1> HIDE DEF then
<1>5. /\ Built(pool, n.pool, n.node) /\ Sound(n.pool) /\ Grows(then.pool, n.pool)
      /\ n.node = NodeNull => n.pool.exhausted
  BY <1>2, <1>4, AllocOn
<1> HIDE DEF n
<1>6. cond.node \in Ref(n.pool) /\ then.node \in Ref(n.pool)
  BY <1>3, <1>4, <1>5, RefGrows, SoundPool
<1>7. Built(pool, half, n.node) /\ half.nodes = n.pool.nodes
  BY <1>2, <1>5, <1>6, BuiltSet DEF FieldName
<1>8. n.node = NodeNull => half = n.pool /\ made = half
  BY DEF SetIf
<1> HIDE DEF half
<1>9. Built(pool, made, n.node)
  BY <1>2, <1>6, <1>7, BuiltSet DEF FieldName, Ref
<1> HIDE DEF made
<1>10. CASE ~hasElse
  BY <1>1, <1>2, <1>9, <1>10, JoinStep DEF done
<1>11. CASE hasElse
  <2>1. Sound(made)
    BY <1>9 DEF Built
  <2>2. /\ Sound(else.pool) /\ Grows(made, else.pool) /\ else.node \in Ref(else.pool)
        /\ else.node = NodeNull => else.pool.exhausted
    BY <1>2, <1>11, <2>1, AllocOn, GrowsSelf
  <2>3. n.node = NodeNull => else.node = NodeNull
    BY <1>2, <1>5, <1>8, <1>11, <2>1, FullNoNode
  <2> HIDE DEF else
  <2>4. Built(pool, else.pool, n.node)
    BY <1>2, <1>9, <2>2, BuiltGrows
  <2>5. CASE n.node # NodeNull
    <3>1. done = SetIf(else.pool, n.node, "ival", else.node)
      BY <1>11, <2>5 DEF done, SetElse, SetIf
    <3>2. Built(pool, done, n.node)
      BY <1>2, <2>2, <2>4, <3>1, BuiltSet DEF FieldName
    <3> QED BY <1>1, <1>2, <3>2, JoinStep
  <2>6. CASE n.node = NodeNull
    <3>1. done = SetElse(else.pool, NodeNull, NodeNull) /\ else.pool.exhausted
      BY <1>11, <2>2, <2>3, <2>6 DEF done
    <3>2. Nested(else.pool, open)
      BY <1>2, <2>4, BuiltFits
    <3>3. Sound(done) /\ Nested(done, open)
      BY <2>2, <3>1, <3>2, CutSound
    <3>4. pool' = done
      BY <1>1, <2>6 DEF NdAppend
    <3> QED BY <1>1, <1>2, <3>3, <3>4 DEF AstInv
  <2> QED BY <2>5, <2>6
<1> QED BY <1>10, <1>11

LEMMA BlockCloseStep ==
  ASSUME AstInv, BlockClose
  PROVE  AstInv'
<1> DEFINE body == Last(open)
           up == open[Len(open) - 1]
           o == Front(open)
           proc == NdAlloc(pool, 0)
           q == SetIf(proc.pool, proc.node, "right", body)
<1>1. /\ Len(open) > 1 /\ open' = o
      /\ IF Len(open) > 2 THEN pool' = NdAppend(pool, up, body)
         ELSE pool' = NdAppend(q, up, proc.node)
  BY DEF BlockClose, InBlock
<1>2. Sound(pool) /\ Nested(pool, open) /\ WalkOK' /\ pool \in Pool /\ Grows(pool, pool)
  BY GrowsSelf, SoundPool DEF BlockClose, AstInv, WalkOK
<1>3. /\ Nested(pool, o) /\ Len(o) = Len(open) - 1 /\ Last(o) = up /\ body \in Ref(pool)
      /\ body # NodeNull => Fits(pool, o, body)
  BY <1>1, <1>2, ClosesNested
<1>4. Len(o) >= 1
  BY <1>1, <1>2, <1>3 DEF Nested
<1> HIDE DEF body, up, o
<1>5. CASE Len(open) > 2
  <2>1. Sound(NdAppend(pool, up, body)) /\ Nested(NdAppend(pool, up, body), o)
    BY <1>2, <1>3, <1>4, AppendSound
  <2> QED BY <1>1, <1>2, <1>5, <2>1 DEF AstInv
<1>6. CASE ~(Len(open) > 2)
  <2>1. /\ Built(pool, proc.pool, proc.node) /\ Sound(proc.pool) /\ Grows(pool, proc.pool)
    BY <1>2, AllocOn, PoolLimits
  <2> HIDE DEF proc
  <2>2. body \in Ref(proc.pool)
    BY <1>2, <1>3, <2>1, RefGrows, SoundPool
  <2>3. Built(pool, q, proc.node)
    BY <1>2, <2>1, <2>2, BuiltSet DEF FieldName
  <2> HIDE DEF q
  <2>4. Sound(q) /\ Nested(q, o) /\ (proc.node # NodeNull => Fits(q, o, proc.node))
    BY <1>2, <1>3, <2>3, BuiltFits DEF Built
  <2>5. Sound(NdAppend(q, up, proc.node)) /\ Nested(NdAppend(q, up, proc.node), o)
    BY <1>3, <1>4, <2>4, AppendSound
  <2> QED BY <1>1, <1>2, <1>6, <2>5 DEF AstInv
<1> QED BY <1>5, <1>6

LEMMA AstStep == AstInv /\ [Next]_vars => AstInv'
<1> SUFFICES ASSUME AstInv, [Next]_vars PROVE AstInv'
  OBVIOUS
<1>1. CASE Finish
  BY <1>1 DEF Finish, AstInv, WalkOK
<1>2. CASE UNCHANGED vars
  BY <1>2 DEF vars, AstInv, WalkOK
<1> QED BY <1>1, <1>2, StartStep, BlockOpenStep, BlockCloseStep, ReturnStep, AssignStep, IfStep
        DEF Next

LEMMA AstInvariant == Spec => []AstInv
BY AstStart, AstStep, PTL DEF Spec

(* The pool, both chunk tables, every node and the stack of open blocks    *)
(* keep their types, whatever is parsed and however often.                 *)
THEOREM AstTypeOK == Spec => []TypeOK
<1>1. AstInv => TypeOK
  <2> SUFFICES ASSUME AstInv PROVE TypeOK
    OBVIOUS
  <2>1. pool \in Pool /\ Ref(pool) \subseteq Link
    BY SoundPool, RefIsLink DEF AstInv
  <2>2. open \in Seq(Ref(pool))
    BY DEF AstInv, Nested
  <2>3. open \in Seq(Link)
    BY <2>1, <2>2
  <2> QED BY <2>1, <2>3 DEF AstInv, WalkOK, TypeOK
<1> QED BY <1>1, AstInvariant, PTL

(* Every node has a slot of its own, in a chunk that is marked in use; the *)
(* two chunk tables agree; links stay among the nodes handed out and lead  *)
(* forward from sibling to sibling (chunk_alloc, nd_alloc, nd_append).     *)
THEOREM AstNodes == Spec => []NodesHaveTheirOwnSlots
<1>1. AstInv => NodesHaveTheirOwnSlots
  <2> SUFFICES ASSUME AstInv PROVE NodesHaveTheirOwnSlots
    OBVIOUS
  <2>1. Sound(pool) /\ pool \in Pool /\ Tables(pool)
    BY SoundPool DEF AstInv
  <2>2. ChunksAccounted
    <3>1. {c \in Chunks : pool.inUse[c]} = {pool.chunks[i] : i \in 0 .. pool.count - 1}
      BY <2>1 DEF Tables, Listed
    <3>2. /\ pool.count * PerChunk >= pool.nodes
          /\ (pool.count - 1) * PerChunk < pool.nodes \/ pool.count = 0
      <4>1. pool.count \in Nat /\ pool.nodes \in Nat
        BY <2>1, PoolTypes, PoolLimits
      <4>2. pool.count * PerChunk \in Int
        BY <4>1, PoolLimits
      <4> QED BY <2>1, <4>1, <4>2 DEF Tables, Enough
    <3> QED BY <3>1, <3>2 DEF ChunksAccounted
  <2>3. \A i \in 0 .. pool.nodes - 1 :
          pool.chunks[i \div PerChunk] \in Chunks /\ pool.inUse[pool.chunks[i \div PerChunk]]
    <3> TAKE i \in 0 .. pool.nodes - 1
    <3>1. i \div PerChunk \in 0 .. pool.count - 1 /\ pool.chunks[i \div PerChunk] \in Chunks
      BY <2>1, SlotOf
    <3> QED BY <2>1, <3>1 DEF Tables, Listed
  <2>4. \A i, j \in 0 .. pool.nodes - 1 :
          <<pool.chunks[i \div PerChunk], i % PerChunk>>
            = <<pool.chunks[j \div PerChunk], j % PerChunk>> => i = j
    BY <2>1, SlotsApart
  <2>5. \A i \in 0 .. pool.nodes - 1 : LinksOK(pool, i)
    BY <2>1 DEF Sound, Linked
  <2> QED BY <2>2, <2>3, <2>4, <2>5 DEF NodesHaveTheirOwnSlots
<1> QED BY <1>1, AstInvariant, PTL

(* "AST pool exhausted" is reported only when every slot of every chunk    *)
(* holds a node of this compile.                                           *)
THEOREM AstExhaustion == Spec => []ExhaustionIsHonest
<1>1. AstInv => ExhaustionIsHonest
  BY DEF AstInv, Sound, Honest, ExhaustionIsHonest
<1> QED BY <1>1, AstInvariant, PTL

-----------------------------------------------------------------------------
(* Nothing is lost.  Each node is given a mark: the lines its subtree      *)
(* stands for, the block it is a child of, and its rank in the order of    *)
(* the visit.  Marks that fit the links make the listing of a node the     *)
(* lines of its mark (Lists), and every step of the parser keeps marks     *)
(* that fit, for the lines read so far (TextInv).                          *)

(* The lines from a up to b, b excluded.                                   *)
Lines(a, b) == [k \in 1 .. b - a |-> a + k - 1]

LEMMA LinesJoin ==
  ASSUME NEW a \in Nat, NEW b \in Nat, NEW c \in Nat, a <= b, b <= c
  PROVE  Lines(a, b) \in Seq(Nat) /\ Lines(a, b) \o Lines(b, c) = Lines(a, c)
<1> DEFINE s == Lines(a, b)
           t == Lines(b, c)
           u == Lines(a, c)
<1>0. b - a \in Nat /\ c - b \in Nat /\ c - a \in Nat /\ (b - a) + (c - b) = c - a
  OBVIOUS
<1>1. s \in Seq(Nat) /\ Len(s) = b - a /\ \A k \in 1 .. b - a : s[k] = a + k - 1
  BY <1>0 DEF Lines
<1>2. t \in Seq(Nat) /\ Len(t) = c - b /\ \A k \in 1 .. c - b : t[k] = b + k - 1
  BY <1>0 DEF Lines
<1>3. u \in Seq(Nat) /\ Len(u) = c - a /\ \A k \in 1 .. c - a : u[k] = a + k - 1
  BY <1>0 DEF Lines
<1> HIDE DEF s, t, u
<1>4. s \o t \in Seq(Nat) /\ Len(s \o t) = Len(u)
  BY <1>0, <1>1, <1>2, <1>3, ConcatProperties
<1>5. ASSUME NEW k \in 1 .. Len(u) PROVE (s \o t)[k] = u[k]
  <2>1. (s \o t)[k] = IF k <= Len(s) THEN s[k] ELSE t[k - Len(s)]
    <3>1. k \in 1 .. Len(s) + Len(t)
      BY <1>0, <1>1, <1>2, <1>3
    <3> QED BY <1>1, <1>2, <3>1, ConcatProperties
  <2>2. CASE k <= Len(s)
    BY <1>1, <1>3, <2>1, <2>2
  <2>3. CASE ~(k <= Len(s))
    <3>1. k - (b - a) \in 1 .. c - b /\ b + (k - (b - a)) - 1 = a + k - 1
      BY <1>0, <1>1, <1>3, <2>3
    <3> QED BY <1>1, <1>2, <1>3, <2>1, <2>3, <3>1
  <2> QED BY <2>2, <2>3
<1>6. s \o t = u
  BY <1>3, <1>4, <1>5, SeqEqual
<1> QED BY <1>1, <1>6 DEF s, t, u

LEMMA LinesShort ==
  ASSUME NEW a \in Nat
  PROVE  Lines(a, a) = <<>> /\ Lines(a, a + 1) = <<a>>
<1>1. a - a = 0 /\ (a + 1) - a = 1
  OBVIOUS
<1>2. Lines(a, a) = <<>>
  BY <1>1 DEF Lines
<1>3. Lines(a, a + 1) = <<a>>
  <2>1. Lines(a, a + 1) \in Seq(Nat) /\ Len(Lines(a, a + 1)) = 1 /\ Lines(a, a + 1)[1] = a
    BY <1>1 DEF Lines
  <2> QED BY <2>1
<1> QED BY <1>2, <1>3

(* The listing, level by level.                                            *)
Levels(p, f, m) ==
  f = [d \in 0 .. m |-> IF d = 0 THEN [i \in Link |-> <<>>] ELSE Below(p, f[d - 1])]

LEMMA LevelsExist ==
  ASSUME NEW p, NEW n \in Nat
  PROVE  \E f : Levels(p, f, n)
<1> DEFINE Good(m) == \E f : Levels(p, f, m)
           T == {m \in Nat : ~Good(m)}
<1>1. SUFFICES ASSUME T # {} PROVE FALSE
  OBVIOUS
<1>2. PICK m \in T : \A k \in T : m <= k
  <2>1. T \subseteq Nat
    OBVIOUS
  <2> HIDE DEF T
  <2> QED BY <1>1, <2>1, NatLeast
<1>3. m \in Nat /\ ~Good(m) /\ \A k \in Nat : ~Good(k) => m <= k
  BY <1>2
<1>4. CASE m = 0
  <2> DEFINE f == [k \in 0 .. 0 |-> [i \in Link |-> <<>>]]
  <2>1. Levels(p, f, 0)
    BY DEF Levels
  <2> HIDE DEF f
  <2>2. Good(0)
    BY <2>1
  <2> QED BY <1>3, <1>4, <2>2
<1>5. CASE m # 0
  <2>1. m - 1 \in Nat /\ Good(m - 1)
    <3>1. m - 1 \in Nat /\ ~(m <= m - 1)
      BY <1>3, <1>5
    <3> HIDE DEF Good
    <3> QED BY <1>3, <3>1
  <2>2. PICK g : Levels(p, g, m - 1)
    BY <2>1
  <2>3. \A k \in 0 .. m - 1 : g[k] = IF k = 0 THEN [i \in Link |-> <<>>] ELSE Below(p, g[k - 1])
    BY <2>2 DEF Levels
  <2> DEFINE f == [k \in 0 .. m |-> IF k = m THEN Below(p, g[m - 1]) ELSE g[k]]
  <2>4. \A k \in 0 .. m - 1 : f[k] = g[k]
    BY <1>3
  <2>5. f[m] = Below(p, f[m - 1])
    BY <1>3, <2>1, <2>4
  <2>6. \A k \in 0 .. m : f[k] = IF k = 0 THEN [i \in Link |-> <<>>] ELSE Below(p, f[k - 1])
    <3> SUFFICES ASSUME NEW k \in 0 .. m
                 PROVE  f[k] = IF k = 0 THEN [i \in Link |-> <<>>] ELSE Below(p, f[k - 1])
      OBVIOUS
    <3>1. CASE k = m
      BY <1>3, <1>5, <2>5, <3>1
    <3>2. CASE k # m
      <4>1. k \in 0 .. m - 1 /\ (k # 0 => k - 1 \in 0 .. m - 1)
        BY <1>3, <3>2
      <4> HIDE DEF f
      <4> QED BY <2>3, <2>4, <4>1
    <3> QED BY <3>1, <3>2
  <2>7. f = [k \in 0 .. m |-> f[k]]
    OBVIOUS
  <2> HIDE DEF f
  <2>8. Levels(p, f, m)
    BY <2>6, <2>7 DEF Levels
  <2>9. Good(m)
    BY <2>8
  <2> QED BY <1>3, <2>9
<1> QED BY <1>4, <1>5

LEMMA ListingLevels ==
  ASSUME NEW p, NEW root \in Link
  PROVE  \E f : Levels(p, f, Depth) /\ Listing(p, root) = f[Depth][root]
<1>1. Depth \in Nat
  BY PoolLimits DEF Depth
<1> DEFINE f == CHOOSE h : Levels(p, h, Depth)
<1>2. Levels(p, f, Depth)
  BY <1>1, LevelsExist
<1>3. Listing(p, root) = f[Depth][root]
  BY DEF Listing, Levels
<1> QED BY <1>2, <1>3

(* What a node's subtree stands for: its lines, from one up to another,    *)
(* the block it is a child of, and its place in the order of the visit.    *)
Mark == [from : Nat, upto : Nat, of : Link, rank : Nat]
Nodes(p) == 0 .. p.nodes - 1
Own(p, i) == IF Get(p, i).line = 0 THEN 0 ELSE 1

(* The line after node i and its later siblings, and after the link c of a *)
(* node whose lines so far end before x.                                   *)
End(g, i) == IF g[i].of = NodeNull THEN g[i].upto ELSE g[g[i].of].upto
Past(g, c, x) == IF c = NodeNull THEN x ELSE End(g, c)

(* The lines of a node are its own, then those of its links.               *)
PastOwn(p, g, i) == g[i].from + Own(p, i)
PastLeft(p, g, i) == Past(g, Get(p, i).left, PastOwn(p, g, i))
PastRight(p, g, i) == Past(g, Get(p, i).right, PastLeft(p, g, i))
Threaded(p, g, i) ==
  LET n == Get(p, i) IN
    /\ n.line = 0 \/ n.line = g[i].from
    /\ n.left # NodeNull => g[n.left].from = PastOwn(p, g, i) /\ g[n.left].of \in {NodeNull, i}
    /\ n.right # NodeNull => g[n.right].from = PastLeft(p, g, i) /\ g[n.right].of = NodeNull
    /\ n.ival # NodeNull => g[n.ival].from = PastRight(p, g, i) /\ g[n.ival].of = NodeNull
    /\ g[i].upto = Past(g, n.ival, PastRight(p, g, i))

(* Siblings follow one another, to the end of the block they are in.       *)
Chained(p, g, i) ==
  LET n == Get(p, i).next IN
    /\ n # NodeNull => g[n].from = g[i].upto /\ g[n].of = g[i].of /\ g[i].of # NodeNull
    /\ n = NodeNull => End(g, i) = g[i].upto
Ordered(g, i) == g[i].from <= g[i].upto /\ g[i].upto <= End(g, i)
Owned(p, g, i) ==
  g[i].of # NodeNull => g[i].of \in Nodes(p) /\ LeftOf(p, g[i].of) # NodeNull
Ranked(p, g, i) ==
  LET n == Get(p, i) IN
    /\ n.left # NodeNull => g[n.left].rank > g[i].rank
    /\ n.right # NodeNull => g[n.right].rank > g[i].rank
    /\ n.ival # NodeNull => g[n.ival].rank > g[i].rank
    /\ n.next # NodeNull => g[n.next].rank > g[i].rank

Good(p, g, i) ==
  Threaded(p, g, i) /\ Chained(p, g, i) /\ Ordered(g, i) /\ Owned(p, g, i) /\ Ranked(p, g, i)
AllGood(p, g) == \A i \in Nodes(p) : Good(p, g, i)
RankedBefore(g, p, R) == \A i \in Nodes(p) : g[i].rank < R

LEMMA NodeIsIndex ==
  ASSUME NEW p, Sound(p)
  PROVE  Nodes(p) \subseteq Index /\ Nodes(p) \subseteq Nat /\ Ref(p) = Nodes(p) \cup {NodeNull}
         /\ NodeNull \notin Nodes(p)
<1>1. p \in Pool /\ Tables(p) /\ NodeNull \notin Nodes(p)
  BY SoundPool DEF Nodes
<1>2. Ref(p) \subseteq Link /\ Ref(p) = Nodes(p) \cup {NodeNull}
  BY <1>1, RefIsLink DEF Ref, Nodes
<1>3. Nodes(p) \subseteq Nat
  BY DEF Nodes
<1> QED BY <1>1, <1>2, <1>3 DEF Link

(* Ends are numbers, in order.                                             *)
LEMMA EndTypes ==
  ASSUME NEW g \in [Index -> Mark], NEW i \in Index
  PROVE  /\ g[i].from \in Nat /\ g[i].upto \in Nat /\ g[i].of \in Link /\ g[i].rank \in Nat
         /\ End(g, i) \in Nat
<1>1. g[i] \in Mark
  OBVIOUS
<1>2. g[i].of # NodeNull => g[g[i].of] \in Mark
  BY <1>1 DEF Mark, Link
<1> QED BY <1>1, <1>2 DEF Mark, End

(* Every node lists its lines and those of its later siblings.             *)
LEMMA Lists ==
  ASSUME NEW p, Sound(p), NEW g \in [Index -> Mark], AllGood(p, g), NEW R \in Nat,
         RankedBefore(g, p, R), NEW f, Levels(p, f, Depth)
  PROVE  \A d \in 0 .. Depth, i \in Nodes(p) :
           d + g[i].rank >= R => f[d][i] = Lines(g[i].from, End(g, i))
<1> DEFINE Claim(d) == \A i \in Nodes(p) :
             d + g[i].rank >= R => f[d][i] = Lines(g[i].from, End(g, i))
           T == {d \in 0 .. Depth : ~Claim(d)}
<1>0. Nodes(p) \subseteq Index /\ Depth \in Nat
  BY NodeIsIndex, PoolLimits DEF Depth
<1>1. SUFFICES ASSUME T # {} PROVE FALSE
  OBVIOUS
<1>2. PICK d \in T : \A k \in T : d <= k
  <2>1. T \subseteq Nat
    BY <1>0
  <2> HIDE DEF T
  <2> QED BY <1>1, <2>1, NatLeast
<1>3. d \in 0 .. Depth /\ d \in Nat /\ ~Claim(d) /\ \A k \in 0 .. Depth : ~Claim(k) => d <= k
  <2> HIDE DEF Claim
  <2> QED BY <1>0, <1>2
<1>4. PICK i \in Nodes(p) : d + g[i].rank >= R /\ f[d][i] # Lines(g[i].from, End(g, i))
  BY <1>3
<1>5. g[i].rank < R /\ g[i].rank \in Nat
  BY <1>0, <1>4, EndTypes DEF RankedBefore
<1>6. d \in 1 .. Depth /\ d - 1 \in 0 .. Depth /\ ~(d <= d - 1)
  BY <1>0, <1>3, <1>4, <1>5
<1>7. Claim(d - 1)
  <2> HIDE DEF Claim
  <2> QED BY <1>3, <1>6
<1> DEFINE e == f[d - 1]
           n == Get(p, i)
<1>8. f[d] = Below(p, e)
  BY <1>3, <1>6 DEF Levels
<1>9. e[NodeNull] = <<>>
  <2>1. NodeNull \in Link
    BY DEF Link
  <2>2. e = [k \in Link |-> <<>>] \/ e = Below(p, f[d - 1 - 1])
    BY <1>6 DEF Levels
  <2> QED BY <2>1, <2>2 DEF Below
<1>10. f[d][i] = (IF n.line = 0 THEN <<>> ELSE <<n.line>>)
                 \o e[n.left] \o e[n.right] \o e[n.ival] \o e[n.next]
  <2>1. i \in Link /\ i # NodeNull
    BY <1>0, <1>4, NodeIsIndex DEF Link
  <2> QED BY <1>8, <2>1 DEF Below
<1> HIDE DEF e
<1>11. /\ n.left \in Ref(p) /\ n.right \in Ref(p) /\ n.ival \in Ref(p) /\ n.next \in Ref(p)
       /\ Ref(p) = Nodes(p) \cup {NodeNull}
  BY <1>4, LinkRanges, NodeIsIndex DEF Nodes
<1>12. ASSUME NEW c \in Ref(p), NEW x \in Nat,
              c # NodeNull => g[c].from = x /\ g[c].rank > g[i].rank
       PROVE  e[c] = Lines(x, Past(g, c, x)) /\ Past(g, c, x) \in Nat /\ x <= Past(g, c, x)
  <2>1. CASE c = NodeNull
    <3>1. Past(g, c, x) = x /\ e[c] = <<>>
      BY <1>9, <2>1 DEF Past
    <3>2. Lines(x, x) = <<>>
      BY <1>12, LinesShort
    <3> QED BY <1>12, <3>1, <3>2
  <2>2. CASE c # NodeNull
    <3>1. c \in Nodes(p) /\ c \in Index
      BY <1>0, <1>11, <2>2
    <3>2. g[c].rank \in Nat /\ g[c].upto \in Nat /\ End(g, c) \in Nat
      BY <3>1, EndTypes
    <3>3. d - 1 + g[c].rank >= R
      BY <1>3, <1>4, <1>5, <1>12, <2>2, <3>2
    <3>4. e[c] = Lines(g[c].from, End(g, c))
      BY <1>7, <3>1, <3>3 DEF e
    <3>5. g[c].from <= End(g, c)
      BY <1>12, <2>2, <3>1, <3>2 DEF AllGood, Good, Ordered
    <3> QED BY <1>12, <2>2, <3>2, <3>4, <3>5 DEF Past
  <2> QED BY <2>1, <2>2
<1>13. Good(p, g, i) /\ g[i].from \in Nat
  BY <1>0, <1>4, EndTypes DEF AllGood
<1> DEFINE a == PastOwn(p, g, i)
           b == PastLeft(p, g, i)
           c == PastRight(p, g, i)
           z == g[i].upto
           x == g[i].from
<1>14. /\ a \in Nat /\ x \in Nat /\ x <= a
       /\ (IF n.line = 0 THEN <<>> ELSE <<n.line>>) = Lines(x, a)
  <2>1. x \in Nat /\ x + 1 \in Nat /\ (n.line = 0 \/ n.line = x)
    BY <1>13 DEF Good, Threaded
  <2>2. a = IF n.line = 0 THEN x ELSE x + 1
    BY <2>1 DEF PastOwn, Own
  <2>3. Lines(x, x) = <<>> /\ Lines(x, x + 1) = <<x>>
    BY <2>1, LinesShort
  <2> HIDE DEF a, x, n
  <2>4. x <= a /\ a \in Nat
    BY <2>1, <2>2
  <2> QED BY <2>1, <2>2, <2>3, <2>4
<1>15. e[n.left] = Lines(a, b) /\ b \in Nat /\ a <= b
  BY <1>11, <1>12, <1>13, <1>14 DEF Good, Threaded, Ranked, PastLeft
<1>16. e[n.right] = Lines(b, c) /\ c \in Nat /\ b <= c
  BY <1>11, <1>12, <1>13, <1>15 DEF Good, Threaded, Ranked, PastRight
<1>17. e[n.ival] = Lines(c, z) /\ z \in Nat /\ c <= z
  BY <1>11, <1>12, <1>13, <1>16 DEF Good, Threaded, Ranked
<1>18. e[n.next] = Lines(z, End(g, i)) /\ End(g, i) \in Nat /\ z <= End(g, i)
  <2>1. End(g, i) = Past(g, n.next, z)
    <3>1. CASE n.next = NodeNull
      BY <1>13, <3>1 DEF Good, Chained, Past
    <3>2. CASE n.next # NodeNull
      BY <1>13, <3>2 DEF Good, Chained, Past, End
    <3> QED BY <3>1, <3>2
  <2>2. n.next # NodeNull => g[n.next].from = z /\ g[n.next].rank > g[i].rank
    BY <1>13 DEF Good, Chained, Ranked
  <2> HIDE DEF z, n
  <2> QED BY <1>11, <1>12, <1>17, <2>1, <2>2
<1>19. f[d][i] = Lines(x, End(g, i))
  <2> HIDE DEF a, b, c, z, x, n
  <2>0. x <= b /\ x <= c /\ x <= z
    BY <1>14, <1>15, <1>16, <1>17, <1>18
  <2>1. Lines(x, a) \o Lines(a, b) = Lines(x, b)
    BY <1>14, <1>15, LinesJoin
  <2>2. Lines(x, b) \o Lines(b, c) = Lines(x, c)
    BY <1>14, <1>15, <1>16, <2>0, LinesJoin
  <2>3. Lines(x, c) \o Lines(c, z) = Lines(x, z)
    BY <1>14, <1>16, <1>17, <2>0, LinesJoin
  <2>4. Lines(x, z) \o Lines(z, End(g, i)) = Lines(x, End(g, i))
    BY <1>14, <1>17, <1>18, <2>0, LinesJoin
  <2> QED BY <1>10, <1>14, <1>15, <1>16, <1>17, <1>18, <2>1, <2>2, <2>3, <2>4
<1> QED BY <1>4, <1>19 DEF x

(* No node has n below it, and no node is a child of n.                    *)
Unlinked(p, n) ==
  \A i \in Nodes(p) : Get(p, i).left # n /\ Get(p, i).right # n /\ Get(p, i).ival # n
Childless(p, g, n) == \A i \in Nodes(p) : g[i].of # n

(* A block has one last child.                                             *)
Tails(p, g) ==
  \A i, j \in Nodes(p) :
    g[i].of = g[j].of /\ g[i].of # NodeNull /\ Get(p, i).next = NodeNull
    /\ Get(p, j).next = NodeNull => i = j

(* An open block has nothing but children, and hangs nowhere yet.          *)
OpenBlock(p, g, b) ==
  /\ Get(p, b).right = NodeNull /\ Get(p, b).ival = NodeNull /\ Get(p, b).next = NodeNull
  /\ g[b].of = NodeNull /\ Unlinked(p, b)
  /\ Get(p, b).left # NodeNull => g[Get(p, b).left].of = b

(* The rank of the PROC node, between a procedure's body and what is before it. *)
Spare(k) == IF k = 1 THEN 1 ELSE 0
Above(p, g, b, s, n) ==
  \A i \in Nodes(p) : i = b \/ g[i].of = b => g[i].rank + s < g[n].rank

Under(p, g, b, r) == \A i \in Nodes(p) : i = b \/ g[i].of = b => g[i].rank < r

(* The blocks in progress: the lines of each end where the next begins.    *)
Stacked(p, g, o) ==
  /\ o \in Seq(Nodes(p)) /\ Len(o) >= 1
  /\ g[o[1]].from = 1 /\ g[o[1]].rank = 0
  /\ \A k \in 1 .. Len(o) : OpenBlock(p, g, o[k])
  /\ \A k \in 1 .. Len(o) - 1 :
       g[o[k]].upto = g[o[k + 1]].from /\ Above(p, g, o[k], Spare(k), o[k + 1])
  /\ \A j, k \in 1 .. Len(o) : o[j] = o[k] => j = k

(* The tree holds the lines before x, each once, in the order of the visit. *)
Tree(p, g, o, x, R) ==
  /\ g \in [Index -> Mark] /\ AllGood(p, g) /\ Tails(p, g) /\ RankedBefore(g, p, R)
  /\ Stacked(p, g, o) /\ g[o[Len(o)]].upto = x

(* A node that hangs nowhere yet.                                          *)
Loose(p, g, o, n) ==
  /\ n \in Nodes(p) /\ g[n].of = NodeNull /\ Get(p, n).next = NodeNull /\ Unlinked(p, n)
  /\ \A k \in 1 .. Len(o) : o[k] # n

LEMMA Linkage ==
  ASSUME NEW p, Sound(p), NEW i \in Nodes(p)
  PROVE  /\ Get(p, i).left # NodeNull => Get(p, i).left \in Nodes(p)
         /\ Get(p, i).right # NodeNull => Get(p, i).right \in Nodes(p)
         /\ Get(p, i).ival # NodeNull => Get(p, i).ival \in Nodes(p)
         /\ Get(p, i).next # NodeNull => Get(p, i).next \in Nodes(p)
BY LinkRanges, NodeIsIndex DEF Nodes

(* A node reads its own mark, those of its links and of their block.       *)
LEMMA ThreadedSame ==
  ASSUME NEW p, NEW q, NEW g, NEW h, NEW i, Threaded(p, g, i),
         h[i].from = g[i].from, h[i].upto = g[i].upto,
         Get(q, i).line = Get(p, i).line, Get(q, i).left = Get(p, i).left,
         Get(q, i).right = Get(p, i).right, Get(q, i).ival = Get(p, i).ival,
         \A c \in {Get(p, i).left, Get(p, i).right, Get(p, i).ival} : c # NodeNull =>
           h[c].from = g[c].from /\ h[c].of = g[c].of /\ End(h, c) = End(g, c)
  PROVE  Threaded(q, h, i)
<1> DEFINE n == Get(p, i)
<1>1. \A c \in {n.left, n.right, n.ival} : \A x : Past(h, c, x) = Past(g, c, x)
  BY DEF Past
<1>2. PastOwn(q, h, i) = PastOwn(p, g, i)
  BY DEF PastOwn, Own
<1>3. PastLeft(q, h, i) = PastLeft(p, g, i)
  BY <1>1, <1>2 DEF PastLeft
<1>4. PastRight(q, h, i) = PastRight(p, g, i)
  BY <1>1, <1>3 DEF PastRight
<1> QED BY <1>1, <1>2, <1>3, <1>4 DEF Threaded

LEMMA RankedSame ==
  ASSUME NEW p, NEW q, NEW g, NEW h, NEW i, Ranked(p, g, i), h[i].rank = g[i].rank,
         Get(q, i) = Get(p, i),
         \A c \in {Get(p, i).left, Get(p, i).right, Get(p, i).ival, Get(p, i).next} :
           c # NodeNull => h[c].rank = g[c].rank
  PROVE  Ranked(q, h, i)
BY DEF Ranked

LEMMA GoodSame ==
  ASSUME NEW p, Sound(p), NEW g, AllGood(p, g), NEW q, NEW h, Nodes(p) \subseteq Nodes(q),
         \A j \in Nodes(p) : Get(q, j) = Get(p, j) /\ h[j] = g[j], NEW i \in Nodes(p)
  PROVE  Good(q, h, i)
<1>1. ASSUME NEW c \in Nodes(p) PROVE h[c] = g[c] /\ End(h, c) = End(g, c)
  <2>1. g[c].of # NodeNull => g[c].of \in Nodes(p)
    BY DEF AllGood, Good, Owned
  <2> QED BY <2>1 DEF End
<1>2. /\ Threaded(p, g, i) /\ Chained(p, g, i) /\ Ordered(g, i) /\ Owned(p, g, i)
      /\ Ranked(p, g, i) /\ Get(q, i) = Get(p, i)
  BY DEF AllGood, Good
<1>3. /\ Get(p, i).left # NodeNull => Get(p, i).left \in Nodes(p)
      /\ Get(p, i).right # NodeNull => Get(p, i).right \in Nodes(p)
      /\ Get(p, i).ival # NodeNull => Get(p, i).ival \in Nodes(p)
      /\ Get(p, i).next # NodeNull => Get(p, i).next \in Nodes(p)
  BY Linkage
<1>4. Threaded(q, h, i)
  BY <1>1, <1>2, <1>3, ThreadedSame
<1>5. Chained(q, h, i) /\ Ordered(h, i)
  BY <1>1, <1>2, <1>3 DEF Chained, Ordered
<1>6. Owned(q, h, i)
  BY <1>1, <1>2 DEF Owned, LeftOf
<1>7. Ranked(q, h, i)
  BY <1>1, <1>2, <1>3, RankedSame
<1> QED BY <1>4, <1>5, <1>6, <1>7 DEF Good

(* The blocks, when nothing of what they read changes.                     *)
LEMMA StackedSame ==
  ASSUME NEW p, NEW g, NEW o, Stacked(p, g, o), NEW q, NEW h,
         \A i \in Nodes(p) : i \in Nodes(q),
         \A k \in 1 .. Len(o) : OpenBlock(q, h, o[k]),
         \A k \in 1 .. Len(o) : h[o[k]].from = g[o[k]].from /\ h[o[k]].rank = g[o[k]].rank,
         \A k \in 1 .. Len(o) - 1 : h[o[k]].upto = g[o[k]].upto,
         \A k \in 1 .. Len(o) - 1, i \in Nodes(q) : i = o[k] \/ h[i].of = o[k] =>
           i \in Nodes(p) /\ (i = o[k] \/ g[i].of = o[k]) /\ h[i].rank = g[i].rank
  PROVE  Stacked(q, h, o)
<1>1. o \in Seq(Nodes(p)) /\ Len(o) \in Nat /\ Len(o) >= 1
  BY DEF Stacked
<1>2. o \in Seq(Nodes(q))
  <2>1. Nodes(p) \subseteq Nodes(q)
    OBVIOUS
  <2> QED BY <1>1, <2>1
<1>3. h[o[1]].from = 1 /\ h[o[1]].rank = 0
  BY <1>1 DEF Stacked
<1>4. ASSUME NEW k \in 1 .. Len(o) - 1
      PROVE  h[o[k]].upto = h[o[k + 1]].from /\ Above(q, h, o[k], Spare(k), o[k + 1])
  <2>1. k \in 1 .. Len(o) /\ k + 1 \in 1 .. Len(o)
    BY <1>1
  <2>2. g[o[k]].upto = g[o[k + 1]].from /\ Above(p, g, o[k], Spare(k), o[k + 1])
    BY DEF Stacked
  <2> QED BY <2>1, <2>2 DEF Above
<1> QED BY <1>1, <1>2, <1>3, <1>4 DEF Stacked

(* nd_alloc in a pool that is not exhausted after it.                      *)
LEMMA AllocNode ==
  ASSUME NEW p, Sound(p), NEW ln \in 0 .. MaxLines, ~NdAlloc(p, ln).pool.exhausted
  PROVE  LET r == NdAlloc(p, ln)
             q == r.pool
         IN  /\ Sound(q) /\ ~p.exhausted /\ r.node = p.nodes /\ q.nodes = p.nodes + 1
             /\ p.nodes \in Nat /\ p.nodes \in Index /\ p.nodes \in Nodes(q)
             /\ \A i \in Nodes(q) : i \in Nodes(p) \/ i = p.nodes
             /\ \A i \in Nodes(p) : i \in Nodes(q) /\ i # p.nodes /\ Get(q, i) = Get(p, i)
             /\ Get(q, p.nodes) = FreshNode(ln)
<1> DEFINE r == NdAlloc(p, ln)
           q == r.pool
<1>1. Built(p, q, r.node) /\ (r.node = NodeNull => q.exhausted)
  BY AllocSound
<1>2. p.exhausted => r.node = NodeNull
  BY FullNoNode
<1>3. /\ \A j \in 0 .. p.nodes - 1 : Get(q, j) = Get(p, j)
      /\ \/ r.node = NodeNull /\ q.nodes = p.nodes /\ q.exhausted
         \/ r.node = p.nodes /\ q.nodes = p.nodes + 1 /\ Get(q, p.nodes) = FreshNode(ln)
  BY AllocGets DEF Sound
<1>4. ~q.exhausted
  OBVIOUS
<1> HIDE DEF q, r
<1>5. /\ Sound(q) /\ ~p.exhausted /\ r.node = p.nodes /\ q.nodes = p.nodes + 1
      /\ Get(q, p.nodes) = FreshNode(ln) /\ p.nodes \in Nat
  BY <1>1, <1>2, <1>3, <1>4, SoundPool DEF Built
<1>6. p.nodes \in Nodes(q) /\ Nodes(q) \subseteq Index
  BY <1>5, NodeIsIndex DEF Nodes
<1>7. /\ \A i \in Nodes(q) : i \in Nodes(p) \/ i = p.nodes
      /\ \A i \in Nodes(p) : i \in Nodes(q) /\ i # p.nodes
  BY <1>5 DEF Nodes
<1> QED BY <1>3, <1>5, <1>6, <1>7 DEF q, r, Nodes

NewMark(a, b, rk) == [from |-> a, upto |-> b, of |-> NodeNull, rank |-> rk]
Marked(g, n, m) == [g EXCEPT ![n] = m]
Wide(ln) == IF ln = 0 THEN 0 ELSE 1

LEMMA MarkedIs ==
  ASSUME NEW g \in [Index -> Mark], NEW n \in Index, NEW m \in Mark
  PROVE  /\ Marked(g, n, m) \in [Index -> Mark] /\ Marked(g, n, m)[n] = m
         /\ \A i \in Index : i # n => Marked(g, n, m)[i] = g[i]
BY DEF Marked

(* A fresh node, for line ln or none, that stands for the lines from a.    *)
LEMMA AddNode ==
  ASSUME NEW p, Sound(p), NEW ln \in 0 .. MaxLines, ~NdAlloc(p, ln).pool.exhausted,
         NEW g, NEW o, NEW x, NEW R \in Nat, Tree(p, g, o, x, R),
         NEW S \in Nat, R <= S, NEW a \in Nat, ln = 0 \/ ln = a, NEW rk \in Nat, rk < S
  PROVE  LET q == NdAlloc(p, ln).pool
             n == p.nodes
             h == Marked(g, n, NewMark(a, a + Wide(ln), rk))
         IN  /\ Sound(q) /\ Tree(q, h, o, x, S) /\ Loose(q, h, o, n) /\ Childless(q, h, n)
             /\ h[n] = NewMark(a, a + Wide(ln), rk)
             /\ \A i \in Nodes(p) : h[i] = g[i]
             /\ \A m : Loose(p, g, o, m) => Loose(q, h, o, m)
             /\ \A m \in Nodes(p) : Childless(p, g, m) => Childless(q, h, m)
             /\ \A u \in Nodes(p) : \A r : Under(p, g, u, r) => Under(q, h, u, r)
<1> DEFINE q == NdAlloc(p, ln).pool
           n == p.nodes
           mark == NewMark(a, a + Wide(ln), rk)
           h == Marked(g, n, mark)
<1>1. /\ Sound(q) /\ n \in Index /\ n \in Nodes(q) /\ n \in Nat
      /\ \A i \in Nodes(q) : i \in Nodes(p) \/ i = n
      /\ \A i \in Nodes(p) : i \in Nodes(q) /\ i # n /\ Get(q, i) = Get(p, i)
      /\ Get(q, n) = FreshNode(ln)
  BY AllocNode
<1>2. /\ g \in [Index -> Mark] /\ AllGood(p, g) /\ Tails(p, g) /\ RankedBefore(g, p, R)
      /\ Stacked(p, g, o) /\ g[o[Len(o)]].upto = x
  BY DEF Tree
<1>3. mark \in Mark /\ n # NodeNull
  BY <1>1 DEF NewMark, Mark, Wide, Link, NodeNull
<1>4. Nodes(p) \subseteq Index /\ NodeNull \notin Nodes(p)
  BY NodeIsIndex
<1> HIDE DEF q, n, mark
<1>5. h \in [Index -> Mark] /\ h[n] = mark /\ \A i \in Nodes(p) : h[i] = g[i]
  BY <1>1, <1>2, <1>3, <1>4, MarkedIs
<1> HIDE DEF h
<1>6. mark.from = a /\ mark.upto = a + Wide(ln) /\ mark.of = NodeNull /\ mark.rank = rk
  BY DEF mark, NewMark
<1>7. /\ Get(q, n).left = NodeNull /\ Get(q, n).right = NodeNull /\ Get(q, n).next = NodeNull
      /\ Get(q, n).ival = NodeNull /\ Get(q, n).line = ln
  BY <1>1 DEF FreshNode
<1>8. Good(q, h, n)
  <2>1. End(h, n) = mark.upto
    BY <1>5, <1>6 DEF End
  <2>2. PastOwn(q, h, n) = mark.upto
    BY <1>5, <1>6, <1>7 DEF PastOwn, Own, Wide
  <2>3. PastRight(q, h, n) = mark.upto /\ PastLeft(q, h, n) = mark.upto
    BY <1>7, <2>2 DEF PastRight, PastLeft, Past
  <2>4. Threaded(q, h, n)
    BY <1>5, <1>6, <1>7, <2>3 DEF Threaded, Past
  <2>5. Chained(q, h, n) /\ Owned(q, h, n) /\ Ranked(q, h, n)
    BY <1>5, <1>6, <1>7, <2>1 DEF Chained, Owned, Ranked
  <2>6. Ordered(h, n)
    BY <1>5, <1>6, <2>1 DEF Ordered, Wide
  <2> QED BY <2>4, <2>5, <2>6 DEF Good
<1>9. AllGood(q, h)
  <2>1. \A i \in Nodes(p) : Good(q, h, i)
    BY <1>1, <1>2, <1>5, GoodSame
  <2> QED BY <1>1, <1>8, <2>1 DEF AllGood
<1>10. Tails(q, h)
  <2> SUFFICES ASSUME NEW i \in Nodes(q), NEW j \in Nodes(q), h[i].of = h[j].of,
                      h[i].of # NodeNull, Get(q, i).next = NodeNull, Get(q, j).next = NodeNull
               PROVE  i = j
    BY DEF Tails
  <2>1. i \in Nodes(p) /\ j \in Nodes(p)
    BY <1>1, <1>5, <1>6
  <2> QED BY <1>1, <1>2, <1>5, <2>1 DEF Tails
<1>11. RankedBefore(h, q, S)
  <2>1. \A i \in Nodes(p) : g[i].rank \in Nat /\ g[i].rank < R
    BY <1>2, <1>4, EndTypes DEF RankedBefore
  <2> QED BY <1>1, <1>5, <1>6, <2>1 DEF RankedBefore
<1>12. ASSUME NEW m, m # NodeNull, Unlinked(p, m) PROVE Unlinked(q, m)
  BY <1>1, <1>7, <1>12 DEF Unlinked
<1>13. \A k \in 1 .. Len(o) : o[k] \in Nodes(p) /\ OpenBlock(p, g, o[k])
  BY <1>2 DEF Stacked
<1>14. ASSUME NEW b \in Nodes(p), OpenBlock(p, g, b) PROVE OpenBlock(q, h, b)
  <2>1. Unlinked(q, b)
    BY <1>4, <1>12, <1>14 DEF OpenBlock
  <2>2. Get(p, b).left # NodeNull => Get(p, b).left \in Nodes(p)
    BY Linkage
  <2> QED BY <1>1, <1>5, <1>14, <2>1, <2>2 DEF OpenBlock
<1>15. \A i \in Nodes(q) : h[i].of # NodeNull => i \in Nodes(p) /\ h[i] = g[i]
  BY <1>1, <1>5, <1>6
<1>16. Stacked(q, h, o)
  <2>1. Len(o) \in Nat
    BY <1>2 DEF Stacked
  <2>2. \A k \in 1 .. Len(o) - 1 : k \in 1 .. Len(o)
    BY <2>1
  <2>3. \A k \in 1 .. Len(o) : OpenBlock(q, h, o[k])
    BY <1>13, <1>14
  <2>4. \A k \in 1 .. Len(o) - 1, i \in Nodes(q) : i = o[k] \/ h[i].of = o[k] =>
          i \in Nodes(p) /\ (i = o[k] \/ g[i].of = o[k]) /\ h[i].rank = g[i].rank
    BY <1>4, <1>5, <1>13, <1>15, <2>2
  <2>5. \A k \in 1 .. Len(o) : h[o[k]] = g[o[k]]
    BY <1>5, <1>13
  <2> QED BY <1>1, <1>2, <2>2, <2>3, <2>4, <2>5, StackedSame
<1>17. h[o[Len(o)]].upto = x
  <2>1. Len(o) \in 1 .. Len(o)
    BY <1>2 DEF Stacked
  <2> QED BY <1>2, <1>5, <1>13, <2>1
<1>18. Tree(q, h, o, x, S)
  BY <1>5, <1>9, <1>10, <1>11, <1>16, <1>17 DEF Tree
<1>19. Unlinked(q, n)
  <2>1. \A i \in Nodes(p) : n # Get(p, i).left /\ n # Get(p, i).right /\ n # Get(p, i).ival
    BY <1>1, <1>3, Linkage
  <2> QED BY <1>1, <1>3, <1>7, <2>1 DEF Unlinked
<1>20. Loose(q, h, o, n)
  BY <1>1, <1>5, <1>6, <1>7, <1>13, <1>19 DEF Loose
<1>21. Childless(q, h, n)
  BY <1>1, <1>2, <1>3, <1>5, <1>6 DEF Childless, AllGood, Good, Owned
<1>22. \A m : Loose(p, g, o, m) => Loose(q, h, o, m)
  BY <1>1, <1>4, <1>5, <1>12 DEF Loose
<1>23. \A m \in Nodes(p) : Childless(p, g, m) => Childless(q, h, m)
  BY <1>1, <1>4, <1>5, <1>6 DEF Childless
<1>24. \A u \in Nodes(p) : \A r : Under(p, g, u, r) => Under(q, h, u, r)
  BY <1>1, <1>4, <1>5, <1>6 DEF Under
<1> QED BY <1>1, <1>5, <1>18, <1>20, <1>21, <1>22, <1>23, <1>24 DEF q, h, n, mark

(* An operand hangs under a node: its lines come after the node's so far.  *)
EmptyAfter(p, n, f) ==
  /\ f = "left" => Get(p, n).left = NodeNull /\ Get(p, n).right = NodeNull
  /\ f = "right" => Get(p, n).right = NodeNull
  /\ Get(p, n).ival = NodeNull

LEMMA SetChild ==
  ASSUME NEW p, Sound(p), NEW g, NEW o, NEW x, NEW R \in Nat, Tree(p, g, o, x, R),
         NEW n, Loose(p, g, o, n), Childless(p, g, n), NEW c, Loose(p, g, o, c), c # n,
         NEW f \in {"left", "right", "ival"}, EmptyAfter(p, n, f),
         g[c].from = g[n].upto, g[n].rank < g[c].rank
  PROVE  LET q == SetIf(p, n, f, c)
             h == Marked(g, n, NewMark(g[n].from, g[c].upto, g[n].rank))
         IN  /\ Sound(q) /\ q.nodes = p.nodes /\ q.exhausted = p.exhausted
             /\ Tree(q, h, o, x, R) /\ Loose(q, h, o, n) /\ Childless(q, h, n)
             /\ h[n] = NewMark(g[n].from, g[c].upto, g[n].rank)
             /\ Get(q, n) = [Get(p, n) EXCEPT ![f] = c]
             /\ \A i \in Nodes(p) : i # n => h[i] = g[i] /\ Get(q, i) = Get(p, i)
             /\ \A m : Loose(p, g, o, m) /\ m # c => Loose(q, h, o, m)
             /\ \A u, r : Under(p, g, u, r) => Under(q, h, u, r)
<1> DEFINE q == SetIf(p, n, f, c)
           mark == NewMark(g[n].from, g[c].upto, g[n].rank)
           h == Marked(g, n, mark)
<1>1. /\ g \in [Index -> Mark] /\ AllGood(p, g) /\ Tails(p, g) /\ RankedBefore(g, p, R)
      /\ Stacked(p, g, o) /\ g[o[Len(o)]].upto = x
  BY DEF Tree
<1>2. /\ Nodes(p) \subseteq Index /\ NodeNull \notin Nodes(p) /\ n \in Nodes(p) /\ c \in Nodes(p)
      /\ Nodes(p) = 0 .. p.nodes - 1 /\ c \in Ref(p) /\ n # NodeNull /\ c # NodeNull
  BY NodeIsIndex DEF Loose, Nodes
<1>3. /\ g[n].from \in Nat /\ g[n].upto \in Nat /\ g[n].rank \in Nat
      /\ g[c].upto \in Nat /\ g[c].from \in Nat /\ g[c].rank \in Nat /\ mark \in Mark
  <2>1. /\ g[n].from \in Nat /\ g[n].upto \in Nat /\ g[n].rank \in Nat
        /\ g[c].upto \in Nat /\ g[c].from \in Nat /\ g[c].rank \in Nat
    BY <1>1, <1>2, EndTypes
  <2> QED BY <2>1 DEF NewMark, Mark, Link
<1>4. /\ g[n].of = NodeNull /\ g[c].of = NodeNull /\ Unlinked(p, n) /\ Unlinked(p, c)
      /\ Get(p, n).next = NodeNull
  BY DEF Loose
<1>5. q = Put(p, n, f, c)
  BY <1>2 DEF SetIf
<1>6. f \in FieldName /\ f # "next"
  BY DEF FieldName
<1>7. /\ Sound(q) /\ q.nodes = p.nodes /\ q.exhausted = p.exhausted
      /\ Get(q, n) = [Get(p, n) EXCEPT ![f] = c]
      /\ \A j \in 0 .. p.nodes - 1 : j # n => Get(q, j) = Get(p, j)
  BY <1>2, <1>5, <1>6, PutGets, PutSound
<1> HIDE DEF q
<1>8. /\ mark.from = g[n].from /\ mark.upto = g[c].upto /\ mark.of = NodeNull
      /\ mark.rank = g[n].rank
  BY DEF mark, NewMark
<1>9. h \in [Index -> Mark] /\ h[n] = mark /\ \A i \in Index : i # n => h[i] = g[i]
  <2> HIDE DEF mark
  <2> QED BY <1>1, <1>2, <1>3, MarkedIs
<1> HIDE DEF h, mark
<1>10. Nodes(q) = Nodes(p) /\ \A i \in Nodes(p) : i # n => h[i] = g[i] /\ Get(q, i) = Get(p, i)
  BY <1>2, <1>7, <1>9 DEF Nodes
<1>11. \A i \in Nodes(p) : h[i].of = g[i].of /\ h[i].rank = g[i].rank /\ h[i].from = g[i].from
  BY <1>4, <1>8, <1>9, <1>10
<1>12. Get(p, n) \in Node
  BY <1>2, NodeTypes, SoundPool
<1>13. /\ Get(q, n).left = IF f = "left" THEN c ELSE Get(p, n).left
       /\ Get(q, n).right = IF f = "right" THEN c ELSE Get(p, n).right
       /\ Get(q, n).ival = IF f = "ival" THEN c ELSE Get(p, n).ival
       /\ Get(q, n).next = NodeNull /\ Get(q, n).line = Get(p, n).line
  BY <1>4, <1>7, <1>12 DEF Node
<1>14. ASSUME NEW i \in Nodes(p), i # n PROVE End(h, i) = End(g, i)
  <2>1. g[i].of # n
    BY DEF Childless
  <2>2. g[i].of # NodeNull => g[i].of \in Nodes(p)
    BY <1>1 DEF AllGood, Good, Owned
  <2> QED BY <1>10, <1>14, <2>1, <2>2 DEF End
<1>15. End(h, n) = g[c].upto /\ End(h, c) = g[c].upto /\ End(g, c) = g[c].upto
  BY <1>2, <1>4, <1>8, <1>9, <1>10 DEF End
<1>16. ASSUME NEW i \in Nodes(p), i # n PROVE Good(q, h, i)
  <2>1. /\ Threaded(p, g, i) /\ Chained(p, g, i) /\ Ordered(g, i) /\ Owned(p, g, i)
        /\ Ranked(p, g, i) /\ Get(q, i) = Get(p, i) /\ h[i] = g[i]
    BY <1>1, <1>10, <1>16 DEF AllGood, Good
  <2>2. /\ Get(p, i).left # NodeNull => Get(p, i).left \in Nodes(p) /\ Get(p, i).left # n
        /\ Get(p, i).right # NodeNull => Get(p, i).right \in Nodes(p) /\ Get(p, i).right # n
        /\ Get(p, i).ival # NodeNull => Get(p, i).ival \in Nodes(p) /\ Get(p, i).ival # n
        /\ Get(p, i).next # NodeNull => Get(p, i).next \in Nodes(p) /\ Get(p, i).next # n
    <3>1. Get(p, i).next # NodeNull => Get(p, i).next # n
      BY <1>4, <2>1 DEF Chained
    <3> QED BY <1>4, <3>1, Linkage DEF Unlinked
  <2>3. Threaded(q, h, i)
    BY <1>10, <1>14, <2>1, <2>2, ThreadedSame
  <2>4. Chained(q, h, i) /\ Ordered(h, i)
    BY <1>10, <1>14, <1>16, <2>1, <2>2 DEF Chained, Ordered
  <2>5. Owned(q, h, i)
    <3>1. g[i].of # n
      BY DEF Childless
    <3> QED BY <1>10, <2>1, <3>1 DEF Owned, LeftOf
  <2>6. Ranked(q, h, i)
    BY <1>10, <2>1, <2>2, RankedSame
  <2> QED BY <2>3, <2>4, <2>5, <2>6 DEF Good
<1>17. Good(q, h, n)
  <2>1. /\ Threaded(p, g, n) /\ Chained(p, g, n) /\ Ordered(g, n) /\ Owned(p, g, n)
        /\ Ranked(p, g, n)
    BY <1>1, <1>2 DEF AllGood, Good
  <2>2. /\ Get(p, n).left # NodeNull => Get(p, n).left \in Nodes(p) /\ Get(p, n).left # n
        /\ Get(p, n).right # NodeNull => Get(p, n).right \in Nodes(p) /\ Get(p, n).right # n
        /\ Get(p, n).ival # NodeNull => Get(p, n).ival \in Nodes(p) /\ Get(p, n).ival # n
    BY <1>2, <1>4, Linkage DEF Unlinked
  <2>3. PastOwn(q, h, n) = PastOwn(p, g, n)
    BY <1>2, <1>11, <1>13 DEF PastOwn, Own
  <2>4. \A k \in Nodes(p) : k # n => \A y : Past(h, k, y) = Past(g, k, y)
    BY <1>14 DEF Past
  <2>5. \A y : Past(h, NodeNull, y) = y /\ Past(g, NodeNull, y) = y /\ Past(h, c, y) = g[c].upto
    BY <1>2, <1>15 DEF Past
  <2>6. Threaded(q, h, n)
    <3>1. CASE f = "left"
      <4>1. /\ Get(q, n).left = c /\ Get(q, n).right = NodeNull /\ Get(q, n).ival = NodeNull
            /\ Get(p, n).left = NodeNull /\ Get(p, n).right = NodeNull /\ Get(p, n).ival = NodeNull
        BY <1>13, <3>1 DEF EmptyAfter
      <4>2. g[n].upto = PastOwn(p, g, n)
        BY <2>1, <2>5, <4>1 DEF Threaded, PastRight, PastLeft
      <4>3. PastLeft(q, h, n) = g[c].upto /\ PastRight(q, h, n) = g[c].upto
        BY <2>5, <4>1 DEF PastRight, PastLeft
      <4> QED BY <1>2, <1>4, <1>8, <1>9, <1>11, <1>13, <2>1, <2>3, <2>5, <4>1, <4>2, <4>3
              DEF Threaded
    <3>2. CASE f = "right"
      <4>1. /\ Get(q, n).right = c /\ Get(q, n).ival = NodeNull /\ Get(q, n).left = Get(p, n).left
            /\ Get(p, n).right = NodeNull /\ Get(p, n).ival = NodeNull
        BY <1>13, <3>2 DEF EmptyAfter
      <4>2. g[n].upto = PastLeft(p, g, n)
        BY <2>1, <2>5, <4>1 DEF Threaded, PastRight
      <4>3. PastLeft(q, h, n) = PastLeft(p, g, n)
        BY <2>2, <2>3, <2>4, <2>5, <4>1 DEF PastLeft
      <4>4. PastRight(q, h, n) = g[c].upto
        BY <2>5, <4>1 DEF PastRight
      <4> QED BY <1>2, <1>4, <1>8, <1>9, <1>11, <1>13, <2>1, <2>2, <2>3, <2>5, <4>1, <4>2, <4>3, <4>4
              DEF Threaded
    <3>3. CASE f = "ival"
      <4>1. /\ Get(q, n).ival = c /\ Get(q, n).right = Get(p, n).right
            /\ Get(q, n).left = Get(p, n).left /\ Get(p, n).ival = NodeNull
        BY <1>13, <3>3 DEF EmptyAfter
      <4>2. g[n].upto = PastRight(p, g, n)
        BY <2>1, <2>5, <4>1 DEF Threaded
      <4>3. PastLeft(q, h, n) = PastLeft(p, g, n)
        BY <2>2, <2>3, <2>4, <2>5, <4>1 DEF PastLeft
      <4>4. PastRight(q, h, n) = PastRight(p, g, n)
        BY <2>2, <2>4, <2>5, <4>1, <4>3 DEF PastRight
      <4> QED BY <1>2, <1>4, <1>8, <1>9, <1>11, <1>13, <2>1, <2>2, <2>3, <2>5, <4>1, <4>2, <4>3, <4>4
              DEF Threaded
    <3> QED BY <3>1, <3>2, <3>3
  <2>7. Chained(q, h, n) /\ Owned(q, h, n)
    BY <1>8, <1>9, <1>13, <1>15 DEF Chained, Owned
  <2>8. Ordered(h, n)
    <3>1. g[c].from <= g[c].upto /\ g[n].from <= g[n].upto
      BY <1>1, <1>2 DEF AllGood, Good, Ordered
    <3> QED BY <1>3, <1>8, <1>9, <1>15, <3>1 DEF Ordered
  <2>9. Ranked(q, h, n)
    BY <1>2, <1>11, <1>13, <2>1, <2>2 DEF Ranked
  <2> QED BY <2>6, <2>7, <2>8, <2>9 DEF Good
<1>18. AllGood(q, h)
  BY <1>10, <1>16, <1>17 DEF AllGood
<1>19. Tails(q, h)
  BY <1>1, <1>4, <1>10, <1>11 DEF Tails
<1>20. RankedBefore(h, q, R)
  BY <1>1, <1>10, <1>11 DEF RankedBefore
<1>21. ASSUME NEW m, m # c, Unlinked(p, m) PROVE Unlinked(q, m)
  BY <1>10, <1>13, <1>21 DEF Unlinked
<1>22. \A k \in 1 .. Len(o) : o[k] \in Nodes(p) /\ OpenBlock(p, g, o[k]) /\ o[k] # n /\ o[k] # c
  BY <1>1 DEF Stacked, Loose
<1>23. Stacked(q, h, o)
  <2>1. Len(o) \in Nat
    BY <1>1 DEF Stacked
  <2>2. \A k \in 1 .. Len(o) - 1 : k \in 1 .. Len(o)
    BY <2>1
  <2>3. ASSUME NEW k \in 1 .. Len(o) PROVE OpenBlock(q, h, o[k])
    <3> DEFINE b == o[k]
    <3>1. b \in Nodes(p) /\ OpenBlock(p, g, b) /\ b # n /\ b # c
      BY <1>22
    <3> HIDE DEF b
    <3>2. Unlinked(q, b)
      BY <1>21, <3>1 DEF OpenBlock
    <3>3. Get(p, b).left # NodeNull => Get(p, b).left \in Nodes(p)
      BY <3>1, Linkage
    <3>4. OpenBlock(q, h, b)
      BY <1>10, <1>11, <3>1, <3>2, <3>3 DEF OpenBlock
    <3> QED BY <3>4 DEF b
  <2> QED BY <1>1, <1>10, <1>11, <1>22, <2>2, <2>3, StackedSame
<1>24. h[o[Len(o)]].upto = x
  <2>1. Len(o) \in 1 .. Len(o)
    BY <1>1 DEF Stacked
  <2> QED BY <1>1, <1>10, <1>22, <2>1
<1>25. Tree(q, h, o, x, R)
  BY <1>9, <1>18, <1>19, <1>20, <1>23, <1>24 DEF Tree
<1>26. \A m : Loose(p, g, o, m) /\ m # c => Loose(q, h, o, m)
  BY <1>4, <1>10, <1>11, <1>13, <1>21 DEF Loose
<1>27. Childless(q, h, n)
  BY <1>10, <1>11 DEF Childless
<1>28. \A u, r : Under(p, g, u, r) => Under(q, h, u, r)
  BY <1>10, <1>11 DEF Under
<1> QED BY <1>7, <1>9, <1>10, <1>25, <1>26, <1>27, <1>28 DEF q, h, mark

(* The siblings of a child are children of the same block.                 *)
LEMMA LastChild ==
  ASSUME NEW p, Sound(p), NEW g, AllGood(p, g), NEW first \in Nodes(p), g[first].of # NodeNull
  PROVE  LET j == LastSibling(p, first) IN
           j \in Nodes(p) /\ Get(p, j).next = NodeNull /\ g[j].of = g[first].of
<1> DEFINE n == p.nodes
           at == SiblingWalk(p, first)
           u == g[first].of
           T == {k \in 0 .. n : g[at[k]].of # u}
<1>1. n \in Nat /\ first \in 0 .. n - 1 /\ n \in 0 .. n /\ Closed(p, n)
  <2>1. n \in Nat
    BY SoundPool
  <2>2. \A i \in 0 .. n - 1 : Get(p, i).next = NodeNull \/ Get(p, i).next < n
    BY <2>1, Linkage DEF Nodes
  <2> QED BY <2>1, <2>2 DEF Nodes, Closed
<1>2. /\ at[0] = first /\ \A k \in 1 .. n : at[k] = NextSibling(p, at[k - 1])
      /\ \A k \in 0 .. n : at[k] \in first .. n - 1
  BY <1>1, WalkSteps
<1>3. LastSibling(p, first) \in first .. n - 1 /\ Get(p, LastSibling(p, first)).next = NodeNull
  BY <1>1, LastSiblingIsLast
<1> HIDE DEF at
<1>4. T = {}
  <2> SUFFICES ASSUME T # {} PROVE FALSE
    OBVIOUS
  <2>1. PICK m \in T : \A k \in T : m <= k
    <3>1. T \subseteq Nat
      BY <1>1
    <3> HIDE DEF T
    <3> QED BY <3>1, NatLeast
  <2>2. m \in 1 .. n /\ m - 1 \in 0 .. n /\ ~(m <= m - 1)
    <3>1. m \in 0 .. n /\ g[at[m]].of # u
      BY <2>1
    <3>2. m # 0
      BY <1>2, <3>1
    <3> HIDE DEF n, u
    <3> QED BY <1>1, <3>1, <3>2
  <2>3. g[at[m - 1]].of = u
    <3> HIDE DEF n, u
    <3> QED BY <2>1, <2>2
  <2>4. at[m - 1] \in Nodes(p)
    BY <1>1, <1>2, <2>2 DEF Nodes
  <2>5. Chained(p, g, at[m - 1])
    BY <2>4 DEF AllGood, Good
  <2>6. g[at[m]].of = u
    BY <1>2, <2>2, <2>3, <2>5 DEF NextSibling, Chained
  <2> QED BY <2>1, <2>6
<1>5. n \in 0 .. n
  BY <1>1
<1>6. g[at[n]].of = u
  <2> HIDE DEF u
  <2> QED BY <1>4, <1>5
<1>7. LastSibling(p, first) \in Nodes(p)
  BY <1>1, <1>3 DEF Nodes
<1> QED BY <1>3, <1>6, <1>7 DEF LastSibling, at

(* Joining a block: the pool changes one link, of the block or of its last *)
(* child.                                                                  *)
Appended(p, q, g, u, n) ==
  /\ q.nodes = p.nodes /\ q.exhausted = p.exhausted
  /\ \/ /\ Get(p, u).left = NodeNull /\ Get(q, u) = [Get(p, u) EXCEPT !["left"] = n]
        /\ \A i \in Nodes(p) : i # u => Get(q, i) = Get(p, i)
     \/ \E j \in Nodes(p) :
          /\ g[j].of = u /\ Get(p, j).next = NodeNull /\ Get(p, u).left # NodeNull
          /\ Get(q, j) = [Get(p, j) EXCEPT !["next"] = n]
          /\ \A i \in Nodes(p) : i # j => Get(q, i) = Get(p, i)

LEMMA Appends ==
  ASSUME NEW p, Sound(p), NEW g, NEW o, NEW y, NEW R, Tree(p, g, o, y, R),
         NEW n, Loose(p, g, o, n)
  PROVE  Appended(p, NdAppend(p, Last(o), n), g, o[Len(o)], n)
<1> DEFINE u == o[Len(o)]
           q == NdAppend(p, Last(o), n)
<1>1. o \in Seq(Nodes(p)) /\ Len(o) \in 1 .. Len(o) /\ OpenBlock(p, g, u) /\ AllGood(p, g)
  BY DEF Tree, Stacked
<1>2. /\ u \in Nodes(p) /\ Last(o) = u /\ n \in Nodes(p) /\ n \in Ref(p) /\ u # NodeNull
      /\ n # NodeNull /\ Nodes(p) = 0 .. p.nodes - 1
  <2>1. u \in Nodes(p) /\ Last(o) = u
    BY <1>1 DEF Last
  <2>2. n \in Nodes(p)
    BY DEF Loose
  <2> HIDE DEF u
  <2> QED BY <2>1, <2>2, NodeIsIndex DEF Nodes
<1>3. /\ "left" \in FieldName /\ "next" \in FieldName
  BY DEF FieldName
<1> HIDE DEF u
<1>4. CASE Get(p, u).left = NodeNull
  <2> DEFINE r == Put(p, u, "left", n)
  <2>1. q = r
    BY <1>2, <1>4 DEF NdAppend
  <2>2. /\ r.nodes = p.nodes /\ r.exhausted = p.exhausted
        /\ Get(r, u) = [Get(p, u) EXCEPT !["left"] = n]
        /\ \A j \in 0 .. p.nodes - 1 : j # u => Get(r, j) = Get(p, j)
    BY <1>2, <1>3, PutGets
  <2> HIDE DEF q, r
  <2> QED BY <1>2, <1>4, <2>1, <2>2 DEF q, u, Appended
<1>5. CASE Get(p, u).left # NodeNull
  <2> DEFINE first == Get(p, u).left
             j == LastSibling(p, first)
             r == Put(p, j, "next", n)
  <2>1. q = r
    BY <1>2, <1>5 DEF NdAppend
  <2>2. first \in Nodes(p) /\ g[first].of = u /\ g[first].of # NodeNull
    BY <1>1, <1>2, <1>5, Linkage DEF OpenBlock
  <2>3. j \in Nodes(p) /\ Get(p, j).next = NodeNull /\ g[j].of = u
    <3> HIDE DEF first
    <3> QED BY <1>1, <2>2, LastChild
  <2> HIDE DEF j
  <2>4. /\ r.nodes = p.nodes /\ r.exhausted = p.exhausted
        /\ Get(r, j) = [Get(p, j) EXCEPT !["next"] = n]
        /\ \A i \in 0 .. p.nodes - 1 : i # j => Get(r, i) = Get(p, i)
    BY <1>2, <1>3, <2>3, PutGets
  <2> HIDE DEF q, r
  <2> QED BY <1>2, <1>5, <2>1, <2>3, <2>4 DEF q, u, Appended
<1> QED BY <1>4, <1>5

(* The marks after n joins the block u.                                    *)
Joined(g, u, n) ==
  Marked(Marked(g, u, [g[u] EXCEPT !.upto = g[n].upto]), n, [g[n] EXCEPT !.of = u])

LEMMA JoinedIs ==
  ASSUME NEW g \in [Index -> Mark], NEW u \in Index, NEW n \in Index, n # u
  PROVE  LET h == Joined(g, u, n) IN
           /\ h \in [Index -> Mark]
           /\ \A i \in Index : h[i].from = g[i].from /\ h[i].rank = g[i].rank
           /\ \A i \in Index : i # u => h[i].upto = g[i].upto
           /\ \A i \in Index : i # n => h[i].of = g[i].of
           /\ h[u].upto = g[n].upto /\ h[n].of = u
<1> DEFINE a == [g[u] EXCEPT !.upto = g[n].upto]
           b == [g[n] EXCEPT !.of = u]
           e == Marked(g, u, a)
           h == Marked(e, n, b)
<1>1. g[u] \in Mark /\ g[n] \in Mark /\ u \in Link
  BY DEF Link
<1>2. /\ a \in Mark /\ a.from = g[u].from /\ a.upto = g[n].upto /\ a.of = g[u].of
      /\ a.rank = g[u].rank
  BY <1>1 DEF Mark
<1>3. /\ b \in Mark /\ b.from = g[n].from /\ b.upto = g[n].upto /\ b.of = u
      /\ b.rank = g[n].rank
  BY <1>1 DEF Mark
<1> HIDE DEF a, b
<1>4. e \in [Index -> Mark] /\ e[u] = a /\ \A i \in Index : i # u => e[i] = g[i]
  BY <1>2, MarkedIs
<1> HIDE DEF e
<1>5. h \in [Index -> Mark] /\ h[n] = b /\ \A i \in Index : i # n => h[i] = e[i]
  BY <1>3, <1>4, MarkedIs
<1>6. Joined(g, u, n) = h
  BY DEF Joined, h, e, a, b
<1> HIDE DEF h
<1> QED BY <1>2, <1>3, <1>4, <1>5, <1>6

(* A node joins the innermost block: its lines follow those of the block.  *)
LEMMA Hang ==
  ASSUME NEW p, Sound(p), NEW g, NEW o, NEW y, NEW R \in Nat, Tree(p, g, o, y, R),
         NEW n, Loose(p, g, o, n), g[n].from = y, Above(p, g, o[Len(o)], 0, n)
  PROVE  \E h : Tree(NdAppend(p, Last(o), n), h, o, g[n].upto, R)
<1> DEFINE u == o[Len(o)]
           q == NdAppend(p, Last(o), n)
           h == Joined(g, u, n)
           x == g[n].upto
<1>1. /\ g \in [Index -> Mark] /\ AllGood(p, g) /\ Tails(p, g) /\ RankedBefore(g, p, R)
      /\ Stacked(p, g, o) /\ g[u].upto = y
  BY DEF Tree
<1>2. /\ o \in Seq(Nodes(p)) /\ Len(o) \in 1 .. Len(o) /\ OpenBlock(p, g, u) /\ Len(o) \in Nat
  BY <1>1 DEF Stacked
<1>3. /\ u \in Nodes(p) /\ n \in Nodes(p) /\ u # NodeNull /\ n # NodeNull /\ u # n
      /\ u \in Index /\ n \in Index /\ Nodes(p) \subseteq Index
  <2>1. u \in Nodes(p) /\ n \in Nodes(p) /\ u # n
    BY <1>2 DEF Loose
  <2> HIDE DEF u
  <2> QED BY <2>1, NodeIsIndex
<1>4. /\ g[n].of = NodeNull /\ Get(p, n).next = NodeNull /\ Unlinked(p, n)
      /\ \A k \in 1 .. Len(o) : o[k] # n
  BY DEF Loose
<1>5. /\ Get(p, u).right = NodeNull /\ Get(p, u).ival = NodeNull /\ Get(p, u).next = NodeNull
      /\ g[u].of = NodeNull /\ Unlinked(p, u)
      /\ Get(p, u).left # NodeNull => g[Get(p, u).left].of = u
  BY <1>2 DEF OpenBlock
<1>6. /\ q.nodes = p.nodes /\ q.exhausted = p.exhausted
      /\ \/ /\ Get(p, u).left = NodeNull /\ Get(q, u) = [Get(p, u) EXCEPT !["left"] = n]
            /\ \A i \in Nodes(p) : i # u => Get(q, i) = Get(p, i)
         \/ \E j \in Nodes(p) :
              /\ g[j].of = u /\ Get(p, j).next = NodeNull /\ Get(p, u).left # NodeNull
              /\ Get(q, j) = [Get(p, j) EXCEPT !["next"] = n]
              /\ \A i \in Nodes(p) : i # j => Get(q, i) = Get(p, i)
  <2>1. Appended(p, q, g, u, n)
    BY Appends
  <2> HIDE DEF u, q
  <2> QED BY <2>1 DEF Appended
<1> HIDE DEF u, q
<1>7. /\ h \in [Index -> Mark]
      /\ \A i \in Index : h[i].from = g[i].from /\ h[i].rank = g[i].rank
      /\ \A i \in Index : i # u => h[i].upto = g[i].upto
      /\ \A i \in Index : i # n => h[i].of = g[i].of
      /\ h[u].upto = x /\ h[n].of = u
  BY <1>1, <1>3, JoinedIs
<1> HIDE DEF h
<1>8. \A i \in Nodes(p) : Get(p, i) \in Node
  BY NodeTypes, SoundPool DEF Nodes
<1>9. /\ Nodes(q) = Nodes(p)
      /\ \A i \in Nodes(p) : /\ Get(q, i).line = Get(p, i).line
                             /\ Get(q, i).right = Get(p, i).right /\ Get(q, i).ival = Get(p, i).ival
                             /\ i # u => Get(q, i).left = Get(p, i).left
      /\ Get(q, u).left # NodeNull /\ Get(q, u).next = NodeNull
  <2>1. \A i \in Nodes(p) : Get(q, i).line = Get(p, i).line /\ Get(q, i).right = Get(p, i).right
          /\ Get(q, i).ival = Get(p, i).ival
    BY <1>6, <1>8 DEF Node
  <2>2. \A i \in Nodes(p) : i # u => Get(q, i).left = Get(p, i).left
    BY <1>6, <1>8 DEF Node
  <2>3. CASE Get(p, u).left = NodeNull
    BY <1>3, <1>5, <1>6, <1>8, <2>1, <2>2, <2>3 DEF Nodes, Node
  <2>4. CASE Get(p, u).left # NodeNull
    BY <1>3, <1>5, <1>6, <1>8, <2>1, <2>2, <2>4 DEF Nodes, Node
  <2> QED BY <2>3, <2>4
(* Siblings: one more, or the first child has none.                        *)
<1>10. \A i \in Nodes(p) : Get(q, i).next = NodeNull => Get(p, i).next = NodeNull /\ g[i].of # u
  <2> SUFFICES ASSUME NEW i \in Nodes(p), Get(q, i).next = NodeNull
               PROVE  Get(p, i).next = NodeNull /\ g[i].of # u
    OBVIOUS
  <2>1. CASE Get(p, u).left = NodeNull
    <3>1. g[i].of # u
      BY <1>1, <1>3, <2>1 DEF AllGood, Good, Owned, LeftOf
    <3>2. Get(q, i).next = Get(p, i).next
      BY <1>3, <1>6, <1>8, <2>1 DEF Node
    <3> QED BY <3>1, <3>2
  <2>2. CASE Get(p, u).left # NodeNull
    <3>1. PICK j \in Nodes(p) :
            /\ g[j].of = u /\ Get(p, j).next = NodeNull
            /\ Get(q, j) = [Get(p, j) EXCEPT !["next"] = n]
            /\ \A k \in Nodes(p) : k # j => Get(q, k) = Get(p, k)
      BY <1>6, <2>2
    <3>2. Get(q, j).next = n
      BY <1>8, <3>1 DEF Node
    <3>3. i # j /\ Get(p, i).next = NodeNull
      BY <1>3, <3>1, <3>2
    <3>4. g[i].of # u
      BY <1>1, <1>3, <3>1, <3>3 DEF Tails
    <3> QED BY <3>3, <3>4
  <2> QED BY <2>1, <2>2
<1>11. \A i \in Nodes(p) : Get(q, i).next # NodeNull =>
         \/ Get(q, i).next = Get(p, i).next
         \/ Get(q, i).next = n /\ g[i].of = u /\ Get(p, i).next = NodeNull
  <2>1. CASE Get(p, u).left = NodeNull
    BY <1>3, <1>6, <1>8, <2>1 DEF Node
  <2>2. CASE Get(p, u).left # NodeNull
    BY <1>3, <1>6, <1>8, <2>2 DEF Node
  <2> QED BY <2>1, <2>2
<1>12. y \in Nat /\ x \in Nat /\ y <= x /\ y = g[u].upto /\ y = g[n].from
  <2>1. Ordered(g, n) /\ g[n].from \in Nat /\ g[n].upto \in Nat
    BY <1>1, <1>3, EndTypes DEF AllGood, Good
  <2> QED BY <1>1, <2>1 DEF Ordered
(* Ends: only the block, its children and n see another.                   *)
<1>13. ASSUME NEW i \in Nodes(p)
       PROVE  /\ i # u /\ g[i].of # u => End(h, i) = End(g, i)
              /\ g[i].of = u => End(h, i) = x /\ End(g, i) = y
              /\ i = u => End(h, i) = x
  <2>1. i \in Index /\ (g[i].of # NodeNull => g[i].of \in Nodes(p) /\ g[i].of \in Index)
    BY <1>1, <1>3 DEF AllGood, Good, Owned
  <2>2. CASE i = n
    BY <1>3, <1>4, <1>7, <1>12, <2>2 DEF End
  <2>3. CASE i # n
    BY <1>3, <1>5, <1>7, <1>12, <2>1, <2>3 DEF End
  <2> QED BY <2>2, <2>3
<1>15. ASSUME NEW i \in Nodes(p)
       PROVE  /\ Threaded(p, g, i) /\ Chained(p, g, i) /\ Ordered(g, i) /\ Owned(p, g, i)
              /\ Ranked(p, g, i) /\ i \in Index
              /\ Get(p, i).left # NodeNull =>
                   Get(p, i).left \in Nodes(p) /\ Get(p, i).left # n /\ Get(p, i).left # u
              /\ Get(p, i).right # NodeNull =>
                   Get(p, i).right \in Nodes(p) /\ Get(p, i).right # n /\ Get(p, i).right # u
              /\ Get(p, i).ival # NodeNull =>
                   Get(p, i).ival \in Nodes(p) /\ Get(p, i).ival # n /\ Get(p, i).ival # u
              /\ Get(p, i).next # NodeNull =>
                   Get(p, i).next \in Nodes(p) /\ Get(p, i).next # n /\ Get(p, i).next # u
  <2>1. /\ Threaded(p, g, i) /\ Chained(p, g, i) /\ Ordered(g, i) /\ Owned(p, g, i)
        /\ Ranked(p, g, i) /\ i \in Index
    BY <1>1, <1>3 DEF AllGood, Good
  <2>2. Get(p, i).next # NodeNull => Get(p, i).next # n /\ Get(p, i).next # u
    BY <1>4, <1>5, <2>1 DEF Chained
  <2> QED BY <1>4, <1>5, <2>1, <2>2, Linkage DEF Unlinked
<1>16. ASSUME NEW i \in Nodes(p), i # u PROVE Threaded(q, h, i)
  <2>1. \A c \in {Get(p, i).left, Get(p, i).right, Get(p, i).ival} : c # NodeNull =>
          h[c].from = g[c].from /\ h[c].of = g[c].of /\ End(h, c) = End(g, c)
    <3> SUFFICES ASSUME NEW c \in {Get(p, i).left, Get(p, i).right, Get(p, i).ival}, c # NodeNull
                 PROVE  h[c].from = g[c].from /\ h[c].of = g[c].of /\ End(h, c) = End(g, c)
      OBVIOUS
    <3>1. c \in Nodes(p) /\ c # n /\ c # u /\ c \in Index
      BY <1>3, <1>15
    <3>2. g[c].of # u
      BY <1>3, <1>15, <1>16 DEF Threaded
    <3> QED BY <1>7, <1>13, <3>1, <3>2
  <2>3. Get(q, i).left = Get(p, i).left
    BY <1>9, <1>16
  <2> QED BY <1>7, <1>9, <1>15, <1>16, <2>1, <2>3, ThreadedSame
<1>17. Threaded(q, h, u)
  <2>1. /\ PastOwn(q, h, u) = PastOwn(p, g, u) /\ Get(q, u).right = NodeNull
        /\ Get(q, u).ival = NodeNull
    BY <1>3, <1>5, <1>7, <1>9 DEF PastOwn, Own
  <2>2. Get(q, u).left \in Nodes(p) /\ h[Get(q, u).left].of = u /\ Get(q, u).left # u
        /\ h[Get(q, u).left].from = PastOwn(p, g, u)
    <3>1. Threaded(p, g, u) /\ Get(p, u).right = NodeNull /\ Get(p, u).ival = NodeNull
      BY <1>3, <1>5, <1>15
    <3>2. CASE Get(p, u).left = NodeNull
      <4>1. Get(q, u).left = n
        BY <1>3, <1>6, <1>8, <3>2 DEF Node
      <4>2. g[u].upto = PastOwn(p, g, u)
        BY <3>1, <3>2 DEF Threaded, Past, PastRight, PastLeft
      <4> QED BY <1>3, <1>7, <1>12, <4>1, <4>2
    <3>3. CASE Get(p, u).left # NodeNull
      <4>1. Get(q, u).left = Get(p, u).left
        BY <1>3, <1>5, <1>6, <1>8, <3>3 DEF Node
      <4> QED BY <1>3, <1>5, <1>7, <1>15, <3>1, <3>3, <4>1 DEF Threaded
    <3> QED BY <3>2, <3>3
  <2> DEFINE c == Get(q, u).left
  <2>3. End(h, c) = x
    BY <1>3, <1>7, <2>2 DEF End
  <2>4. PastLeft(q, h, u) = x /\ PastRight(q, h, u) = x
    BY <1>9, <2>1, <2>3 DEF PastLeft, PastRight, Past
  <2>5. Get(q, u).line = 0 \/ Get(q, u).line = h[u].from
    BY <1>3, <1>7, <1>9, <1>15 DEF Threaded
  <2> QED BY <1>7, <1>9, <2>1, <2>2, <2>4, <2>5 DEF Threaded, Past
<1>18. ASSUME NEW i \in Nodes(p) PROVE Chained(q, h, i)
  <2>1. CASE Get(q, i).next = NodeNull
    <3>1. Get(p, i).next = NodeNull /\ g[i].of # u
      BY <1>10, <2>1
    <3>2. CASE i = u
      BY <1>7, <1>13, <2>1, <3>2 DEF Chained
    <3>3. CASE i # u
      BY <1>7, <1>13, <1>15, <2>1, <3>1, <3>3 DEF Chained
    <3> QED BY <3>2, <3>3
  <2>2. CASE Get(q, i).next # NodeNull
    <3> DEFINE m == Get(q, i).next
    <3>1. CASE m = Get(p, i).next
      <4>1. m \in Nodes(p) /\ m # n /\ m # u /\ g[m].from = g[i].upto /\ g[m].of = g[i].of
            /\ g[i].of # NodeNull
        BY <1>15, <2>2, <3>1 DEF Chained
      <4>2. i # u /\ i # n
        BY <1>4, <1>5, <4>1
      <4> QED BY <1>3, <1>7, <2>2, <4>1, <4>2 DEF Chained
    <3>2. CASE m = n /\ g[i].of = u /\ Get(p, i).next = NodeNull
      <4>1. g[i].upto = y
        BY <1>13, <1>15, <3>2 DEF Chained
      <4>2. i # u /\ i # n
        BY <1>3, <1>4, <1>5, <3>2
      <4> QED BY <1>3, <1>7, <1>12, <1>15, <2>2, <3>2, <4>1, <4>2 DEF Chained
    <3> QED BY <1>11, <2>2, <3>1, <3>2
  <2> QED BY <2>1, <2>2
<1>19. ASSUME NEW i \in Nodes(p) PROVE Ordered(h, i)
  <2>1. /\ g[i].from \in Nat /\ g[i].upto \in Nat /\ End(g, i) \in Nat
        /\ g[i].from <= g[i].upto /\ g[i].upto <= End(g, i)
    BY <1>1, <1>15, EndTypes DEF Ordered
  <2>2. CASE i = u
    <3>1. h[i].from = g[i].from /\ h[i].upto = x /\ End(h, i) = x /\ g[i].upto = y
      BY <1>3, <1>7, <1>12, <1>13, <2>2
    <3> HIDE DEF x
    <3> QED BY <1>12, <2>1, <3>1 DEF Ordered
  <2>3. CASE i # u
    BY <1>7, <1>12, <1>13, <1>15, <2>1, <2>3 DEF Ordered
  <2> QED BY <2>2, <2>3
<1>20. ASSUME NEW i \in Nodes(p) PROVE Owned(q, h, i)
  <2>1. \A k \in Nodes(p) : LeftOf(p, k) # NodeNull => LeftOf(q, k) # NodeNull
    BY <1>9 DEF LeftOf
  <2>2. LeftOf(q, u) # NodeNull
    BY <1>9 DEF LeftOf
  <2> QED BY <1>3, <1>7, <1>9, <1>15, <2>1, <2>2 DEF Owned
(* What comes before n is ranked before it.                                *)
<1>21. \A i \in Nodes(p) : i = u \/ g[i].of = u => g[i].rank < g[n].rank
  <2>1. \A i \in Nodes(p) : g[i].rank \in Nat
    BY <1>1, <1>3, EndTypes
  <2> QED BY <2>1 DEF Above, u
<1>22. ASSUME NEW i \in Nodes(p) PROVE Ranked(q, h, i)
  <2>1. Get(q, i).left # NodeNull =>
          Get(q, i).left \in Nodes(p) /\ g[Get(q, i).left].rank > g[i].rank
    <3>1. CASE Get(q, i).left = Get(p, i).left
      BY <1>15, <3>1 DEF Ranked
    <3>2. CASE Get(q, i).left # Get(p, i).left
      <4>1. i = u /\ Get(q, i).left = n
        <5>1. i = u
          BY <1>9, <3>2
        <5>2. Get(p, u).left = NodeNull
          BY <1>3, <1>5, <1>6, <1>8, <3>2, <5>1 DEF Node
        <5>3. Get(q, u).left = n
          BY <1>3, <1>6, <1>8, <5>2 DEF Node
        <5> QED BY <5>1, <5>3
      <4>2. g[u].rank \in Nat /\ g[n].rank \in Nat
        BY <1>1, <1>3, EndTypes
      <4> QED BY <1>3, <1>21, <4>1, <4>2
    <3> QED BY <3>1, <3>2
  <2>2. Get(q, i).next # NodeNull =>
          Get(q, i).next \in Nodes(p) /\ g[Get(q, i).next].rank > g[i].rank
    <3>1. g[i].rank \in Nat /\ g[n].rank \in Nat
      BY <1>1, <1>3, <1>15, EndTypes
    <3> QED BY <1>3, <1>11, <1>15, <1>21, <3>1 DEF Ranked
  <2> QED BY <1>3, <1>7, <1>9, <1>15, <2>1, <2>2 DEF Ranked
<1>23. AllGood(q, h)
  <2>1. \A i \in Nodes(p) : Threaded(q, h, i)
    BY <1>16, <1>17
  <2> QED BY <1>9, <1>18, <1>19, <1>20, <1>22, <2>1 DEF AllGood, Good
<1>24. Tails(q, h)
  <2> SUFFICES ASSUME NEW i \in Nodes(p), NEW j \in Nodes(p), h[i].of = h[j].of,
                      h[i].of # NodeNull, Get(q, i).next = NodeNull, Get(q, j).next = NodeNull
               PROVE  i = j
    BY <1>9 DEF Tails
  <2>1. /\ Get(p, i).next = NodeNull /\ g[i].of # u /\ Get(p, j).next = NodeNull
        /\ g[j].of # u /\ i \in Index /\ j \in Index
    BY <1>3, <1>10
  <2>2. i = n <=> j = n
    BY <1>7, <2>1
  <2>3. i # n /\ j # n => h[i].of = g[i].of /\ h[j].of = g[j].of
    BY <1>7, <2>1
  <2> QED BY <1>1, <2>1, <2>2, <2>3 DEF Tails
<1>25. RankedBefore(h, q, R)
  BY <1>1, <1>3, <1>7, <1>9 DEF RankedBefore
<1>26. ASSUME NEW b \in Nodes(p), OpenBlock(p, g, b), b # n PROVE OpenBlock(q, h, b)
  <2>1. Unlinked(q, b)
    <3>1. Unlinked(p, b)
      BY <1>26 DEF OpenBlock
    <3>2. Get(q, u).left # b
      <4>1. CASE Get(p, u).left = NodeNull
        BY <1>3, <1>6, <1>8, <1>26, <4>1 DEF Node
      <4>2. CASE Get(p, u).left # NodeNull
        <5>1. Get(q, u).left = Get(p, u).left
          BY <1>3, <1>5, <1>6, <1>8, <4>2 DEF Node
        <5> QED BY <1>3, <3>1, <5>1 DEF Unlinked
      <4> QED BY <4>1, <4>2
    <3> QED BY <1>9, <3>1, <3>2 DEF Unlinked
  <2>2. /\ Get(q, b).right = NodeNull /\ Get(q, b).ival = NodeNull /\ h[b].of = NodeNull
        /\ g[b].of = NodeNull
    BY <1>3, <1>7, <1>9, <1>26 DEF OpenBlock
  <2>3. Get(q, b).next = NodeNull
    <3>1. Get(p, b).next = NodeNull
      BY <1>26 DEF OpenBlock
    <3> QED BY <1>3, <1>11, <2>2, <3>1
  <2>4. Get(q, b).left # NodeNull => h[Get(q, b).left].of = b
    <3>1. CASE b = u
      <4>1. CASE Get(p, u).left = NodeNull
        BY <1>3, <1>6, <1>7, <1>8, <3>1, <4>1 DEF Node
      <4>2. CASE Get(p, u).left # NodeNull
        <5>1. Get(q, u).left = Get(p, u).left
          BY <1>3, <1>5, <1>6, <1>8, <4>2 DEF Node
        <5>2. Get(p, u).left \in Nodes(p) /\ Get(p, u).left # n
          BY <1>3, <1>15, <4>2
        <5> QED BY <1>3, <1>5, <1>7, <3>1, <4>2, <5>1, <5>2
      <4> QED BY <4>1, <4>2
    <3>2. CASE b # u
      <4>1. Get(q, b).left = Get(p, b).left
        BY <1>9, <3>2
      <4> QED BY <1>3, <1>7, <1>15, <1>26, <4>1 DEF OpenBlock
    <3> QED BY <3>1, <3>2
  <2> QED BY <2>1, <2>2, <2>3, <2>4 DEF OpenBlock
<1>27. \A k \in 1 .. Len(o) : o[k] \in Nodes(p) /\ o[k] \in Index /\ OpenBlock(p, g, o[k]) /\ o[k] # n
  BY <1>1, <1>3, <1>4 DEF Stacked
<1>28. \A k \in 1 .. Len(o) - 1 : k \in 1 .. Len(o) /\ o[k] # u
  <2>1. \A k \in 1 .. Len(o) - 1 : k \in 1 .. Len(o) /\ k # Len(o)
    BY <1>2
  <2> QED BY <1>1, <1>2, <2>1 DEF Stacked, u
<1>29. Stacked(q, h, o)
  <2>1. \A k \in 1 .. Len(o) : OpenBlock(q, h, o[k])
    BY <1>26, <1>27
  <2>2. \A k \in 1 .. Len(o) - 1, i \in Nodes(q) : i = o[k] \/ h[i].of = o[k] =>
          i \in Nodes(p) /\ (i = o[k] \/ g[i].of = o[k]) /\ h[i].rank = g[i].rank
    BY <1>3, <1>7, <1>9, <1>28
  <2>3. \A k \in 1 .. Len(o) : h[o[k]].from = g[o[k]].from /\ h[o[k]].rank = g[o[k]].rank
    BY <1>7, <1>27
  <2>4. \A k \in 1 .. Len(o) - 1 : h[o[k]].upto = g[o[k]].upto
    BY <1>7, <1>27, <1>28
  <2> QED BY <1>1, <1>9, <2>1, <2>2, <2>3, <2>4, StackedSame
<1>30. Tree(q, h, o, x, R)
  BY <1>7, <1>23, <1>24, <1>25, <1>29 DEF Tree, u
<1> QED BY <1>30 DEF q, x

(* A block opens: its lines follow those of the block around it.           *)
LEMMA Opens ==
  ASSUME NEW p, Sound(p), NEW g, NEW o, NEW y, NEW R, Tree(p, g, o, y, R),
         NEW n, Loose(p, g, o, n), g[n].from = y,
         Get(p, n).left = NodeNull, Get(p, n).right = NodeNull, Get(p, n).ival = NodeNull,
         Above(p, g, o[Len(o)], Spare(Len(o)), n)
  PROVE  Tree(p, g, Append(o, n), g[n].upto, R)
<1> DEFINE r == Append(o, n)
           l == Len(o)
<1>1. /\ o \in Seq(Nodes(p)) /\ l \in Nat /\ l >= 1 /\ Stacked(p, g, o) /\ g[o[l]].upto = y
      /\ n \in Nodes(p)
  BY DEF Tree, Stacked, Loose
<1>2. /\ r \in Seq(Nodes(p)) /\ Len(r) = l + 1 /\ r[l + 1] = n
      /\ \A k \in 1 .. l : r[k] = o[k]
  BY <1>1
<1> HIDE DEF r, l
<1>3. OpenBlock(p, g, n)
  BY DEF OpenBlock, Loose
<1>4. \A k \in 1 .. Len(r) : (k \in 1 .. l /\ r[k] = o[k]) \/ (k = l + 1 /\ r[k] = n)
  BY <1>1, <1>2
<1>5. \A k \in 1 .. l : OpenBlock(p, g, o[k]) /\ o[k] # n
  BY <1>1 DEF Stacked, Loose, l
<1>6. ASSUME NEW k \in 1 .. Len(r) - 1
      PROVE  g[r[k]].upto = g[r[k + 1]].from /\ Above(p, g, r[k], Spare(k), r[k + 1])
  <2>1. k \in 1 .. l /\ r[k] = o[k]
    BY <1>1, <1>2
  <2>2. CASE k = l
    BY <1>1, <1>2, <2>1, <2>2 DEF l
  <2>3. CASE k # l
    <3>1. k \in 1 .. l - 1 /\ k + 1 \in 1 .. l
      BY <1>1, <2>1, <2>3
    <3> QED BY <1>1, <1>2, <2>1, <3>1 DEF Stacked, l
  <2> QED BY <2>2, <2>3
<1>7. \A j, k \in 1 .. Len(r) : r[j] = r[k] => j = k
  <2>1. \A j, k \in 1 .. l : o[j] = o[k] => j = k
    BY <1>1 DEF Stacked, l
  <2> QED BY <1>4, <1>5, <2>1
<1>8. r[1] = o[1] /\ Len(r) >= 1
  BY <1>1, <1>2
<1>9. Stacked(p, g, r)
  BY <1>1, <1>2, <1>3, <1>4, <1>5, <1>6, <1>7, <1>8 DEF Stacked
<1>10. g[r[Len(r)]].upto = g[n].upto
  BY <1>2
<1> QED BY <1>9, <1>10 DEF Tree, r

(* A block closes: it is loose, and its lines follow those of the block    *)
(* around it.                                                              *)
LEMMA Closes ==
  ASSUME NEW p, Sound(p), NEW g, NEW o, NEW y, NEW R, Tree(p, g, o, y, R), Len(o) > 1
  PROVE  LET r == Front(o)
             b == Last(o)
         IN  /\ Tree(p, g, r, g[b].from, R) /\ Loose(p, g, r, b) /\ g[b].upto = y
             /\ Len(r) = Len(o) - 1 /\ Above(p, g, r[Len(r)], Spare(Len(r)), b)
<1> DEFINE r == Front(o)
           b == Last(o)
           l == Len(o)
<1>1. /\ o \in Seq(Nodes(p)) /\ l \in Nat /\ l > 1 /\ Stacked(p, g, o) /\ g[o[l]].upto = y
  BY DEF Tree, Stacked
<1>2. /\ r \in Seq(Nodes(p)) /\ Len(r) = l - 1 /\ b = o[l] /\ \A k \in 1 .. l - 1 : r[k] = o[k]
  BY <1>1 DEF Front, Last
<1> HIDE DEF r, b, l
<1>3. \A k \in 1 .. l - 1 : k \in 1 .. l /\ k # l
  BY <1>1
<1>4. l \in 1 .. l /\ l - 1 \in 1 .. l - 1 /\ l - 1 + 1 = l /\ 1 \in 1 .. l - 1
  BY <1>1
<1>5. /\ \A k \in 1 .. l : OpenBlock(p, g, o[k])
      /\ \A k \in 1 .. l - 1 : g[o[k]].upto = g[o[k + 1]].from /\ Above(p, g, o[k], Spare(k), o[k + 1])
      /\ \A j, k \in 1 .. l : o[j] = o[k] => j = k
      /\ g[o[1]].from = 1 /\ g[o[1]].rank = 0
  BY <1>1 DEF Stacked, l
<1>6. \A k \in 1 .. Len(r) - 1 :
        g[r[k]].upto = g[r[k + 1]].from /\ Above(p, g, r[k], Spare(k), r[k + 1])
  <2>1. \A k \in 1 .. Len(r) - 1 : k \in 1 .. l - 1 /\ k + 1 \in 1 .. l - 1
    BY <1>1, <1>2
  <2> QED BY <1>2, <1>5, <2>1
<1>7. Stacked(p, g, r)
  <2>1. \A k \in 1 .. Len(r) : OpenBlock(p, g, r[k])
    BY <1>2, <1>3, <1>5
  <2>2. \A j, k \in 1 .. Len(r) : r[j] = r[k] => j = k
    BY <1>2, <1>3, <1>5
  <2>3. g[r[1]].from = 1 /\ g[r[1]].rank = 0 /\ Len(r) >= 1
    BY <1>1, <1>2, <1>4, <1>5
  <2> QED BY <1>2, <1>6, <2>1, <2>2, <2>3 DEF Stacked
<1>8. g[r[Len(r)]].upto = g[b].from /\ Above(p, g, r[Len(r)], Spare(Len(r)), b)
  BY <1>2, <1>4, <1>5
<1>9. Loose(p, g, r, b)
  <2>1. OpenBlock(p, g, b) /\ b \in Nodes(p)
    <3>1. o[l] \in Nodes(p)
      BY <1>1, <1>4 DEF l
    <3> QED BY <1>2, <1>4, <1>5, <3>1
  <2>2. \A k \in 1 .. Len(r) : r[k] # b
    BY <1>2, <1>3, <1>4, <1>5
  <2> QED BY <2>1, <2>2 DEF Loose, OpenBlock
<1>10. Tree(p, g, r, g[b].from, R)
  BY <1>7, <1>8 DEF Tree
<1> QED BY <1>1, <1>2, <1>8, <1>9, <1>10 DEF r, b, l

(* The tree the parser has built so far, with a rank to spare for the PROC *)
(* node of a procedure in progress.                                        *)
Room(p, o) == p.nodes + (IF Len(o) > 1 THEN 1 ELSE 0)
Whole(p, o, ln) == \E g : Tree(p, g, o, ln + 1, Room(p, o))
TextInv ==
  /\ ~pool.exhausted /\ (phase = "parsing" \/ result = "text") => Whole(pool, open, line)
  /\ phase = "idle" /\ result = "text" => Len(open) = 1

(* Writing a link leaves the flag alone.                                   *)
Flagged(p) == "exhausted" \in DOMAIN p
LEMMA PutFlag ==
  ASSUME NEW p, Flagged(p), NEW i, NEW f, NEW x
  PROVE  /\ Flagged(Put(p, i, f, x)) /\ Put(p, i, f, x).exhausted = p.exhausted
         /\ Flagged(SetIf(p, i, f, x)) /\ SetIf(p, i, f, x).exhausted = p.exhausted
BY DEF Put, SetIf, Flagged

LEMMA AppendFlag ==
  ASSUME NEW p, Flagged(p), NEW u, NEW n
  PROVE  NdAppend(p, u, n).exhausted = p.exhausted
BY PutFlag DEF NdAppend

LEMMA SoundFlag ==
  ASSUME NEW p, Sound(p)
  PROVE  Flagged(p)
BY DEF Sound, Pool, Flagged

LEMMA ResetNodes ==
  ASSUME NEW p \in Pool
  PROVE  AstInit(ChunkInit(p)).nodes = 0
BY DEF Pool, AstInit, ChunkInit, ChunkFree

LEMMA RoomIs ==
  ASSUME NEW p, Sound(p), NEW o
  PROVE  /\ p.nodes \in Nat /\ Room(p, o) \in Nat
         /\ Len(o) > 1 => Room(p, o) = p.nodes + 1
         /\ ~(Len(o) > 1) => Room(p, o) = p.nodes
BY SoundPool DEF Room

(* The last block, and what is ranked before the room.                     *)
LEMMA LastBlock ==
  ASSUME NEW p, Sound(p), NEW g, NEW o, NEW x, NEW R, Tree(p, g, o, x, R)
  PROVE  LET u == o[Len(o)] IN
           /\ Len(o) \in Nat \ {0} /\ u \in Nodes(p) /\ u # NodeNull /\ u = Last(o)
           /\ Under(p, g, u, R)
<1>1. o \in Seq(Nodes(p)) /\ Len(o) \in Nat \ {0} /\ RankedBefore(g, p, R)
  BY DEF Tree, Stacked
<1>2. o[Len(o)] \in Nodes(p) /\ o[Len(o)] = Last(o)
  BY <1>1 DEF Last
<1> QED BY <1>1, <1>2, NodeIsIndex DEF Under, RankedBefore

LEMMA TextStart == Init => TextInv
BY DEF Init, TextInv

(* PROGRAM alone.                                                          *)
LEMMA RootTree ==
  ASSUME NEW p, Sound(p), p.nodes = 0, ~NdAlloc(p, 0).pool.exhausted
  PROVE  LET r == NdAlloc(p, 0) IN \E g : Tree(r.pool, g, <<r.node>>, 1, 1)
<1> DEFINE q == NdAlloc(p, 0).pool
           g == [i \in Index |-> NewMark(1, 1, 0)]
           o == <<0>>
<1>1. 0 \in 0 .. MaxLines
  BY PoolLimits
<1>2. /\ Sound(q) /\ NdAlloc(p, 0).node = 0 /\ q.nodes = 1 /\ Get(q, 0) = FreshNode(0)
      /\ 0 \in Index
  BY <1>1, AllocNode
<1> HIDE DEF q
<1>3. Nodes(q) = {0}
  BY <1>2 DEF Nodes
<1>4. /\ Get(q, 0).left = NodeNull /\ Get(q, 0).right = NodeNull /\ Get(q, 0).next = NodeNull
      /\ Get(q, 0).ival = NodeNull /\ Get(q, 0).line = 0
  BY <1>2 DEF FreshNode
<1>5. g \in [Index -> Mark] /\ g[0].from = 1 /\ g[0].upto = 1 /\ g[0].of = NodeNull /\ g[0].rank = 0
  BY <1>2 DEF NewMark, Mark, Link
<1> HIDE DEF g
<1>6. Good(q, g, 0)
  <2>1. End(g, 0) = 1
    BY <1>5 DEF End
  <2>2. PastOwn(q, g, 0) = 1
    BY <1>4, <1>5 DEF PastOwn, Own
  <2>3. PastLeft(q, g, 0) = 1 /\ PastRight(q, g, 0) = 1
    BY <1>4, <2>2 DEF PastLeft, PastRight, Past
  <2> QED BY <1>4, <1>5, <2>1, <2>3 DEF Good, Threaded, Chained, Ordered, Owned, Ranked, Past
<1>7. AllGood(q, g) /\ Tails(q, g) /\ RankedBefore(g, q, 1)
  BY <1>3, <1>5, <1>6 DEF AllGood, Tails, RankedBefore
<1>8. o \in Seq(Nodes(q)) /\ Len(o) = 1 /\ o[1] = 0 /\ 1 .. Len(o) = {1} /\ 1 .. Len(o) - 1 = {}
  BY <1>3
<1>9. OpenBlock(q, g, 0)
  BY <1>3, <1>4, <1>5 DEF OpenBlock, Unlinked, NodeNull
<1> HIDE DEF o
<1>10. Stacked(q, g, o)
  BY <1>5, <1>8, <1>9 DEF Stacked
<1>11. Tree(q, g, o, 1, 1)
  BY <1>5, <1>7, <1>8, <1>10 DEF Tree
<1> QED BY <1>2, <1>11 DEF q, o

LEMMA StartText ==
  ASSUME AstInv, CompileStart
  PROVE  TextInv'
<1> DEFINE p == AstInit(ChunkInit(pool))
           root == NdAlloc(p, 0)
<1>1. Sound(p) /\ p.nodes = 0
  BY ResetSound, ResetNodes, SoundPool DEF AstInv
<1>2. pool' = root.pool /\ open' = <<root.node>> /\ line' = 0 /\ phase' = "parsing"
  BY DEF CompileStart
<1> HIDE DEF p
<1>3. ASSUME ~pool'.exhausted PROVE Whole(pool', open', line')
  <2>1. \E g : Tree(root.pool, g, <<root.node>>, 1, 1)
    BY <1>1, <1>2, <1>3, RootTree
  <2>2. root.pool.nodes = 1
    <3>1. 0 \in 0 .. MaxLines
      BY PoolLimits
    <3> QED BY <1>1, <1>2, <1>3, <3>1, AllocNode
  <2> HIDE DEF root
  <2>3. Room(pool', open') = 1
    BY <1>2, <2>2 DEF Room
  <2> QED BY <1>2, <2>1, <2>3 DEF Whole
<1> QED BY <1>2, <1>3 DEF TextInv

(* A finished construct joins the innermost block and ends the lines read. *)
LEMMA JoinText ==
  ASSUME NEW p, Sound(p), NEW g, NEW o, NEW x \in Nat, NEW R \in Nat, Tree(p, g, o, x, R),
         NEW n, Loose(p, g, o, n), g[n].from = x, Under(p, g, o[Len(o)], g[n].rank),
         R = Room(p, o), NEW ln \in Nat, g[n].upto = ln + 1
  PROVE  Whole(NdAppend(p, Last(o), n), o, ln)
<1> DEFINE q == NdAppend(p, Last(o), n)
<1>1. Above(p, g, o[Len(o)], 0, n)
  <2>1. \A i \in Nodes(p) : g[i].rank \in Nat
    BY NodeIsIndex, EndTypes DEF Tree
  <2>2. n \in Nodes(p)
    BY DEF Loose
  <2> QED BY <2>1, <2>2 DEF Above, Under
<1>2. \E h : Tree(q, h, o, ln + 1, R)
  BY <1>1, Hang
<1>3. q.nodes = p.nodes
  <2>1. Appended(p, q, g, o[Len(o)], n)
    BY Appends
  <2> QED BY <2>1 DEF Appended
<1> HIDE DEF q
<1>4. Room(q, o) = R
  BY <1>3 DEF Room
<1> QED BY <1>2, <1>4 DEF Whole, q

(* What the parser has before a step that does not exhaust the pool.       *)
LEMMA Before ==
  ASSUME AstInv, TextInv, phase = "parsing", ~pool.exhausted
  PROVE  /\ Sound(pool) /\ line \in Nat /\ pool.nodes \in Nat /\ Whole(pool, open, line)
         /\ Flagged(pool)
BY SoundPool, SoundFlag DEF AstInv, WalkOK, TextInv

LEMMA OpenText ==
  ASSUME AstInv, TextInv, BlockOpen
  PROVE  TextInv'
<1> DEFINE ln == line + 1
           q == NdAlloc(pool, ln).pool
           n == pool.nodes
<1>1. /\ pool' = q /\ open' = Append(open, NdAlloc(pool, ln).node) /\ line' = ln
      /\ phase = "parsing" /\ phase' = "parsing" /\ ln \in 0 .. MaxLines /\ Sound(pool)
  BY PoolLimits DEF BlockOpen, ReadsLine, Parsing, AstInv, WalkOK
<1> SUFFICES ASSUME ~q.exhausted PROVE Whole(q, open', ln)
  BY <1>1 DEF TextInv
<1>2. /\ NdAlloc(pool, ln).node = n /\ q.nodes = n + 1 /\ ~pool.exhausted
      /\ Get(q, n) = FreshNode(ln)
  BY <1>1, AllocNode
<1>3. line \in Nat /\ n \in Nat /\ Whole(pool, open, line)
  BY <1>1, <1>2, Before
<1>4. PICK g : Tree(pool, g, open, line + 1, Room(pool, open))
  BY <1>3 DEF Whole
<1>5. /\ Room(pool, open) \in Nat /\ Room(pool, open) <= n + 1
      /\ Len(open) > 1 => Room(pool, open) = n + 1
      /\ ~(Len(open) > 1) => Room(pool, open) = n
  BY <1>1, <1>3, RoomIs
<1> DEFINE u == open[Len(open)]
           h == Marked(g, n, NewMark(ln, ln + Wide(ln), n + 1))
<1>6. /\ Len(open) \in Nat \ {0} /\ u \in Nodes(pool) /\ Under(pool, g, u, Room(pool, open))
  BY <1>1, <1>4, LastBlock
<1>7. /\ Sound(q) /\ Tree(q, h, open, line + 1, n + 2) /\ Loose(q, h, open, n)
      /\ h[n] = NewMark(ln, ln + Wide(ln), n + 1) /\ Under(q, h, u, Room(pool, open))
  <2>1. ln = 0 \/ ln = ln
    OBVIOUS
  <2>2. ln \in Nat /\ n + 1 \in Nat /\ n + 2 \in Nat /\ n + 1 < n + 2 /\ Room(pool, open) <= n + 2
    BY <1>3, <1>5
  <2> HIDE DEF u
  <2> QED BY <1>1, <1>4, <1>5, <1>6, <2>1, <2>2, AddNode
<1> HIDE DEF q, h
<1>8. h[n].from = line + 1 /\ h[n].upto = ln + 1 /\ h[n].rank = n + 1
  BY <1>3, <1>7 DEF NewMark, Wide
<1>9. Above(q, h, u, Spare(Len(open)), n)
  <2>1. \A i \in Nodes(q) : h[i].rank \in Nat
    BY <1>7, NodeIsIndex, EndTypes DEF Tree
  <2>2. Room(pool, open) + Spare(Len(open)) <= n + 1
    BY <1>3, <1>5, <1>6 DEF Spare
  <2>3. Spare(Len(open)) \in Nat
    BY DEF Spare
  <2> HIDE DEF u, n
  <2> QED BY <1>3, <1>5, <1>7, <1>8, <2>1, <2>2, <2>3 DEF Above, Under
<1>10. /\ Get(q, n).left = NodeNull /\ Get(q, n).right = NodeNull /\ Get(q, n).ival = NodeNull
  BY <1>2 DEF FreshNode
<1>11. Tree(q, h, Append(open, n), ln + 1, n + 2)
  BY <1>7, <1>8, <1>9, <1>10, Opens
<1>12. Room(q, Append(open, n)) = n + 2
  <2>1. Len(Append(open, n)) > 1
    <3>1. open \in Seq(Nodes(pool))
      BY <1>4 DEF Tree, Stacked
    <3> QED BY <1>6, <3>1
  <2> QED BY <1>2, <1>3, <2>1 DEF Room
<1> QED BY <1>1, <1>2, <1>11, <1>12 DEF Whole

LEMMA ReturnText ==
  ASSUME AstInv, TextInv, ParseReturn
  PROVE  TextInv'
<1> DEFINE ln == line + 1
           q == NdAlloc(pool, ln).pool
           n == pool.nodes
           v == NdAlloc(pool, ln).node
<1>1. /\ pool' = NdAppend(q, Last(open), v) /\ open' = open /\ line' = ln
      /\ phase = "parsing" /\ phase' = "parsing" /\ ln \in 0 .. MaxLines /\ Sound(pool)
      /\ Len(open) > 1
  BY PoolLimits DEF ParseReturn, InBlock, ReadsLine, Parsing, AstInv, WalkOK
<1>2. Sound(q)
  BY <1>1, AllocSound DEF Built
<1>3. pool'.exhausted = q.exhausted
  <2> HIDE DEF q
  <2> QED BY <1>1, <1>2, SoundFlag, AppendFlag
<1> SUFFICES ASSUME ~q.exhausted PROVE Whole(pool', open, ln)
  BY <1>1, <1>3 DEF TextInv
<1>4. v = n /\ q.nodes = n + 1 /\ ~pool.exhausted
  BY <1>1, AllocNode
<1>5. line \in Nat /\ n \in Nat /\ Whole(pool, open, line)
  BY <1>1, <1>4, Before
<1>6. Room(pool, open) = n + 1
  BY <1>1, RoomIs
<1>7. PICK g : Tree(pool, g, open, line + 1, n + 1)
  BY <1>5, <1>6 DEF Whole
<1> DEFINE u == open[Len(open)]
           h == Marked(g, n, NewMark(ln, ln + Wide(ln), n + 1))
<1>8. u \in Nodes(pool) /\ Under(pool, g, u, n + 1)
  BY <1>1, <1>7, LastBlock
<1>9. /\ Tree(q, h, open, line + 1, n + 2) /\ Loose(q, h, open, n)
      /\ h[n] = NewMark(ln, ln + Wide(ln), n + 1) /\ Under(q, h, u, n + 1)
  <2>1. ln \in Nat /\ n + 1 \in Nat /\ n + 2 \in Nat /\ n + 1 < n + 2 /\ n + 1 <= n + 2
    BY <1>5
  <2> HIDE DEF u
  <2> QED BY <1>1, <1>7, <1>8, <2>1, AddNode
<1> HIDE DEF q, h, v
<1>10. h[n].from = line + 1 /\ h[n].upto = ln + 1 /\ h[n].rank = n + 1
  BY <1>5, <1>9 DEF NewMark, Wide
<1>11. n + 2 = Room(q, open) /\ n + 2 \in Nat /\ line + 1 \in Nat /\ ln \in Nat
  BY <1>1, <1>4, <1>5 DEF Room
<1>12. Whole(NdAppend(q, Last(open), n), open, ln)
  BY <1>2, <1>9, <1>10, <1>11, JoinText
<1> QED BY <1>1, <1>4, <1>12

LEMMA AssignText ==
  ASSUME AstInv, TextInv, ParseAssign
  PROVE  TextInv'
<1> DEFINE x == line + 1
           N == pool.nodes
           l == NdAlloc(pool, 0)
           r == NdAlloc(l.pool, 0)
           n == NdAlloc(r.pool, x)
           half == SetIf(n.pool, n.node, "left", l.node)
           linked == SetIf(half, n.node, "right", r.node)
           u == open[Len(open)]
<1>1. /\ open' = open /\ line' = x /\ phase = "parsing" /\ phase' = "parsing"
      /\ x \in 0 .. MaxLines /\ 0 \in 0 .. MaxLines /\ Sound(pool) /\ Len(open) > 1
      /\ IF l.node = NodeNull THEN pool' = l.pool ELSE pool' = NdAppend(linked, Last(open), n.node)
  BY PoolLimits DEF ParseAssign, InBlock, ReadsLine, Parsing, AstInv, WalkOK
<1>2. Sound(l.pool) /\ (l.node = NodeNull => l.pool.exhausted)
  BY <1>1, AllocSound DEF Built
<1>3. Sound(r.pool)
  BY <1>1, <1>2, AllocSound DEF Built
<1>4. Sound(n.pool)
  BY <1>1, <1>3, AllocSound DEF Built
<1>5. CASE l.node = NodeNull
  BY <1>1, <1>2, <1>5 DEF TextInv
<1>6. CASE l.node # NodeNull
  <2>1. pool' = NdAppend(linked, Last(open), n.node) /\ pool'.exhausted = n.pool.exhausted
    <3> HIDE DEF n, l, r
    <3>1. Flagged(half) /\ half.exhausted = n.pool.exhausted
      BY <1>4, SoundFlag, PutFlag
    <3> HIDE DEF half
    <3>2. Flagged(linked) /\ linked.exhausted = n.pool.exhausted
      BY <3>1, PutFlag
    <3> HIDE DEF linked
    <3> QED BY <1>1, <1>6, <3>2, AppendFlag
  <2> SUFFICES ASSUME ~n.pool.exhausted PROVE Whole(pool', open, x)
    BY <1>1, <2>1 DEF TextInv
  <2>2. /\ n.node = r.pool.nodes /\ n.pool.nodes = r.pool.nodes + 1 /\ ~r.pool.exhausted
        /\ Get(n.pool, r.pool.nodes) = FreshNode(x)
    BY <1>1, <1>3, AllocNode
  <2>3. r.node = l.pool.nodes /\ r.pool.nodes = l.pool.nodes + 1 /\ ~l.pool.exhausted
    BY <1>1, <1>2, <2>2, AllocNode
  <2>4. l.node = N /\ l.pool.nodes = N + 1 /\ ~pool.exhausted /\ N \in Nat
    BY <1>1, <2>3, AllocNode
  <2>5. /\ r.node = N + 1 /\ r.pool.nodes = N + 2 /\ n.node = N + 2 /\ n.pool.nodes = N + 3
        /\ Get(n.pool, N + 2) = FreshNode(x)
    BY <2>2, <2>3, <2>4
  <2>6. line \in Nat /\ x \in Nat /\ x + 1 \in Nat /\ x # 0 /\ Whole(pool, open, line)
    BY <1>1, <2>4, Before
  <2>7. Room(pool, open) = N + 1
    BY <1>1, RoomIs
  <2>8. PICK g : Tree(pool, g, open, x, N + 1)
    BY <2>6, <2>7 DEF Whole
  <2>9. u \in Nodes(pool) /\ Under(pool, g, u, N + 1)
    BY <1>1, <2>8, LastBlock
  <2>10. /\ N + 1 \in Nat /\ N + 2 \in Nat /\ N + 3 \in Nat /\ N + 4 \in Nat
         /\ N + 1 <= N + 4 /\ N + 4 <= N + 4
         /\ N + 1 < N + 4 /\ N + 2 < N + 4 /\ N + 3 < N + 4 /\ N + 1 < N + 2 /\ N + 1 < N + 3
         /\ N # N + 1 /\ N # N + 2 /\ N + 1 # N + 2
    BY <2>4
  <2> HIDE DEF x, N, u
  (* The left operand. *)
  <2> DEFINE m1 == NewMark(x + 1, (x + 1) + Wide(0), N + 2)
             g1 == Marked(g, N, m1)
  <2>11. /\ Tree(l.pool, g1, open, x, N + 4) /\ Loose(l.pool, g1, open, N) /\ g1[N] = m1
         /\ Under(l.pool, g1, u, N + 1) /\ N \in Nodes(l.pool)
         /\ \A i \in Nodes(pool) : i \in Nodes(l.pool)
    <3>1. ~l.pool.exhausted
      BY <2>3
    <3>2. /\ Tree(l.pool, g1, open, x, N + 4) /\ Loose(l.pool, g1, open, N) /\ g1[N] = m1
          /\ Under(l.pool, g1, u, N + 1)
      BY <1>1, <2>6, <2>8, <2>9, <2>10, <3>1, AddNode DEF N
    <3> QED BY <1>1, <3>1, <3>2, AllocNode DEF N
  <2> HIDE DEF l, g1
  (* The right operand. *)
  <2> DEFINE m2 == NewMark(x + 1, (x + 1) + Wide(0), N + 3)
             g2 == Marked(g1, N + 1, m2)
  <2>12. /\ Tree(r.pool, g2, open, x, N + 4) /\ Loose(r.pool, g2, open, N + 1) /\ g2[N + 1] = m2
         /\ Under(r.pool, g2, u, N + 1) /\ g2[N] = m1 /\ Loose(r.pool, g2, open, N)
         /\ N + 1 \in Nodes(r.pool) /\ u \in Nodes(r.pool) /\ N \in Nodes(r.pool)
    <3>1. ~r.pool.exhausted
      BY <2>2
    <3>2. /\ Tree(r.pool, g2, open, x, N + 4) /\ Loose(r.pool, g2, open, N + 1) /\ g2[N + 1] = m2
          /\ (\A i \in Nodes(l.pool) : g2[i] = g1[i])
          /\ (\A m : Loose(l.pool, g1, open, m) => Loose(r.pool, g2, open, m))
          /\ (\A v \in Nodes(l.pool) : \A k : Under(l.pool, g1, v, k) => Under(r.pool, g2, v, k))
      <4>1. Sound(l.pool) /\ l.pool.nodes = N + 1 /\ 0 \in 0 .. MaxLines
        BY <1>1, <1>2, <2>4
      <4> HIDE DEF N
      <4> QED BY <2>6, <2>10, <2>11, <3>1, <4>1, AddNode
    <3>3. N + 1 \in Nodes(r.pool) /\ \A i \in Nodes(l.pool) : i \in Nodes(r.pool)
      BY <1>1, <1>2, <2>4, <3>1, AllocNode
    <3> HIDE DEF r, g2
    <3> QED BY <2>9, <2>11, <3>2, <3>3
  <2> HIDE DEF r, g2
  (* The assignment. *)
  <2> DEFINE m3 == NewMark(x, x + Wide(x), N + 1)
             g3 == Marked(g2, N + 2, m3)
  <2>13. /\ Tree(n.pool, g3, open, x, N + 4) /\ Loose(n.pool, g3, open, N + 2) /\ g3[N + 2] = m3
         /\ Under(n.pool, g3, u, N + 1) /\ g3[N] = m1 /\ g3[N + 1] = m2
         /\ Loose(n.pool, g3, open, N) /\ Loose(n.pool, g3, open, N + 1)
         /\ Childless(n.pool, g3, N + 2)
    <3>1. /\ Tree(n.pool, g3, open, x, N + 4) /\ Loose(n.pool, g3, open, N + 2)
          /\ g3[N + 2] = m3 /\ Childless(n.pool, g3, N + 2)
          /\ (\A i \in Nodes(r.pool) : g3[i] = g2[i])
          /\ (\A m : Loose(r.pool, g2, open, m) => Loose(n.pool, g3, open, m))
          /\ (\A v \in Nodes(r.pool) : \A k : Under(r.pool, g2, v, k) => Under(n.pool, g3, v, k))
      BY <1>1, <1>3, <2>5, <2>6, <2>10, <2>12, AddNode
    <3> HIDE DEF n, g3
    <3> QED BY <2>12, <3>1
  <2> HIDE DEF n, g3
  <2>14. /\ m1.from = x + 1 /\ m1.upto = x + 1 /\ m1.rank = N + 2
         /\ m2.from = x + 1 /\ m2.upto = x + 1 /\ m2.rank = N + 3
         /\ m3.from = x /\ m3.upto = x + 1 /\ m3.rank = N + 1
    BY <2>6 DEF NewMark, Wide
  <2> HIDE DEF m1, m2, m3
  (* Its operands hang under it. *)
  <2>15. /\ Get(n.pool, N + 2).left = NodeNull /\ Get(n.pool, N + 2).right = NodeNull
         /\ Get(n.pool, N + 2).ival = NodeNull
    BY <2>5 DEF FreshNode
  <2> DEFINE g4 == Marked(g3, N + 2, NewMark(g3[N + 2].from, g3[N].upto, g3[N + 2].rank))
  <2>16. /\ Sound(half) /\ half.nodes = N + 3 /\ Tree(half, g4, open, x, N + 4)
         /\ Loose(half, g4, open, N + 2) /\ Childless(half, g4, N + 2)
         /\ g4[N + 2] = NewMark(x, x + 1, N + 1) /\ Under(half, g4, u, N + 1)
         /\ Get(half, N + 2) = [Get(n.pool, N + 2) EXCEPT !["left"] = N]
         /\ Loose(half, g4, open, N + 1) /\ g4[N + 1] = m2
    <3>1. EmptyAfter(n.pool, N + 2, "left")
      BY <2>15 DEF EmptyAfter
    <3>2. N + 1 \in Nodes(n.pool)
      BY <2>13 DEF Loose
    <3>3. half = SetIf(n.pool, N + 2, "left", N)
      BY <2>4, <2>5
    <3> HIDE DEF half
    <3> QED BY <1>4, <2>5, <2>10, <2>13, <2>14, <3>1, <3>2, <3>3, SetChild
  <2> HIDE DEF half, g4
  <2>17. Get(half, N + 2).right = NodeNull /\ Get(half, N + 2).ival = NodeNull
    BY <2>5, <2>16 DEF FreshNode
  <2> DEFINE g5 == Marked(g4, N + 2, NewMark(g4[N + 2].from, g4[N + 1].upto, g4[N + 2].rank))
  <2>18. /\ Sound(linked) /\ linked.nodes = N + 3 /\ Tree(linked, g5, open, x, N + 4)
         /\ Loose(linked, g5, open, N + 2) /\ Under(linked, g5, u, N + 1)
         /\ g5[N + 2] = NewMark(x, x + 1, N + 1)
    <3>1. EmptyAfter(half, N + 2, "right")
      BY <2>17 DEF EmptyAfter
    <3>2. linked = SetIf(half, N + 2, "right", N + 1)
      BY <2>5
    <3>3. g4[N + 2].from = x /\ g4[N + 2].upto = x + 1 /\ g4[N + 2].rank = N + 1
      BY <2>16 DEF NewMark
    <3> HIDE DEF linked
    <3> QED BY <2>10, <2>14, <2>16, <3>1, <3>2, <3>3, SetChild
  <2> HIDE DEF linked, g5
  <2>19. g5[N + 2].from = x /\ g5[N + 2].upto = x + 1 /\ g5[N + 2].rank = N + 1
    BY <2>18 DEF NewMark
  <2>20. N + 4 = Room(linked, open)
    BY <1>1, <2>4, <2>18 DEF Room
  <2>21. Whole(NdAppend(linked, Last(open), N + 2), open, x)
    BY <2>6, <2>10, <2>18, <2>19, <2>20, JoinText DEF u
  <2> QED BY <2>1, <2>5, <2>21
<1> QED BY <1>5, <1>6

(* A pool out of chunks stays so.                                          *)
LEMMA AllocFlag ==
  ASSUME NEW p, Flagged(p), NEW ln
  PROVE  LET q == NdAlloc(p, ln).pool IN Flagged(q) /\ (p.exhausted => q.exhausted)
<1>1. \A r, c : Flagged(r) =>
        Flagged(AddChunk(r, c)) /\ AddChunk(r, c).exhausted = r.exhausted
  BY DEF Flagged, AddChunk, Take
<1>2. Flagged(Grown(p)) /\ Grown(p).exhausted = p.exhausted
  BY <1>1 DEF Grown
<1>3. \A r : Flagged(r) => Flagged(Handed(r, ln)) /\ Handed(r, ln).exhausted = r.exhausted
  BY DEF Flagged, Handed
<1> DEFINE e == [p EXCEPT !.exhausted = TRUE]
<1>4. Flagged(e) /\ e.exhausted
  BY DEF Flagged
<1>5. NdAlloc(p, ln).pool = e \/ NdAlloc(p, ln).pool = Handed(Grown(p), ln)
  BY DEF NdAlloc
<1> HIDE DEF e
<1> QED BY <1>2, <1>3, <1>4, <1>5

(* What an IF allocates and links, in order.                               *)
IfParts(hasElse, cond, body, n, half, made, other, done) ==
  /\ cond = NdAlloc(pool, 0)
  /\ body = NdAlloc(cond.pool, line + 2)
  /\ n = NdAlloc(body.pool, line + 1)
  /\ half = SetIf(n.pool, n.node, "left", cond.node)
  /\ made = SetIf(half, n.node, "right", body.node)
  /\ other = NdAlloc(made, line + 3)
  /\ done = IF hasElse THEN SetElse(other.pool, n.node, other.node) ELSE made
  /\ pool' = NdAppend(done, Last(open), n.node)

(* The IF and its parts join the innermost block.                          *)
LEMMA IfJoins ==
  ASSUME AstInv, TextInv, NEW hasElse \in BOOLEAN, ParseIf(hasElse),
         NEW cond, NEW body, NEW n, NEW half, NEW made, NEW other, NEW done,
         IfParts(hasElse, cond, body, n, half, made, other, done)
  PROVE  TextInv'
<1> DEFINE x == line + 1
           N == pool.nodes
           u == open[Len(open)]
<1>1. /\ open' = open /\ phase = "parsing" /\ phase' = "parsing" /\ Len(open) > 1
      /\ line' = line + (IF hasElse THEN 3 ELSE 2) /\ line' <= MaxLines
  BY DEF ParseIf, InBlock, Parsing
<1>2. cond = NdAlloc(pool, 0) /\ body = NdAlloc(cond.pool, x + 1) /\ n = NdAlloc(body.pool, x)
  <2>1. line + 2 = x + 1
    BY DEF AstInv, WalkOK
  <2> HIDE DEF x
  <2> QED BY <2>1 DEF IfParts, x
<1>3. /\ half = SetIf(n.pool, n.node, "left", cond.node)
      /\ made = SetIf(half, n.node, "right", body.node)
  BY DEF IfParts
<1>4. other = NdAlloc(made, x + 2)
  <2>1. line + 3 = x + 2
    BY DEF AstInv, WalkOK
  <2> HIDE DEF x
  <2> QED BY <2>1 DEF IfParts
<1>5. done = IF hasElse THEN SetElse(other.pool, n.node, other.node) ELSE made
  BY DEF IfParts
<1>6. pool' = NdAppend(done, Last(open), n.node)
  BY DEF IfParts
<1>7. /\ line \in Nat /\ x \in 0 .. MaxLines /\ 0 \in 0 .. MaxLines /\ x + 1 \in 0 .. MaxLines
      /\ (hasElse => x + 2 \in 0 .. MaxLines) /\ Sound(pool)
  BY <1>1, PoolLimits DEF AstInv, WalkOK
<1>8. Sound(cond.pool)
  BY <1>2, <1>7, AllocSound DEF Built
<1>9. Sound(body.pool)
  BY <1>2, <1>7, <1>8, AllocSound DEF Built
<1>10. Sound(n.pool) /\ (n.node = NodeNull => n.pool.exhausted)
  BY <1>2, <1>7, <1>9, AllocSound DEF Built
<1>11. Flagged(made) /\ made.exhausted = n.pool.exhausted
  <2>1. Flagged(half) /\ half.exhausted = n.pool.exhausted
    BY <1>3, <1>10, SoundFlag, PutFlag
  <2> QED BY <1>3, <2>1, PutFlag
<1> SUFFICES ASSUME ~pool'.exhausted PROVE Whole(pool', open, line')
  BY <1>1 DEF TextInv
<1>12. ~hasElse => pool'.exhausted = made.exhausted
  BY <1>5, <1>6, <1>11, AppendFlag
<1>13. ASSUME hasElse PROVE Flagged(other.pool) /\ pool'.exhausted = other.pool.exhausted
  <2>1. Flagged(other.pool)
    BY <1>4, <1>11, AllocFlag
  <2>2. Flagged(done) /\ done.exhausted = other.pool.exhausted
    BY <1>5, <1>13, <2>1, PutFlag DEF SetElse
  <2> QED BY <1>6, <2>1, <2>2, AppendFlag
<1>14. ~n.pool.exhausted
  <2>1. CASE ~hasElse
    BY <1>11, <1>12, <2>1
  <2>2. CASE hasElse
    <3>1. made.exhausted => other.pool.exhausted
      BY <1>4, <1>11, AllocFlag
    <3> QED BY <1>11, <1>13, <2>2, <3>1
  <2> QED BY <2>1, <2>2
<1>15. /\ n.node = body.pool.nodes /\ n.pool.nodes = body.pool.nodes + 1 /\ ~body.pool.exhausted
       /\ Get(n.pool, body.pool.nodes) = FreshNode(x)
  BY <1>2, <1>7, <1>9, <1>14, AllocNode
<1>16. /\ body.node = cond.pool.nodes /\ body.pool.nodes = cond.pool.nodes + 1
       /\ ~cond.pool.exhausted
  BY <1>2, <1>7, <1>8, <1>15, AllocNode
<1>17. cond.node = N /\ cond.pool.nodes = N + 1 /\ ~pool.exhausted /\ N \in Nat
  BY <1>2, <1>7, <1>16, AllocNode
<1>18. /\ body.node = N + 1 /\ body.pool.nodes = N + 2 /\ n.node = N + 2 /\ n.pool.nodes = N + 3
       /\ Get(n.pool, N + 2) = FreshNode(x)
  BY <1>15, <1>16, <1>17
<1>19. x \in Nat /\ x + 1 \in Nat /\ x + 2 \in Nat /\ x # 0 /\ x + 1 # 0 /\ Whole(pool, open, line)
  BY <1>1, <1>7, <1>17, Before
<1>20. Room(pool, open) = N + 1
  BY <1>1, <1>7, RoomIs
<1>21. PICK g : Tree(pool, g, open, x, N + 1)
  BY <1>19, <1>20 DEF Whole
<1>22. u \in Nodes(pool) /\ Under(pool, g, u, N + 1)
  BY <1>7, <1>21, LastBlock
<1>23. /\ N + 1 \in Nat /\ N + 2 \in Nat /\ N + 3 \in Nat /\ N + 4 \in Nat /\ N + 5 \in Nat
       /\ N + 1 <= N + 4 /\ N + 4 <= N + 4 /\ N + 4 <= N + 5 /\ N + 4 < N + 5
       /\ N + 1 < N + 4 /\ N + 2 < N + 4 /\ N + 3 < N + 4 /\ N + 1 < N + 2 /\ N + 1 < N + 3
       /\ N # N + 1 /\ N # N + 2 /\ N + 1 # N + 2 /\ N + 3 # N + 2 /\ N + 1 < N + 4
  BY <1>17
<1> HIDE DEF x, N, u
(* The condition. *)
<1> DEFINE m1 == NewMark(x + 1, (x + 1) + Wide(0), N + 2)
           g1 == Marked(g, N, m1)
<1>24. /\ Tree(cond.pool, g1, open, x, N + 4) /\ Loose(cond.pool, g1, open, N) /\ g1[N] = m1
       /\ Under(cond.pool, g1, u, N + 1) /\ N \in Nodes(cond.pool)
       /\ \A i \in Nodes(pool) : i \in Nodes(cond.pool)
  <2>1. ~cond.pool.exhausted
    BY <1>16
  <2>2. /\ Tree(cond.pool, g1, open, x, N + 4) /\ Loose(cond.pool, g1, open, N) /\ g1[N] = m1
        /\ Under(cond.pool, g1, u, N + 1)
    BY <1>2, <1>7, <1>19, <1>21, <1>22, <1>23, <2>1, AddNode DEF N
  <2> QED BY <1>2, <1>7, <2>1, <2>2, AllocNode DEF N
<1> HIDE DEF g1
(* The body. *)
<1> DEFINE m2 == NewMark(x + 1, (x + 1) + Wide(x + 1), N + 3)
           g2 == Marked(g1, N + 1, m2)
<1>25. /\ Tree(body.pool, g2, open, x, N + 4) /\ Loose(body.pool, g2, open, N + 1)
       /\ g2[N + 1] = m2 /\ Under(body.pool, g2, u, N + 1) /\ g2[N] = m1
       /\ Loose(body.pool, g2, open, N) /\ N + 1 \in Nodes(body.pool)
       /\ u \in Nodes(body.pool) /\ N \in Nodes(body.pool)
  <2>1. ~body.pool.exhausted
    BY <1>15
  <2>2. /\ Tree(body.pool, g2, open, x, N + 4) /\ Loose(body.pool, g2, open, N + 1)
        /\ g2[N + 1] = m2
        /\ (\A i \in Nodes(cond.pool) : g2[i] = g1[i])
        /\ (\A m : Loose(cond.pool, g1, open, m) => Loose(body.pool, g2, open, m))
        /\ (\A v \in Nodes(cond.pool) : \A k : Under(cond.pool, g1, v, k) => Under(body.pool, g2, v, k))
    <3>1. Sound(cond.pool) /\ cond.pool.nodes = N + 1 /\ x + 1 \in 0 .. MaxLines
      BY <1>7, <1>8, <1>17
    <3> HIDE DEF N
    <3> QED BY <1>2, <1>19, <1>23, <1>24, <2>1, <3>1, AddNode
  <2>3. N + 1 \in Nodes(body.pool) /\ \A i \in Nodes(cond.pool) : i \in Nodes(body.pool)
    BY <1>2, <1>7, <1>8, <1>17, <2>1, AllocNode
  <2> HIDE DEF g2
  <2> QED BY <1>22, <1>24, <2>2, <2>3
<1> HIDE DEF g2
(* The IF. *)
<1> DEFINE m3 == NewMark(x, x + Wide(x), N + 1)
           g3 == Marked(g2, N + 2, m3)
<1>26. /\ Tree(n.pool, g3, open, x, N + 4) /\ Loose(n.pool, g3, open, N + 2) /\ g3[N + 2] = m3
       /\ Under(n.pool, g3, u, N + 1) /\ g3[N] = m1 /\ g3[N + 1] = m2
       /\ Loose(n.pool, g3, open, N) /\ Loose(n.pool, g3, open, N + 1)
       /\ Childless(n.pool, g3, N + 2) /\ u \in Nodes(n.pool)
  <2>1. /\ Tree(n.pool, g3, open, x, N + 4) /\ Loose(n.pool, g3, open, N + 2)
        /\ g3[N + 2] = m3 /\ Childless(n.pool, g3, N + 2)
        /\ (\A i \in Nodes(body.pool) : g3[i] = g2[i])
        /\ (\A m : Loose(body.pool, g2, open, m) => Loose(n.pool, g3, open, m))
        /\ (\A v \in Nodes(body.pool) : \A k : Under(body.pool, g2, v, k) => Under(n.pool, g3, v, k))
    BY <1>2, <1>7, <1>9, <1>14, <1>18, <1>19, <1>23, <1>25, AddNode
  <2>2. \A i \in Nodes(body.pool) : i \in Nodes(n.pool)
    BY <1>2, <1>7, <1>9, <1>14, AllocNode
  <2> HIDE DEF g3
  <2> QED BY <1>25, <2>1, <2>2
<1> HIDE DEF g3
<1>27. /\ m1.from = x + 1 /\ m1.upto = x + 1 /\ m1.rank = N + 2
       /\ m2.from = x + 1 /\ m2.upto = x + 2 /\ m2.rank = N + 3
       /\ m3.from = x /\ m3.upto = x + 1 /\ m3.rank = N + 1
  BY <1>7, <1>19 DEF NewMark, Wide
<1> HIDE DEF m1, m2, m3
(* Its parts hang under it. *)
<1>28. /\ Get(n.pool, N + 2).left = NodeNull /\ Get(n.pool, N + 2).right = NodeNull
       /\ Get(n.pool, N + 2).ival = NodeNull
  BY <1>18 DEF FreshNode
<1> DEFINE g4 == Marked(g3, N + 2, NewMark(g3[N + 2].from, g3[N].upto, g3[N + 2].rank))
<1>29. /\ Sound(half) /\ half.nodes = N + 3 /\ Tree(half, g4, open, x, N + 4)
       /\ half.exhausted = n.pool.exhausted
       /\ Loose(half, g4, open, N + 2) /\ Childless(half, g4, N + 2)
       /\ g4[N + 2] = NewMark(x, x + 1, N + 1) /\ Under(half, g4, u, N + 1)
       /\ Get(half, N + 2) = [Get(n.pool, N + 2) EXCEPT !["left"] = N]
       /\ Loose(half, g4, open, N + 1) /\ g4[N + 1] = m2
  <2>1. EmptyAfter(n.pool, N + 2, "left")
    BY <1>28 DEF EmptyAfter
  <2>2. N + 1 \in Nodes(n.pool)
    BY <1>26 DEF Loose
  <2>3. half = SetIf(n.pool, N + 2, "left", N)
    BY <1>3, <1>17, <1>18
  <2> QED BY <1>10, <1>18, <1>23, <1>26, <1>27, <2>1, <2>2, <2>3, SetChild
<1> HIDE DEF g4
<1>30. Get(half, N + 2).right = NodeNull /\ Get(half, N + 2).ival = NodeNull
  BY <1>18, <1>29 DEF FreshNode
<1> DEFINE g5 == Marked(g4, N + 2, NewMark(g4[N + 2].from, g4[N + 1].upto, g4[N + 2].rank))
<1>31. /\ Sound(made) /\ made.nodes = N + 3 /\ Tree(made, g5, open, x, N + 4)
       /\ made.exhausted = half.exhausted
       /\ Loose(made, g5, open, N + 2) /\ Childless(made, g5, N + 2) /\ Under(made, g5, u, N + 1)
       /\ g5[N + 2] = NewMark(x, x + 2, N + 1)
       /\ Get(made, N + 2) = [Get(half, N + 2) EXCEPT !["right"] = N + 1]
  <2>1. EmptyAfter(half, N + 2, "right")
    BY <1>30 DEF EmptyAfter
  <2>2. made = SetIf(half, N + 2, "right", N + 1)
    BY <1>3, <1>18
  <2>3. g4[N + 2].from = x /\ g4[N + 2].upto = x + 1 /\ g4[N + 2].rank = N + 1
    BY <1>29 DEF NewMark
  <2> QED BY <1>23, <1>27, <1>29, <2>1, <2>2, <2>3, SetChild
<1> HIDE DEF g5
<1>32. g5[N + 2].from = x /\ g5[N + 2].upto = x + 2 /\ g5[N + 2].rank = N + 1
  BY <1>31 DEF NewMark
<1>33. CASE ~hasElse
  <2>1. N + 4 = Room(made, open)
    BY <1>1, <1>17, <1>31 DEF Room
  <2>2. x + 1 = line' /\ x + 2 = line' + 1 /\ line' \in Nat
    BY <1>1, <1>7, <1>33 DEF x
  <2>3. Whole(NdAppend(made, Last(open), N + 2), open, line')
    BY <1>19, <1>23, <1>31, <1>32, <2>1, <2>2, JoinText DEF u
  <2> QED BY <1>5, <1>6, <1>18, <1>33, <2>3
<1>34. CASE hasElse
  <2> DEFINE m6 == NewMark(x + 2, (x + 2) + Wide(x + 2), N + 4)
             g6 == Marked(g5, N + 3, m6)
  <2>1. ~other.pool.exhausted /\ x + 2 \in 0 .. MaxLines /\ x + 2 # 0
    BY <1>7, <1>13, <1>19, <1>34
  <2>2. /\ other.node = N + 3 /\ other.pool.nodes = N + 4 /\ Sound(other.pool)
        /\ Get(other.pool, N + 2) = Get(made, N + 2)
    <3>1. N + 2 \in Nodes(made)
      BY <1>31 DEF Loose
    <3>2. /\ other.node = made.nodes /\ other.pool.nodes = made.nodes + 1 /\ Sound(other.pool)
          /\ Get(other.pool, N + 2) = Get(made, N + 2)
      BY <1>4, <1>31, <2>1, <3>1, AllocNode
    <3> QED BY <1>17, <1>31, <3>2
  <2>3. /\ Tree(other.pool, g6, open, x, N + 5) /\ Loose(other.pool, g6, open, N + 3)
        /\ g6[N + 3] = m6 /\ g6[N + 2] = g5[N + 2] /\ Under(other.pool, g6, u, N + 1)
        /\ Loose(other.pool, g6, open, N + 2) /\ Childless(other.pool, g6, N + 2)
    <3>1. N + 2 \in Nodes(made)
      BY <1>31 DEF Loose
    <3>2. u \in Nodes(made)
      BY <1>31, LastBlock DEF u
    <3>3. /\ Tree(other.pool, g6, open, x, N + 5) /\ Loose(other.pool, g6, open, N + 3)
          /\ g6[N + 3] = m6
          /\ (\A i \in Nodes(made) : g6[i] = g5[i])
          /\ (\A m : Loose(made, g5, open, m) => Loose(other.pool, g6, open, m))
          /\ (\A m \in Nodes(made) : Childless(made, g5, m) => Childless(other.pool, g6, m))
          /\ (\A v \in Nodes(made) : \A k : Under(made, g5, v, k) => Under(other.pool, g6, v, k))
      BY <1>4, <1>19, <1>23, <1>31, <2>1, AddNode
    <3> HIDE DEF g6
    <3> QED BY <1>31, <3>1, <3>2, <3>3
  <2> HIDE DEF g6
  <2>4. m6.from = x + 2 /\ m6.upto = x + 3 /\ m6.rank = N + 4
    BY <1>19, <2>1 DEF NewMark, Wide
  <2> HIDE DEF m6
  <2> DEFINE g7 == Marked(g6, N + 2, NewMark(g6[N + 2].from, g6[N + 3].upto, g6[N + 2].rank))
  <2>5. EmptyAfter(other.pool, N + 2, "ival")
    <3>1. Get(made, N + 2).ival = NodeNull
      BY <1>18, <1>29, <1>31 DEF FreshNode
    <3> QED BY <2>2, <3>1 DEF EmptyAfter
  <2>6. done = SetIf(other.pool, N + 2, "ival", N + 3)
    <3>1. N + 2 # NodeNull
      BY <1>17 DEF NodeNull
    <3> QED BY <1>5, <1>18, <1>34, <2>2, <3>1 DEF SetElse, SetIf
  <2>7. /\ Sound(done) /\ done.nodes = N + 4 /\ Tree(done, g7, open, x, N + 5)
        /\ Loose(done, g7, open, N + 2) /\ Under(done, g7, u, N + 1)
        /\ g7[N + 2] = NewMark(x, x + 3, N + 1)
    BY <1>23, <1>32, <2>2, <2>3, <2>4, <2>5, <2>6, SetChild
  <2> HIDE DEF g7
  <2>8. g7[N + 2].from = x /\ g7[N + 2].upto = x + 3 /\ g7[N + 2].rank = N + 1
    BY <2>7 DEF NewMark
  <2>9. N + 5 = Room(done, open)
    BY <1>1, <1>17, <2>7 DEF Room
  <2>10. x + 3 = line' + 1 /\ line' \in Nat
    BY <1>1, <1>7, <1>34 DEF x
  <2>11. Whole(NdAppend(done, Last(open), N + 2), open, line')
    BY <1>19, <1>23, <2>7, <2>8, <2>9, <2>10, JoinText DEF u
  <2> QED BY <1>6, <1>18, <2>11
<1> QED BY <1>33, <1>34

LEMMA IfText ==
  ASSUME AstInv, TextInv, NEW hasElse \in BOOLEAN, ParseIf(hasElse)
  PROVE  TextInv'
<1> DEFINE cond == NdAlloc(pool, 0)
           body == NdAlloc(cond.pool, line + 2)
           n == NdAlloc(body.pool, line + 1)
           half == SetIf(n.pool, n.node, "left", cond.node)
           made == SetIf(half, n.node, "right", body.node)
           other == NdAlloc(made, line + 3)
           done == IF hasElse THEN SetElse(other.pool, n.node, other.node) ELSE made
<1> HIDE DEF cond, body, n, half, made, other, done
<1>1. pool' = NdAppend(done, Last(open), n.node)
  BY DEF ParseIf, cond, body, n, half, made, other, done
<1>2. cond = NdAlloc(pool, 0) /\ body = NdAlloc(cond.pool, line + 2)
      /\ n = NdAlloc(body.pool, line + 1)
  BY DEF cond, body, n
<1>3. /\ half = SetIf(n.pool, n.node, "left", cond.node)
      /\ made = SetIf(half, n.node, "right", body.node)
      /\ other = NdAlloc(made, line + 3)
      /\ done = IF hasElse THEN SetElse(other.pool, n.node, other.node) ELSE made
  BY DEF half, made, other, done
<1>4. IfParts(hasElse, cond, body, n, half, made, other, done)
  BY <1>1, <1>2, <1>3 DEF IfParts
<1> QED BY <1>4, IfJoins

(* DO ... END: the block joins the one around it.                          *)
LEMMA BlockJoins ==
  ASSUME NEW p, Sound(p), NEW o, NEW ln \in Nat, Whole(p, o, ln), Len(o) > 2
  PROVE  Whole(NdAppend(p, o[Len(o) - 1], Last(o)), Front(o), ln)
<1> DEFINE r == Front(o)
           b == Last(o)
<1>1. p.nodes \in Nat /\ Room(p, o) = p.nodes + 1 /\ Room(p, o) \in Nat
  BY RoomIs
<1>2. PICK g : Tree(p, g, o, ln + 1, Room(p, o))
  BY DEF Whole
<1>3. /\ Tree(p, g, r, g[b].from, Room(p, o)) /\ Loose(p, g, r, b) /\ g[b].upto = ln + 1
      /\ Len(r) = Len(o) - 1 /\ Above(p, g, r[Len(r)], Spare(Len(r)), b)
  BY <1>2, Closes
<1>4. o \in Seq(Nodes(p)) /\ Len(o) \in Nat
  BY <1>2 DEF Tree, Stacked
<1>5. r \in Seq(Nodes(p)) /\ Len(r) > 1 /\ o[Len(o) - 1] = Last(r)
  BY <1>3, <1>4 DEF Front, Last
<1> HIDE DEF r, b
<1>6. Room(p, r) = Room(p, o)
  BY <1>1, <1>5, RoomIs
<1>7. b \in Nodes(p) /\ b \in Index
  BY <1>3, NodeIsIndex DEF Loose
<1>8. g[b].from \in Nat
  BY <1>2, <1>7, EndTypes DEF Tree
<1>9. Under(p, g, r[Len(r)], g[b].rank)
  <2>1. Len(r) # 1
    <3>1. \A l : l > 1 => l # 1
      OBVIOUS
    <3> QED BY <1>5, <3>1
  <2>2. Spare(Len(r)) = 0
    BY <2>1 DEF Spare
  <2>3. \A i \in Nodes(p) : g[i].rank \in Nat
    BY <1>2, NodeIsIndex, EndTypes DEF Tree
  <2> QED BY <1>3, <2>2, <2>3 DEF Above, Under
<1>10. Whole(NdAppend(p, Last(r), b), r, ln)
  BY <1>1, <1>3, <1>6, <1>8, <1>9, JoinText
<1> QED BY <1>5, <1>10 DEF r, b

(* END of a procedure: the PROC node takes the body and joins PROGRAM.     *)
LEMMA BodyJoins ==
  ASSUME NEW p, Sound(p), NEW o, NEW ln \in Nat, Whole(p, o, ln), Len(o) = 2,
         ~NdAlloc(p, 0).pool.exhausted
  PROVE  LET proc == NdAlloc(p, 0)
             held == SetIf(proc.pool, proc.node, "right", Last(o))
         IN  Whole(NdAppend(held, o[Len(o) - 1], proc.node), Front(o), ln)
<1> DEFINE r == Front(o)
           b == Last(o)
           q == NdAlloc(p, 0).pool
           N == p.nodes
           held == SetIf(q, N, "right", b)
<1>0. Len(o) > 1 /\ Len(o) - 1 = 1
  OBVIOUS
<1>1. N \in Nat /\ Room(p, o) = N + 1
  BY <1>0, RoomIs
<1>2. PICK g : Tree(p, g, o, ln + 1, N + 1)
  BY <1>1 DEF Whole
<1>3. /\ Tree(p, g, r, g[b].from, N + 1) /\ Loose(p, g, r, b) /\ g[b].upto = ln + 1
      /\ Len(r) = 1 /\ Above(p, g, r[Len(r)], 1, b)
  <2>1. Len(r) = Len(o) - 1 /\ Above(p, g, r[Len(r)], Spare(Len(r)), b)
        /\ Tree(p, g, r, g[b].from, N + 1) /\ Loose(p, g, r, b) /\ g[b].upto = ln + 1
    <3> DEFINE R == N + 1
               y == ln + 1
    <3>1. Tree(p, g, o, y, R) /\ Len(o) > 1
      BY <1>0, <1>2
    <3> HIDE DEF N, R, y
    <3>2. /\ Tree(p, g, r, g[b].from, R) /\ Loose(p, g, r, b) /\ g[b].upto = y
          /\ Len(r) = Len(o) - 1 /\ Above(p, g, r[Len(r)], Spare(Len(r)), b)
      BY <3>1, Closes
    <3> QED BY <3>2 DEF R, y
  <2> QED BY <1>0, <2>1 DEF Spare
<1>4. o \in Seq(Nodes(p)) /\ Len(o) \in Nat
  BY <1>2 DEF Tree, Stacked
<1>5. o[Len(o) - 1] = Last(r)
  BY <1>3, <1>4 DEF Front, Last
<1>6. 0 \in 0 .. MaxLines
  BY PoolLimits
<1>7. /\ Sound(q) /\ NdAlloc(p, 0).node = N /\ q.nodes = N + 1 /\ Get(q, N) = FreshNode(0)
      /\ \A i \in Nodes(p) : i \in Nodes(q) /\ i # N
  BY <1>6, AllocNode
<1> HIDE DEF r, b
<1> DEFINE u == r[Len(r)]
           x == g[b].from
           rk == g[b].rank - 1
           h == Marked(g, N, NewMark(x, x + Wide(0), rk))
<1>8. /\ b \in Nodes(p) /\ x \in Nat /\ g[b].rank \in Nat /\ g[b].rank < N + 1
      /\ u \in Nodes(p)
  <2>1. b \in Nodes(p) /\ b \in Index
    BY <1>3, NodeIsIndex DEF Loose
  <2>2. g[b].from \in Nat /\ g[b].rank \in Nat /\ g[b].rank < N + 1
    BY <1>2, <2>1, EndTypes DEF Tree, RankedBefore
  <2> QED BY <1>3, <2>1, <2>2, LastBlock
<1>9. Under(p, g, u, rk) /\ rk \in Nat /\ rk < N + 1 /\ rk < g[b].rank
  <2>1. \A i \in Nodes(p) : g[i].rank \in Nat
    BY <1>2, NodeIsIndex, EndTypes DEF Tree
  <2>2. g[u].rank + 1 < g[b].rank
    BY <1>3, <1>8 DEF Above
  <2>3. \A i \in Nodes(p) : i = u \/ g[i].of = u => g[i].rank + 1 < g[b].rank
    BY <1>3 DEF Above
  <2> HIDE DEF u, N
  <2>4. g[u].rank \in Nat
    BY <1>8, <2>1
  <2>5. rk \in Nat /\ rk < N + 1 /\ rk < g[b].rank
    BY <1>1, <1>8, <2>2, <2>4
  <2>6. \A i \in Nodes(p) : i = u \/ g[i].of = u => g[i].rank < rk
    BY <1>8, <2>1, <2>3
  <2> QED BY <2>5, <2>6 DEF Under
<1> HIDE DEF u
(* The PROC node. *)
<1>10. /\ Tree(q, h, r, x, N + 1) /\ Loose(q, h, r, N) /\ Childless(q, h, N)
       /\ h[N] = NewMark(x, x + Wide(0), rk) /\ h[b] = g[b] /\ Loose(q, h, r, b)
       /\ Under(q, h, u, rk) /\ b # N
  <2>1. N + 1 \in Nat /\ N + 1 <= N + 1
    BY <1>1
  <2> HIDE DEF x, rk
  <2>2. /\ Tree(q, h, r, x, N + 1) /\ Loose(q, h, r, N) /\ Childless(q, h, N)
        /\ h[N] = NewMark(x, x + Wide(0), rk)
        /\ (\A i \in Nodes(p) : h[i] = g[i])
        /\ (\A m : Loose(p, g, r, m) => Loose(q, h, r, m))
        /\ (\A v \in Nodes(p) : \A k : Under(p, g, v, k) => Under(q, h, v, k))
    BY <1>3, <1>6, <1>8, <1>9, <2>1, AddNode DEF x
  <2> HIDE DEF h, q, N
  <2> QED BY <1>3, <1>7, <1>8, <1>9, <2>2
<1> HIDE DEF q, h
<1>11. h[N].from = x /\ h[N].upto = x /\ h[N].rank = rk
  BY <1>8, <1>9, <1>10 DEF NewMark, Wide
<1> DEFINE h2 == Marked(h, N, NewMark(h[N].from, h[b].upto, h[N].rank))
<1>12. /\ Sound(held) /\ held.nodes = N + 1 /\ Tree(held, h2, r, x, N + 1) /\ Loose(held, h2, r, N)
       /\ h2[N] = NewMark(x, ln + 1, rk) /\ Under(held, h2, u, rk)
  <2>1. EmptyAfter(q, N, "right")
    BY <1>7 DEF EmptyAfter, FreshNode
  <2>2. N + 1 \in Nat
    BY <1>1
  <2>3. h[b].from = h[N].upto /\ h[N].rank < h[b].rank
    BY <1>9, <1>10, <1>11
  <2> HIDE DEF N, x, rk
  <2> QED BY <1>3, <1>7, <1>10, <1>11, <2>1, <2>2, <2>3, SetChild
<1> HIDE DEF held, h2
<1>13. h2[N].from = x /\ h2[N].upto = ln + 1 /\ h2[N].rank = rk
  BY <1>12 DEF NewMark
<1>14. Room(held, r) = N + 1
  <2>1. ~(Len(r) > 1)
    BY <1>3
  <2> QED BY <1>12, <2>1, RoomIs
<1>15. Whole(NdAppend(held, Last(r), N), r, ln)
  <2>1. N + 1 \in Nat
    BY <1>1
  <2> HIDE DEF N, x, rk
  <2> QED BY <1>8, <1>12, <1>13, <1>14, <2>1, JoinText DEF u
<1> QED BY <1>5, <1>7, <1>15 DEF r, b, held, q

LEMMA CloseText ==
  ASSUME AstInv, TextInv, BlockClose
  PROVE  TextInv'
<1> DEFINE proc == NdAlloc(pool, 0)
           held == SetIf(proc.pool, proc.node, "right", Last(open))
           up == open[Len(open) - 1]
<1>1. /\ open' = Front(open) /\ line' = line /\ phase = "parsing" /\ phase' = "parsing"
      /\ Len(open) > 1 /\ Sound(pool) /\ 0 \in 0 .. MaxLines /\ Len(open) \in Nat
      /\ IF Len(open) > 2 THEN pool' = NdAppend(pool, up, Last(open))
         ELSE pool' = NdAppend(held, up, proc.node)
  BY PoolLimits DEF BlockClose, InBlock, Parsing, AstInv, WalkOK
<1> HIDE DEF up
<1>2. CASE Len(open) > 2
  <2>1. pool' = NdAppend(pool, up, Last(open)) /\ pool'.exhausted = pool.exhausted
    BY <1>1, <1>2, SoundFlag, AppendFlag
  <2> SUFFICES ASSUME ~pool.exhausted PROVE Whole(pool', Front(open), line)
    BY <1>1, <2>1 DEF TextInv
  <2>2. line \in Nat /\ Whole(pool, open, line)
    BY <1>1, Before
  <2> QED BY <1>1, <1>2, <2>1, <2>2, BlockJoins DEF up
<1>3. CASE ~(Len(open) > 2)
  <2> HIDE DEF held, proc
  <2>0. Len(open) \in Nat /\ Len(open) > 1
    BY <1>1
  <2>1. Len(open) = 2 /\ pool' = NdAppend(held, up, proc.node)
    <3>1. \A l \in Nat : l > 1 /\ ~(l > 2) => l = 2
      OBVIOUS
    <3> QED BY <1>1, <1>3, <2>0, <3>1
  <2>2. Sound(proc.pool)
    BY <1>1, AllocSound DEF proc, Built
  <2>3. pool'.exhausted = proc.pool.exhausted
    <3>1. Flagged(held) /\ held.exhausted = proc.pool.exhausted
      BY <2>2, SoundFlag, PutFlag DEF held
    <3> QED BY <2>1, <3>1, AppendFlag
  <2> SUFFICES ASSUME ~proc.pool.exhausted PROVE Whole(pool', Front(open), line)
    BY <1>1, <2>3 DEF TextInv
  <2>4. ~pool.exhausted
    BY <1>1, AllocNode DEF proc
  <2>5. line \in Nat /\ Whole(pool, open, line)
    BY <1>1, <2>4, Before
  <2>6. Whole(NdAppend(held, up, proc.node), Front(open), line)
    BY <1>1, <2>1, <2>5, BodyJoins DEF held, proc, up
  <2> QED BY <2>1, <2>6
<1> QED BY <1>2, <1>3

LEMMA FinishText ==
  ASSUME TextInv, Finish
  PROVE  TextInv'
BY DEF Finish, TextInv

LEMMA TextStep == AstInv /\ TextInv /\ [Next]_vars => TextInv'
<1> SUFFICES ASSUME AstInv, TextInv, [Next]_vars PROVE TextInv'
  OBVIOUS
<1>1. CASE UNCHANGED vars
  BY <1>1 DEF vars, TextInv
<1> QED BY <1>1, StartText, OpenText, CloseText, ReturnText, AssignText, IfText, FinishText
        DEF Next

LEMMA TextInvariant == Spec => []TextInv
BY TextStart, TextStep, AstInvariant, PTL DEF Spec

(* A pool whose one open block is PROGRAM lists the lines it holds.        *)
LEMMA WholeLists ==
  ASSUME NEW p, Sound(p), NEW o, NEW ln \in Nat, Whole(p, o, ln), Len(o) = 1
  PROVE  Listing(p, o[1]) = [i \in 1 .. ln |-> i]
<1> DEFINE R == p.nodes
           root == o[1]
           x == ln + 1
<1>0. ~(Len(o) > 1)
  OBVIOUS
<1>1. R \in Nat /\ Room(p, o) = R
  BY <1>0, RoomIs
<1>2. PICK g : Tree(p, g, o, x, R)
  BY <1>1 DEF Whole
<1> HIDE DEF R
<1>3. /\ g \in [Index -> Mark] /\ AllGood(p, g) /\ RankedBefore(g, p, R)
      /\ g[root].from = 1 /\ g[root].rank = 0 /\ g[root].upto = x /\ OpenBlock(p, g, root)
      /\ root \in Nodes(p)
  <2>1. 1 \in 1 .. Len(o)
    OBVIOUS
  <2>2. o \in Seq(Nodes(p)) /\ OpenBlock(p, g, o[1]) /\ g[o[1]].from = 1 /\ g[o[1]].rank = 0
    BY <1>2, <2>1 DEF Tree, Stacked
  <2>3. g[o[1]].upto = x
    <3>1. g[o[Len(o)]].upto = x
      BY <1>2 DEF Tree
    <3> QED BY <3>1
  <2>4. o[1] \in Nodes(p)
    BY <2>1, <2>2, ElementOfSeq
  <2> HIDE DEF x
  <2> QED BY <1>2, <2>2, <2>3, <2>4 DEF Tree
<1>4. root \in Link
  BY <1>3, NodeIsIndex DEF Link
<1>5. Depth \in Nat /\ R <= Depth
  <2>1. p.nodes <= ChunkMax * PerChunk
    BY RefIsLink, SoundPool
  <2> QED BY <2>1, PoolLimits DEF Depth, R
<1>6. PICK f : Levels(p, f, Depth) /\ Listing(p, root) = f[Depth][root]
  BY <1>4, ListingLevels
<1>7. f[Depth][root] = Lines(1, End(g, root))
  <2>1. Depth \in 0 .. Depth /\ Depth + g[root].rank >= R
    BY <1>1, <1>3, <1>5
  <2>2. \A d \in 0 .. Depth, i \in Nodes(p) :
          d + g[i].rank >= R => f[d][i] = Lines(g[i].from, End(g, i))
    BY <1>1, <1>3, <1>6, Lists
  <2> HIDE DEF root
  <2> QED BY <1>3, <2>1, <2>2
<1>8. End(g, root) = x
  BY <1>3 DEF End, OpenBlock
<1>9. Lines(1, x) = [i \in 1 .. ln |-> i]
  <2>1. x - 1 = ln /\ \A k \in 1 .. ln : 1 + k - 1 = k
    OBVIOUS
  <2> HIDE DEF x
  <2> QED BY <2>1 DEF Lines
<1> QED BY <1>6, <1>7, <1>8, <1>9

(* Every statement of the source is in the tree under PROGRAM, once and in *)
(* source order, after a compile that returned a text and left a chunk to  *)
(* take; and the flag that excuses the others is set only by a full pool   *)
(* (nd_append's walk, the links of an assignment, an IF, its ELSE and a    *)
(* PROC, and the double reset of the next compile).                        *)
THEOREM AstNothingLost == Spec => []NothingLost
<1>1. AstInv /\ TextInv => NothingLost
  <2> SUFFICES ASSUME AstInv, TextInv PROVE NothingLost
    OBVIOUS
  <2>1. ExhaustionIsHonest
    BY DEF AstInv, Sound, Honest, ExhaustionIsHonest
  <2>2. ASSUME Returned("text"), ~pool.exhausted PROVE WholeProgram
    <3>1. Whole(pool, open, line) /\ Len(open) = 1
      BY <2>2 DEF TextInv, Returned
    <3>2. Sound(pool) /\ line \in Nat
      BY PoolLimits DEF AstInv, WalkOK
    <3> QED BY <3>1, <3>2, WholeLists DEF WholeProgram
  <2> QED BY <2>1, <2>2 DEF NothingLost
<1> QED BY <1>1, AstInvariant, TextInvariant, PTL
=============================================================================
