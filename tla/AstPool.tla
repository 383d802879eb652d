------------------------------- MODULE AstPool -------------------------------
(***************************************************************************)
(* The AST storage of the compiler (chunk.h, ast.h) under the parser that  *)
(* fills it (parser.h) and the back-to-back compiles of one session        *)
(* (compile_program): nodes are indices, index i lives in slot             *)
(* i % PerChunk of the chunk ast_chunks[i / PerChunk], and chunks come     *)
(* from a first-fit table of ChunkMax.                                     *)
(*                                                                         *)
(* The parser is a recursive descent; open holds the blocks its active     *)
(* parse_block calls are filling, the PROGRAM node first.  The statements  *)
(* kept are those whose allocations differ: a RETURN (one node, no         *)
(* operand), an assignment (left, right, then the node itself), an IF with *)
(* or without ELSE, a DO block, and the PROC around them.                  *)
(***************************************************************************)
EXTENDS Integers, FiniteSets, Sequences, SequencesExt

CONSTANTS ChunkMax,     \* CHUNK_MAX = AST_CHUNKS_MAX
          PerChunk,     \* AST_NODES_PER_CHUNK
          MaxLines,     \* bound: statements of one source
          MaxCompiles   \* bound: compiles of one session

ASSUME PoolAssumption ==
  {ChunkMax, PerChunk, MaxLines, MaxCompiles} \subseteq Nat \ {0}

NodeNull == -1
NoChunk == -1
Chunks == 0 .. ChunkMax - 1
Slots == 0 .. PerChunk - 1
Index == 0 .. ChunkMax * PerChunk - 1
Link == Index \cup {NodeNull}

(* The node fields the parser links with; line also names the statement.   *)
Node == [left : Link, right : Link, next : Link, ival : Link, line : 0 .. MaxLines]
FreshNodeLate(ln) ==    \* mutant: lex_line is read a statement late
  [left |-> NodeNull, right |-> NodeNull, next |-> NodeNull, ival |-> NodeNull, line |-> ln + 1]
FreshNode(ln) == [left |-> NodeNull, right |-> NodeNull, next |-> NodeNull,
                    ival |-> NodeNull, line |-> ln]

VARIABLES
  pool,      \* the pool: in_use, ast_chunks, ast_chunk_count, nd_count, ...
  open,      \* the node of every parse_block in progress, PROGRAM first
  phase,     \* "idle", "parsing"
  parseErr,  \* parse_err
  result,    \* what the last compile_program returned: "none", "text", "null"
  line,      \* history: statements of the source read so far
  compiles   \* history: compiles started

vars == <<pool, open, phase, parseErr, result, line, compiles>>

Pool == [inUse : [Chunks -> BOOLEAN], chunks : [Chunks -> Chunks \cup {NoChunk}],
         count : 0 .. ChunkMax, nodes : Nat, exhausted : BOOLEAN,
         mem : [Chunks -> [Slots -> Node]]]

-----------------------------------------------------------------------------
(* chunk.h *)

ChunkInit(p) == [p EXCEPT !.inUse = [c \in Chunks |-> FALSE]]

FreeChunks(p) == {c \in Chunks : ~p.inUse[c]}
(* chunk_alloc: the first free descriptor, NoChunk for the null pointer.    *)
ChunkFound(p) ==
  IF FreeChunks(p) = {} THEN NoChunk
  ELSE CHOOSE c \in FreeChunks(p) : \A d \in FreeChunks(p) : c <= d
TakeUnmarked(p, c) == p    \* mutant: in_use stays 0
Take(p, c) == [p EXCEPT !.inUse[c] = TRUE]

(* chunk_free of each of cs; of the null pointer it does nothing.          *)
ChunkFree(p, cs) == [p EXCEPT !.inUse = [c \in Chunks |-> @[c] /\ c \notin cs]]

-----------------------------------------------------------------------------
(* ast.h *)

(* Every chunk in the table goes back to the pool.                         *)
AstInit(p) ==
  LET freed == ChunkFree(p, {p.chunks[i] : i \in 0 .. p.count - 1})
  IN  [freed EXCEPT !.chunks = [i \in Chunks |-> IF i < p.count THEN NoChunk ELSE @[i]],
                    !.count = 0, !.nodes = 0, !.exhausted = FALSE]

(* nd_xxx(i) for i >= 0.                                                   *)
Get(p, i) == p.mem[p.chunks[i \div PerChunk]][i % PerChunk]
Put(p, i, f, x) ==
  [p EXCEPT !.mem[p.chunks[i \div PerChunk]][i % PerChunk] = [@ EXCEPT ![f] = x]]

NeedsChunk(p) == p.nodes \div PerChunk >= p.count

(* No chunk for the next node: the table is full, or chunk_alloc fails.    *)
Full(p) == NeedsChunk(p) /\ (p.count >= ChunkMax \/ ChunkFound(p) = NoChunk)
AddChunk(p, c) == [Take(p, c) EXCEPT !.chunks[p.count] = c, !.count = @ + 1]
Grown(p) == IF NeedsChunk(p) THEN AddChunk(p, ChunkFound(p)) ELSE p
Handed(p, ln) ==
  [p EXCEPT !.nodes = @ + 1,
            !.mem[p.chunks[p.nodes \div PerChunk]][p.nodes % PerChunk] = FreshNode(ln)]

(* nd_alloc: the new pool and the node, or NodeNull and the sticky flag.   *)
NdAlloc(p, ln) ==
  IF Full(p) THEN [pool |-> [p EXCEPT !.exhausted = TRUE], node |-> NodeNull]
  ELSE [pool |-> Handed(Grown(p), ln), node |-> p.nodes]

(* A field set only on a node that was allocated: if (n != NODE_NULL) ...  *)
SetIf(p, i, f, x) == IF i = NodeNull THEN p ELSE Put(p, i, f, x)

(* The walk along the siblings from first, and the last one.               *)
NextSibling(p, i) == IF Get(p, i).next = NodeNull THEN i ELSE Get(p, i).next
SiblingWalk(p, first) ==
  LET at[k \in 0 .. p.nodes] == IF k = 0 THEN first ELSE NextSibling(p, at[k - 1]) IN at
LastSibling(p, first) == SiblingWalk(p, first)[p.nodes]

NdAppendFront(p, parent, child) ==    \* mutant: the chain is not walked
  IF parent = NodeNull \/ child = NodeNull THEN p
  ELSE IF Get(p, parent).left = NodeNull THEN Put(p, parent, "left", child)
  ELSE Put(p, Get(p, parent).left, "next", child)

NdAppend(p, parent, child) ==
  IF parent = NodeNull \/ child = NodeNull THEN p
  ELSE IF Get(p, parent).left = NodeNull THEN Put(p, parent, "left", child)
  ELSE Put(p, LastSibling(p, Get(p, parent).left), "next", child)

-----------------------------------------------------------------------------
(* parser.h and compile.h *)

Init ==
  /\ pool = [inUse |-> [c \in Chunks |-> FALSE], chunks |-> [c \in Chunks |-> NoChunk],
             count |-> 0, nodes |-> 0, exhausted |-> FALSE,
             mem |-> [c \in Chunks |-> [s \in Slots |-> FreshNode(0)]]]
  /\ open = <<>>
  /\ phase = "idle" /\ parseErr = FALSE /\ result = "none"
  /\ line = 0 /\ compiles = 0

(* compile_program resets both layers, then parse_program allocates PROGRAM. *)
CompileStart ==
  /\ phase = "idle" /\ compiles < MaxCompiles
  /\ LET root == NdAlloc(AstInit(ChunkInit(pool)), 0) IN
       /\ pool' = root.pool
       /\ open' = <<root.node>>
       /\ parseErr' = (root.node = NodeNull)
  /\ phase' = "parsing" /\ line' = 0 /\ compiles' = compiles + 1
  /\ UNCHANGED result

Parsing == phase = "parsing" /\ ~parseErr
InBlock == Parsing /\ Len(open) > 1
ReadsLine == line < MaxLines /\ line' = line + 1

(* PROC ... ; at top level, DO ; inside a block: parse_block's BLOCK node. *)
BlockOpen ==
  /\ Parsing /\ ReadsLine
  /\ LET b == NdAlloc(pool, line + 1) IN
       pool' = b.pool /\ open' = Append(open, b.node)
  /\ UNCHANGED <<phase, parseErr, result, compiles>>

(* END; the block joins its parent, directly or, for a procedure's body,   *)
(* under a PROC node.                                                      *)
BlockClose ==
  /\ InBlock
  /\ LET body == Last(open)
         up   == open[Len(open) - 1]
         proc == NdAlloc(pool, 0)
     IN  IF Len(open) > 2
         THEN pool' = NdAppend(pool, up, body)
         ELSE pool' = NdAppend(SetIf(proc.pool, proc.node, "right", body), up, proc.node)
  /\ open' = Front(open)
  /\ UNCHANGED <<phase, parseErr, result, line, compiles>>

ParseReturn ==
  /\ InBlock /\ ReadsLine
  /\ LET n == NdAlloc(pool, line + 1) IN
       pool' = NdAppend(n.pool, Last(open), n.node)
  /\ UNCHANGED <<open, phase, parseErr, result, compiles>>

(* Without a node for the left side parse_stmt gives up before the "=",    *)
(* which the next parse_stmt reports; without one for the rest, the        *)
(* statement is read to its end and dropped.                               *)
ParseAssign ==
  /\ InBlock /\ ReadsLine
  /\ LET l == NdAlloc(pool, 0)
         r == NdAlloc(l.pool, 0)
         n == NdAlloc(r.pool, line + 1)
         linked == SetIf(SetIf(n.pool, n.node, "left", l.node), n.node, "right", r.node)
     IN  IF l.node = NodeNull
         THEN pool' = l.pool /\ parseErr' = TRUE
         ELSE pool' = NdAppend(linked, Last(open), n.node) /\ UNCHANGED parseErr
  /\ UNCHANGED <<open, phase, result, compiles>>

(* nd_ival(prev_if) with prev_if = NODE_NULL: -1 / 136 is chunk 0 and -1 % *)
(* 136 is -1, the word before the ival array, which is next of the last    *)
(* slot of that chunk.                                                     *)
SetElse(p, ifNode, x) ==
  IF ifNode # NodeNull THEN Put(p, ifNode, "ival", x)
  ELSE Put(p, PerChunk - 1, "next", x)

(* IF ... THEN RETURN; [ELSE RETURN;]                                      *)
ParseIf(hasElse) ==
  /\ InBlock /\ line + 2 <= MaxLines
  /\ line' = line + (IF hasElse THEN 3 ELSE 2)
  /\ line' <= MaxLines
  /\ LET cond == NdAlloc(pool, 0)
         then == NdAlloc(cond.pool, line + 2)
         n    == NdAlloc(then.pool, line + 1)
         made == SetIf(SetIf(n.pool, n.node, "left", cond.node), n.node, "right", then.node)
         else == NdAlloc(made, line + 3)
         done == IF hasElse THEN SetElse(else.pool, n.node, else.node) ELSE made
     IN  pool' = NdAppend(done, Last(open), n.node)
  /\ UNCHANGED <<open, phase, parseErr, result, compiles>>

(* The end of the source, or the first syntax error: compile_program       *)
(* returns 0 when parse_err is set and goes on to emit otherwise.          *)
Finish ==
  /\ phase = "parsing" /\ (parseErr \/ Len(open) = 1)
  /\ phase' = "idle"
  /\ result' = IF parseErr THEN "null" ELSE "text"
  /\ UNCHANGED <<pool, open, parseErr, line, compiles>>

Next ==
  \/ CompileStart \/ BlockOpen \/ BlockClose \/ ParseReturn \/ ParseAssign
  \/ \E hasElse \in BOOLEAN : ParseIf(hasElse)
  \/ Finish

Spec == Init /\ [][Next]_vars

-----------------------------------------------------------------------------
(* Properties *)

TypeOK ==
  /\ pool \in Pool
  /\ open \in Seq(Link)
  /\ phase \in {"idle", "parsing"} /\ parseErr \in BOOLEAN
  /\ result \in {"none", "text", "null"}
  /\ line \in 0 .. MaxLines /\ compiles \in 0 .. MaxCompiles

(* The chunk table and the AST's own table agree, across the double reset  *)
(* of a later compile: the chunks in use are those the AST lists, and it   *)
(* lists exactly as many as its nodes need (chunk_used, ast_chunk_count).  *)
ChunksAccounted ==
  /\ {c \in Chunks : pool.inUse[c]} = {pool.chunks[i] : i \in 0 .. pool.count - 1}
  /\ pool.count * PerChunk >= pool.nodes
  /\ (pool.count - 1) * PerChunk < pool.nodes \/ pool.count = 0

(* Every link is to a node handed out since ast_init, and siblings are     *)
(* linked in the order they were allocated, so that the walk of nd_append  *)
(* ends and stays in the pool.                                             *)
LinksOK(p, i) ==
  LET n == Get(p, i) IN
    /\ {n.left, n.right, n.next, n.ival} \subseteq 0 .. p.nodes - 1 \cup {NodeNull}
    /\ n.next = NodeNull \/ i < n.next

(* The nodes handed out since ast_init live in distinct slots, all of them *)
(* in chunks marked in_use: chunk_alloc never hands a chunk out twice, so  *)
(* building one subtree cannot overwrite another, no chunk is lost, and the *)
(* tree has no link out of the pool and no cycle of siblings.              *)
NodesHaveTheirOwnSlots ==
  LET slot(i) == <<pool.chunks[i \div PerChunk], i % PerChunk>>
      nodes   == 0 .. pool.nodes - 1
  IN  /\ ChunksAccounted
      /\ \A i \in nodes : slot(i)[1] \in Chunks /\ pool.inUse[slot(i)[1]]
      /\ \A i, j \in nodes : slot(i) = slot(j) => i = j
      /\ \A i \in nodes : LinksOK(pool, i)

(* "AST pool exhausted" is reported only for a program that filled every   *)
(* slot of every chunk, and never carried over from an earlier compile of  *)
(* the session.                                                            *)
ExhaustionIsHonest ==
  pool.exhausted => pool.nodes = ChunkMax * PerChunk

(* The statements below each node, siblings included, in the order code    *)
(* generation visits them, from what they are a level further down.        *)
Below(p, deeper) ==
  [i \in Link |->
     IF i = NodeNull THEN <<>>
     ELSE LET n == Get(p, i)
          IN  (IF n.line = 0 THEN <<>> ELSE <<n.line>>)
              \o deeper[n.left] \o deeper[n.right] \o deeper[n.ival] \o deeper[n.next]]
Depth == ChunkMax * PerChunk
Listing(p, root) ==
  LET below[d \in 0 .. Depth] ==
        IF d = 0 THEN [i \in Link |-> <<>>] ELSE Below(p, below[d - 1])
  IN  below[Depth][root]

WholeProgram == Listing(pool, open[1]) = [i \in 1 .. line |-> i]

Returned(r) == phase = "idle" /\ result = r

(* A compile that succeeds without exhausting the pool has every statement *)
(* of the source in the tree under PROGRAM, once, and in source order:     *)
(* no append walks past, overwrites or shares a sibling chain; and the     *)
(* excuse of an exhausted pool is honest.                                  *)
NothingLost ==
  /\ ExhaustionIsHonest
  /\ Returned("text") /\ ~pool.exhausted => WholeProgram

(* compile.h: "Compile a PL/SW source string to a complete .s program.     *)
(* Returns the assembly output string, or 0 on error."  A non-null result  *)
(* is for a tree with every statement.                                     *)
SuccessIsWholeProgram ==
  Returned("text") => WholeProgram
=============================================================================
