-------------------------------- MODULE Heap --------------------------------
(***************************************************************************)
(* The PL/SW heap runtime of include/_plsw_storage.msw: _PLSW_GETMAIN and  *)
(* _PLSW_FREEMAIN over one static buffer, a singly linked free list sorted *)
(* by address, and a 6-byte header (size, next) in front of every block.   *)
(*                                                                         *)
(* The program is single-threaded, but both procedures walk the list one   *)
(* header at a time; every iteration of their loops is a step here, with   *)
(* the locals PREV, CURR, NEEDED and BLOCK as variables.  A header lives   *)
(* in the heap itself: bsize[h] and bnext[h] are the two words a header at *)
(* address h would be read from, whether or not a block starts there, so   *)
(* a pointer that was never handed out, or was already freed, finds        *)
(* whatever the memory holds.  A next word with a byte of the program's    *)
(* data, or of a header that starts elsewhere, may read as anything: as    *)
(* the sentinel, if its address is one of Marks, or as Junk, which stands  *)
(* for every other value.                                                  *)
(***************************************************************************)
EXTENDS Integers

CONSTANTS Base,      \* address of _PLSW_HEAP_BUF
          HeapSize,  \* PLSW_HEAP_SIZE
          Sizes,     \* the LENGTH operands the program uses
          Marks,     \* where the program's bytes may read as the sentinel
          Forges     \* may the program pass FREEMAIN such an address?

HeaderSize == 6
Magic == 16777215    \* _PLSW_ALLOC_MAGIC
Junk == -1

ASSUME HeapAssumption ==
  /\ Base \in Nat \ {0}
  /\ HeapSize \in Nat /\ HeapSize >= HeaderSize
  /\ Base + HeapSize < Magic
  /\ Sizes \subseteq Nat
  /\ Forges \in BOOLEAN

HeapEnd == Base + HeapSize
Hdr == Base .. (HeapEnd - HeaderSize)    \* where a header fits

VARIABLES
  bsize, bnext,     \* the header words of the heap memory
  freeHead,         \* _PLSW_FREE_HEAD, 0 for the empty list
  initDone,         \* _PLSW_INIT_DONE
  pc,               \* which procedure runs: "idle", "getWalk", "freeWalk"
  needed, block,    \* NEEDED of GETMAIN, BLOCK of FREEMAIN
  prev, curr,       \* PREV and CURR of either walk
  rc,               \* the RC of the last request, -1 while one runs
  live, asked,      \* the program's side: blocks it owns, LENGTH it asked for
  free,             \* history: the blocks linked in the free list
  forged            \* history: where a next word no procedure stamped is Magic

mem  == <<bsize, bnext, freeHead, initDone>>
frame == <<needed, block, prev, curr>>
Returned ==    \* the locals die with the call
  /\ needed' = 0 /\ block' = 0 /\ prev' = 0 /\ curr' = 0
prog == <<live, asked>>
vars == <<mem, pc, frame, rc, prog, free, forged>>

TypeOK ==
  /\ bsize \in [Hdr -> Nat]
  /\ bnext \in [Hdr -> Hdr \cup {0, Magic, Junk}]
  /\ freeHead \in Hdr \cup {0}
  /\ initDone \in BOOLEAN
  /\ pc \in {"idle", "getWalk", "freeWalk"}
  /\ needed \in Nat
  /\ block \in Hdr \cup {0}
  /\ prev \in Hdr \cup {0}
  /\ curr \in Hdr \cup {0}
  /\ rc \in {-1, 0, 1, 2, 4}
  /\ live \subseteq Hdr
  /\ asked \in [Hdr -> Nat]
  /\ free \subseteq Hdr
  /\ forged \subseteq Hdr

Init ==
  /\ bsize = [h \in Hdr |-> 0]
  /\ bnext = [h \in Hdr |-> 0]
  /\ freeHead = 0
  /\ initDone = FALSE
  /\ pc = "idle"
  /\ needed = 0 /\ block = 0 /\ prev = 0 /\ curr = 0
  /\ rc = 0
  /\ live = {}
  /\ asked = [h \in Hdr |-> 0]
  /\ free = {}
  /\ forged = {}

(* The next word of a header at a is at a + 3 .. a + 5: the addresses other *)
(* than those of hs whose next word has a byte of a header of hs ...        *)
Straddling(hs) == {a \in Hdr \ hs : \E h \in hs : a >= h - 5 /\ a <= h + 2}
(* ... and those with a byte of the data of the block at h.                 *)
InData(h) == {a \in Hdr : a > h /\ a <= h + bsize[h] - 4}

(* The memory after a write: next where whole, anything where torn. *)
Overlay(next, torn) ==
  \E data \in SUBSET (torn \cap Marks) :
    /\ bnext' = [a \in Hdr |-> IF a \in data THEN Magic
                               ELSE IF a \in torn THEN Junk ELSE next[a]]
    /\ forged' = {a \in forged \ torn : next[a] = Magic} \cup data

-----------------------------------------------------------------------------
(* _PLSW_GETMAIN *)

(* The call, up to the loop: _PLSW_INIT on the first one turns the whole   *)
(* buffer into one free block.                                             *)
GetmainCall(n) ==
  /\ pc = "idle"
  /\ rc' = -1
  /\ pc' = "getWalk"
  /\ needed' = n + HeaderSize
  /\ prev' = 0
  /\ initDone' = TRUE
  /\ \/ /\ initDone
        /\ curr' = freeHead
        /\ UNCHANGED <<bsize, bnext, freeHead, free, forged>>
     \/ /\ ~initDone
        /\ freeHead' = Base
        /\ bsize' = [bsize EXCEPT ![Base] = HeapSize]
        /\ Overlay([bnext EXCEPT ![Base] = 0], Straddling({Base}))
        /\ curr' = Base
        /\ free' = {Base}
  /\ UNCHANGED <<block, prog>>

FitsBare(h) == bsize[h] >= needed - HeaderSize   \* mutant: no room for the header
Fits(h) == bsize[h] >= needed
SplitsEmpty(h) == bsize[h] >= needed    \* mutant: an empty remainder
(* The remainder is worth a block of its own: header and one user byte. *)
Splits(h) == bsize[h] >= needed + HeaderSize + 1

(* What PREV points to once CURR leaves the list: with no predecessor the  *)
(* head moves, otherwise the predecessor's next.  The headers written are  *)
(* those of hs and of PREV.                                                *)
Relink(next, hs, h) ==
  \/ /\ prev = 0
     /\ freeHead' = h
     /\ Overlay(next, Straddling(hs))
  \/ /\ prev # 0
     /\ UNCHANGED freeHead
     /\ Overlay([next EXCEPT ![prev] = h], Straddling(hs \cup {prev}))

GetReturn(h) ==
  /\ Returned
  /\ pc' = "idle"
  /\ rc' = 0
  /\ live' = live \cup {h}
  /\ asked' = [asked EXCEPT ![h] = needed - HeaderSize]

Remainder(h) == bsize[h] - needed
Unstamped(next, h) == next    \* mutant: sentinel never written
Stamped(next, h) == [next EXCEPT ![h] = Magic]

(* First fit, split: the block is cut at CURR + NEEDED. *)
GetmainSplit ==
  /\ pc = "getWalk" /\ curr # 0 /\ Fits(curr) /\ Splits(curr)
  /\ LET rest == curr + needed IN
       /\ bsize' = [bsize EXCEPT ![rest] = Remainder(curr), ![curr] = needed]
       /\ Relink(Stamped([bnext EXCEPT ![rest] = bnext[curr]], curr), {rest, curr}, rest)
       /\ free' = (free \ {curr}) \cup {rest}
  /\ GetReturn(curr)
  /\ UNCHANGED initDone

(* First fit, whole block: BLOCK_SIZE keeps the size of the free block. *)
GetmainWhole ==
  /\ pc = "getWalk" /\ curr # 0 /\ Fits(curr) /\ ~Splits(curr)
  /\ Relink(Stamped(bnext, curr), {curr}, bnext[curr])
  /\ free' = free \ {curr}
  /\ GetReturn(curr)
  /\ UNCHANGED <<bsize, initDone>>

GetmainNextStays ==    \* mutant: CURR = CURR_NEXT is missing
  /\ pc = "getWalk" /\ curr # 0 /\ ~Fits(curr)
  /\ prev' = curr
  /\ UNCHANGED <<mem, pc, needed, block, curr, rc, prog, free, forged>>

GetmainNext ==
  /\ pc = "getWalk" /\ curr # 0 /\ ~Fits(curr)
  /\ prev' = curr
  /\ curr' = bnext[curr]
  /\ UNCHANGED <<mem, pc, needed, block, rc, prog, free, forged>>

GetmainOomAtLast ==    \* mutant: the loop tests the next pointer
  /\ pc = "getWalk" /\ curr # 0 /\ bnext[curr] = 0
  /\ pc' = "idle"
  /\ rc' = 4
  /\ Returned
  /\ UNCHANGED <<mem, prog, free, forged>>

(* The list is exhausted: address 0, which the macro turns into RC 4. *)
GetmainOom ==
  /\ pc = "getWalk" /\ curr = 0
  /\ pc' = "idle"
  /\ rc' = 4
  /\ Returned
  /\ UNCHANGED <<mem, prog, free, forged>>

-----------------------------------------------------------------------------
(* _PLSW_FREEMAIN *)

Refusal(h, n) ==
  IF bnext[h] # Magic THEN 1
  ELSE IF bsize[h] # n + HeaderSize THEN 2
  ELSE 0

(* The two checks, and the start of the walk when both pass.  The address  *)
(* may be a stale or a foreign one; that of bytes which happen to read as  *)
(* a stamped header only if Forges.                                        *)
FreemainCall(h, n) ==
  /\ pc = "idle"
  /\ h \in forged => Forges
  /\ \/ /\ Refusal(h, n) # 0
        /\ rc' = Refusal(h, n)
        /\ UNCHANGED <<pc, block, prev, curr>>
     \/ /\ Refusal(h, n) = 0
        /\ rc' = -1
        /\ pc' = "freeWalk"
        /\ block' = h
        /\ prev' = 0
        /\ curr' = freeHead
  /\ UNCHANGED <<mem, needed, prog, free, forged>>

NeverBelow == FALSE    \* mutant: insert at the head
(* The walk has not reached the block's place in the list. *)
Below == curr # 0 /\ curr < block

FreemainNext ==
  /\ pc = "freeWalk" /\ Below
  /\ prev' = curr
  /\ curr' = bnext[curr]
  /\ UNCHANGED <<mem, pc, needed, block, rc, prog, free, forged>>

TouchesAny == curr # 0    \* mutant: coalesce whatever follows
TouchesNever == FALSE      \* mutant: no coalesce
TouchesNear ==    \* mutant: the header counted twice
  curr # 0 /\ block + bsize[block] + HeaderSize >= curr
Touches == curr # 0 /\ block + bsize[block] = curr

(* The sorted insert between PREV and CURR, and the forward coalesce: when *)
(* the block ends where CURR starts it takes over CURR's size and next.    *)
FreemainLink ==
  /\ pc = "freeWalk" /\ ~Below
  /\ \/ /\ Touches
        /\ Relink([bnext EXCEPT ![block] = bnext[curr]], {block}, block)
        /\ bsize' = [bsize EXCEPT ![block] = bsize[block] + bsize[curr]]
        /\ free' = (free \ {curr}) \cup {block}
     \/ /\ ~Touches
        /\ Relink([bnext EXCEPT ![block] = curr], {block}, block)
        /\ UNCHANGED bsize
        /\ free' = free \cup {block}
  /\ live' = live \ {block}
  /\ asked' = [asked EXCEPT ![block] = 0]
  /\ pc' = "idle"
  /\ rc' = 0
  /\ Returned
  /\ UNCHANGED initDone

-----------------------------------------------------------------------------
(* The program fills a block it owns, with bytes of its choice. *)
Fill(h) ==
  /\ pc = "idle" /\ h \in live
  /\ Overlay(bnext, InData(h))
  /\ UNCHANGED <<bsize, freeHead, initDone, pc, frame, rc, prog, free>>

Getmain == GetmainSplit \/ GetmainWhole \/ GetmainNext \/ GetmainOom
Freemain == FreemainNext \/ FreemainLink

Next ==
  \/ \E n \in Sizes : GetmainCall(n)
  \/ Getmain
  \/ \E h \in Hdr, n \in Sizes : FreemainCall(h, n)
  \/ Freemain
  \/ \E h \in live : Fill(h)

Spec == Init /\ [][Next]_vars
(* A called procedure runs on: the processor executes its loop. *)
FairSpec == Spec /\ WF_vars(Getmain) /\ WF_vars(Freemain)
-----------------------------------------------------------------------------
(* Properties *)

Blocks == free \cup live
EndOf(h) == h + bsize[h]

(* Whatever the order of calls, the blocks on the free list and those the  *)
(* program owns tile the buffer: no byte is in two blocks and none is lost *)
(* (split, whole-block and coalesce of _PLSW_GETMAIN / _PLSW_FREEMAIN).    *)
HeapTiled ==
  /\ free \cap live = {}
  /\ IF initDone THEN Base \in Blocks ELSE Blocks = {}
  /\ \A h \in Blocks : /\ bsize[h] >= HeaderSize
                       /\ EndOf(h) = HeapEnd \/ EndOf(h) \in Blocks
  /\ \A g, h \in Blocks : g < h => EndOf(g) <= h

(* x is what a list sorted by address links after address a.               *)
IsNext(x, a) ==
  \/ x = 0 /\ \A g \in free : g <= a
  \/ x \in free /\ x > a /\ \A g \in free : g <= a \/ g >= x

(* The pointers in memory thread exactly the free blocks, in ascending     *)
(* order: the sorted insert of _PLSW_FREEMAIN and the unlinking of         *)
(* _PLSW_GETMAIN never lose, repeat or misplace one.                       *)
FreeListExact == IsNext(freeHead, 0) /\ \A h \in free : IsNext(bnext[h], h)

(* The sentinel is in memory at the blocks the program owns, and besides   *)
(* only where bytes that no procedure wrote as a header's next word read   *)
(* as it, never at the start of a free block: what the double-free check   *)
(* relies on, stale headers included.                                      *)
SentinelExact ==
  /\ \A h \in Hdr : bnext[h] = Magic <=> h \in live \cup forged
  /\ forged \cap Blocks = {}

(* A block holds what was asked for, and wastes less than the smallest     *)
(* block worth splitting off.                                              *)
BlockFitsRequest ==
  \A h \in live : /\ bsize[h] >= asked[h] + HeaderSize
                  /\ bsize[h] <= asked[h] + 2 * HeaderSize

(* A walk stands between two neighbours of the list, and the blocks it has *)
(* passed are too small (GETMAIN) or lie below the block (FREEMAIN).       *)
WalkInPlace ==
  /\ pc # "idle" => /\ initDone /\ rc = -1
                    /\ IF prev = 0 THEN curr = freeHead
                       ELSE prev \in free /\ curr = bnext[prev]
  /\ pc = "getWalk" => /\ needed >= HeaderSize
                       /\ \A g \in free : g <= prev => ~Fits(g)
  /\ pc = "freeWalk" => block \in live /\ prev < block

IInv == /\ TypeOK /\ HeapTiled /\ FreeListExact
        /\ SentinelExact /\ BlockFitsRequest /\ WalkInPlace

(* RC 4 only when no free block is large enough: the walk skips none.      *)
OomIsHonest == [][rc' = 4 /\ pc # "idle" => \A h \in free : ~Fits(h)]_vars

(* Every call comes back: the free list never closes on itself.            *)
CallsReturn == (pc # "idle") ~> (pc = "idle")

(* What docs/storage-allocation.md says of LEN: "same size that was         *)
(* requested" frees the block, RC 2 is for a size that does not match.     *)
RequestedLengthFrees ==
  pc = "idle" => \A h \in live : Refusal(h, asked[h]) = 0

(* The extents the program owns: what the abstract specification sees.     *)
Owned == {[lo |-> h, hi |-> EndOf(h) - 1] : h \in live}
Contract == INSTANCE HeapContract WITH
  First <- Base, Last <- HeapEnd - 1, owned <- Owned

(* The free list, the headers and the walks implement the contract: GETMAIN *)
(* grants memory that overlaps no other grant, FREEMAIN takes back exactly  *)
(* the one block it was given.                                              *)
ImplementsContract == Contract!Spec
=============================================================================
