--------------------------------- MODULE Link --------------------------------
(***************************************************************************)
(* Separate compilation as the build scripts of components/linker/tests    *)
(* drive it: prep every module, assemble it at 0, emit its .meta, compute  *)
(* the bases from the sizes, assemble it again at its base, and link24.    *)
(***************************************************************************)
EXTENDS Link24, LinkMeaning

CONSTANTS Programs,     \* sequences of module sources, in the script's order
          EntryPlaces, \* the places in that order --entry may name
          Handmade     \* sequences of modules for link24 that no script made

ASSUME ProgramsAssumption ==
  /\ Underscored \subseteq Symbols
  /\ \A p \in Programs : p \in Seq(Seq(Line)) /\ \A i \in DOMAIN p : Assembles(p[i])
  /\ EntryPlaces \subseteq Nat

VARIABLES
  srcs,     \* the program, <<>> when link24 is given hand-made modules
  entry,    \* --entry, an index of srcs
  stage,    \* the script's phase
  at,       \* the module the phase has reached
  stubs, listings, metas, bases, bins   \* what the phases have made, per module

products == <<stubs, listings, metas, bases, bins>>
script == <<srcs, entry, stage, at, products>>
vars == <<script, linkVars>>

Init ==
  /\ LinkInit
  /\ at = 1
  /\ stubs = <<>> /\ listings = <<>> /\ metas = <<>> /\ bases = <<>> /\ bins = <<>>
  /\ \/ srcs \in Programs /\ stage = "prep" /\ entry \in EntryPlaces \cap DOMAIN srcs
     \/ srcs = <<>> /\ stage = "handmade" /\ entry = 1

(* A phase does one module after the other. *)
Step(phase, next) ==
  /\ stage = phase
  /\ IF at < Len(srcs) THEN at' = at + 1 /\ UNCHANGED stage
                       ELSE at' = 1 /\ stage' = next
  /\ UNCHANGED <<srcs, entry, linkVars>>

Prep ==
  /\ Step("prep", "assemble")
  /\ stubs' = Append(stubs, [text |-> PrepText(srcs[at]), syms |-> Syms(srcs[at])])
  /\ UNCHANGED <<listings, metas, bases, bins>>

AssembleAtZero ==
  /\ Step("assemble", "emit")
  /\ listings' = Append(listings, Assembled(stubs[at].text, 0))
  /\ UNCHANGED <<stubs, metas, bases, bins>>

Emit ==
  /\ Step("emit", "layout") /\ EnoughZeros(listings[at], stubs[at].syms)
  /\ metas' = Append(metas, [exports |-> ExportsOf(listings[at], stubs[at].syms),
                             fixups |-> FixupsOf(listings[at], stubs[at].syms)])
  /\ UNCHANGED <<stubs, listings, bases, bins>>

(* ADDR=$((ADDR + SIZES[i])), in the script's own order. *)
Layout ==
  /\ Step("layout", "reassemble")
  /\ bases' = Append(bases,
       IF at = 1 THEN 0 ELSE bases[at - 1] + Len(Binary(listings[at - 1])))
  /\ UNCHANGED <<stubs, listings, metas, bins>>

Linked(text, start) == Binary(Assembled(text, start))

Reassemble ==
  /\ Step("reassemble", "link")
  /\ bins' = Append(bins, Linked(stubs[at].text, bases[at]))
  /\ UNCHANGED <<stubs, listings, metas, bases>>

OrderedAsGiven(n, e) == [j \in 1 .. n |-> j]    \* mutant: the entry stays where it is
(* The entry module first, the others in the order of the command line. *)
Ordered(n, e) == [j \in 1 .. n |-> IF j = 1 THEN e ELSE IF j <= e THEN j - 1 ELSE j]

ModuleOf(i) == [exports |-> metas[i].exports, fixups |-> metas[i].fixups, bin |-> bins[i]]

RunLink24 ==
  /\ \/ /\ stage = "link"
        /\ LET order == Ordered(Len(srcs), entry) IN
             Load([j \in 1 .. Len(srcs) |-> ModuleOf(order[j])])
     \/ /\ stage = "handmade"
        /\ \E given \in Handmade : Load(given)
  /\ stage' = "linking"
  /\ UNCHANGED <<srcs, entry, at, products>>

Linking == LinkNext /\ UNCHANGED script

Over == pc \in {"done", "died"} /\ UNCHANGED vars

Next ==
  \/ Prep \/ AssembleAtZero \/ Emit \/ Layout \/ Reassemble
  \/ RunLink24 \/ Linking \/ Over

Spec == Init /\ [][Next]_vars

-----------------------------------------------------------------------------
(* Properties *)

OutputBytes == [i \in 1 .. addr |-> output[i - 1]]

(* Where the pairing of references and listing lines goes by position: the *)
(* source's own la rN,0 come after the references to other modules; and    *)
(* where every label has an address: no module ends with one.              *)
ZerosLast(text) ==
  \A i, j \in DOMAIN text :
    External(text[i], Defined(text)) /\ text[j].op = "num" /\ Word(text[j].arg) = Word(0) => i < j
Regular(text) == ZerosLast(text) /\ (text # <<>> => text[Len(text)].op # "label")

(* The script assembles each module where its own order puts it, link24    *)
(* writes the entry first: they agree when the entry is first already, as  *)
(* the scripts have it, or no module holds an address of its own.          *)
Arranged ==
  <<srcs[entry]>> \o SubSeq(srcs, 1, entry - 1) \o SubSeq(srcs, entry + 1, Len(srcs))
Movable(text) ==
  \A i \in DOMAIN text : text[i].op = "la" => External(text[i], Defined(text))
WellPlaced == entry = 1 \/ \A i \in DOMAIN srcs : Movable(srcs[i])

(* What link24 writes is the program, its entry module first: every la of  *)
(* every module holds the final address of its symbol, every other byte is *)
(* the assembler's.                                                        *)
LinkedMeans ==
  srcs # <<>> /\ pc = "done" =>
    Sound(srcs) /\ (WellPlaced => OutputBytes = Image(Arranged))

(* What it would be if the order did not matter.                           *)
MeansInAnyOrder ==
  srcs # <<>> /\ pc = "done" => OutputBytes = Image(Arranged)

(* A program all of whose references have one meaning is linked.           *)
RefusedOnlyIfUnsound == srcs # <<>> /\ pc = "died" => ~Sound(srcs)

(* Documented (docs/linker-design.md, Error Handling): a fixup outside its *)
(* module is an error.                                                     *)
OutOfRangeRefused ==
  pc = "done" => \A i \in DOMAIN mods : \A j \in DOMAIN mods[i].fixups :
    mods[i].fixups[j].at + 4 <= Len(mods[i].bin)
=============================================================================
