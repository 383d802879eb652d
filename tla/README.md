# PL/SW verification

TLA+ specifications of the PL/SW compiler for the COR24, of the storage runtime
its programs link, and the theorems proved about them. The compiler is
freestanding C in `src/src/*.h`, one translation unit of headers; the linker and
the meta generator are Rust (`src/components/linker`); the heap runtime is PL/SW
itself (`src/include/_plsw_storage.msw`).

## The system

A source arrives over the UART, framed as `FILE:` and `SOURCE:` blocks
(`main.c`), and is compiled in one pass over the text, one over the tree and no
disk. `compile_program` (`compile.h`) initialises every subsystem, parses,
lays out globals, and emits assembly that leaves over the same UART while it is
being produced. An external assembler and `link24` make the program.

| component | state it keeps | operations | talks to |
|---|---|---|---|
| main program, `main.c` | source and include buffers, REPL line | `read_compile_input`, REPL | registers files with the lexer, calls `compile_program` |
| lexer, `lexer.h` | source, position, line; include stack; `%DEFINE` table; `%IF` stack | `lex_scan`, `inc_push/pop`, `def_set/get` | the parser calls it per token; macros push text onto its include stack |
| macros, `macro.h` | macro table, argument values, one expansion buffer | `mac_parse_def`, `mac_parse_invoke`, `mac_expand` | reads tokens, feeds text back to the lexer |
| parser, `parser.h` | the current token, `parse_err` | recursive descent, no backtracking | allocates nodes and names |
| tree, `ast.h`, and chunks, `chunk.h` | node pool in 4 KB chunks, chunk table | `nd_alloc`, `ast_init`, `chunk_alloc/free` | parser builds, code generator reads |
| symbols, types, layout: `symtab.h`, `types.h`, `layout.h` | scopes, record descriptors, frame and static offsets | `sym_*`, `td_*`, `layout_*` | code generator asks for addresses |
| code generator, `codegen.h` | label counter, strings, error flag | `cg_expr`, `cg_stmt`, `cg_proc`, ... | emits lines |
| output, `emit.h` | a buffer that drains to the UART | `emit_char`, `emit_flush` | shares the UART with diagnostics |
| heap runtime, `_plsw_storage.msw` | static buffer, free list, block headers | `GETMAIN`, `FREEMAIN` | called by compiled programs |
| linker and meta generator (Rust) | modules, symbol table, fixups | `prep`, `emit`, `link` | files |

Nothing runs concurrently. What is hard here is of other kinds: one component
reading text another is replacing (macros in the include stack), fixed tables
that overflow in the middle of a construct, output that has left before the
error is found, state that survives from one procedure or compilation to the
next, and long sequences of heap calls over one list. What makes each component
correct:

- heap: extents granted never meet, nothing is lost or found twice, refusal is honest, every call returns;
- tree: no two nodes share storage, and an accepted program is a whole one;
- output: the UART carries the text in order and once, and the verdict matches;
- lexer: the tokens are those the directives promise;
- macros: the parser sees what it would if every invocation were written out;
- storage: variables do not overlap and a store stays inside its variable;
- code: running it does what the source means, on a balanced stack;
- parser: a program is read as the grammar's precedence and nesting say, an accepted text is in the tree to its last token, parsing ends;
- input: what was sent is what is compiled, file by file and byte by byte;
- linker: every reference reaches its final address and no other byte changes.

## Modules

Abstract specifications: `HeapContract`, `EmitContract` (state machines, refined
with `INSTANCE ... WITH`), and `LexExpansion`, `MacroMeaning`, `PlswMeaning`,
`PlswText` and `LinkMeaning` (definitions by recursion on the program, with none
of the machinery of the code, that the state machines are compared with).

| module | models | state and actions |
|---|---|---|
| `Heap` | `_plsw_storage.msw` | header words per address, `freeHead`, `initDone`, and the locals of the procedure that runs; one action for the call, for each iteration of a walk, and for each way it ends; and the program's writes to its blocks, any bytes, the sentinel's included |
| `HeapContract` | what it promises | the set of owned extents; `Allocate`, `Release` |
| `HeapLifo` | a program that frees in reverse order | `Heap` with the order of its grants |
| `AstPool` | `chunk.h`, `ast.h`, and the parser's tree building | chunk table, node pool, open blocks; one action per statement form |
| `Emit`, `EmitContract` | `emit.h`, `io.h`, the phases and verdict of `compile_program` | buffer, position, flush loop, UART; one action per character |
| `LexSource`, `LexExpansion` | `lex_scan`'s loop over files | place, include frames, defines, conditions; one action per directive |
| `MacroMeaning`, `Macro` | `macro.h`, the include stack under it, the statement parser | text, macro table, the one buffer, lexer stack, parse stack; `Define`, `Invoke`, and one action per statement form |
| `PlswText` | the grammar | the text of a tree, with as few parentheses as the precedences allow |
| `Parser` | `parser.h` | one token at a time, a stack of pending work for the C call stack, values built so far; an action per kind of work: `Expect`, `NextLevel`, `InBlock`, ... |
| `Input` | `main.c`'s prompt, line editor and `read_compile_input` | position in what is received, line, header, buffers, registered files; an action per byte by phase |
| `LinkMeaning` | what separate assembly and linking promise | the image of a program and whether it is sound, from the sources alone |
| `LinkAddress`, `MetaGen` | `meta_gen.rs`, and the assembler around it | operators on lines of assembly: stubs, symbol file, exports, fixups |
| `Link24` | `main.rs`'s `link()` | bases, table, output; an action per turn of each loop and per error |
| `Link` | the build script of `components/linker/tests` | `MetaGen` and `Link24` composed, phase by phase |
| `Storage` | `symtab.h`, `types.h`, `layout.h`, the addressing of `codegen.h` | scopes, descriptors, frame; an action per declaration, parameter, and procedure entry and exit |
| `PlswMeaning` | the language | an interpreter of trees |
| `CodeGen` | `codegen.h`'s expressions, statements, procedures | operators: the instruction sequence of each construct, label counter passed through |
| `CodeRun` | the COR24 as `codegen.h` uses it | code, registers, flag, stack, statics; an action per instruction |

`HeapProofs`, `AstPoolProofs`, `EmitProofs`, `LexProofs`, `StorageProofs`,
`LinkProofs`, `LinkMeansProofs`, `InputProofs` hold the proofs. `MC*` modules only choose constants. In `CodeGen` an address is a place (a static, or
a word of the frame) whose bytes `Storage` gives; `Macro` takes the include
stack as `LexSource` has it, without conditions and defines. Words in comments
marked `mutant` are wrong variants of the definition below them, used to confirm
that a property depends on it.

`Parser` keeps a tree as a value and `AstPool` keeps it in nodes; the two split
`parser.h` by what can go wrong (reading the wrong tree, running out of nodes).

The processor is external: `CodeRun`'s instructions do what the comments and
sequences of `codegen.h` and `emit.h` count on (`brt` after `ceq`, `cls` signed,
`jal` leaving the return address in r1, words on the stack).

## Runs

`tlc -config X.cfg M` for each; the names are those of `PROJECT.json`.

| run | asks | bounds, and why they are enough |
|---|---|---|
| `heap` | Do the blocks tile the buffer, is the list exactly the free blocks, is the sentinel on the owned ones and elsewhere only where the program's bytes read as it, is OOM honest, does every call return, does it implement `HeapContract`? And does a program that frees in reverse end with one free block? | 25 bytes, requests 0, 2 and 30: up to four blocks, so a free has neighbours on both sides, none or one; whole grants with 1 to 6 spare bytes; a request nothing satisfies; frees of stale and foreign addresses and wrong lengths; data that reads as the sentinel at two addresses, which in other orders of the calls are starts of blocks, edges of headers, or free |
| `astpool` | Do nodes and chunks have slots of their own with the tables agreeing, and is a program accepted only when whole, refused only when the pool is out? | three chunks of three nodes: crossing both chunk boundaries, exhaustion inside each construct, two compilations |
| `emit` | Type, verdict, and `EmitContract` | a buffer of three cells, texts to five characters: no flush, one, two, one on the last character; compilations without end |
| `lex` | Are conditions and defines exact, is the output the expansion, with its line numbers? | every source of five lines over nine directives: three deep where two fit, two defines where three occur; and every source of three lines with a file of two that include each other, themselves, or nothing, two levels, an iteration limit that is reached |
| `storage` | Are slots disjoint, do stores stay in their variable and their element, do names resolve in their scope, do statics have data? | two globals, two procedures, two parameters, two locals, three names; one symbol more than a scope holds; every width but two bytes |
| `codegen` | Does the code do what the program means; is the stack level at every statement; does it halt? | 2666 programs: each statement form in each other, each operator but `/` and the shifts at the ends of four-bit words, `/` of all pairs of words that are not negative, recursion with parameters and a local; `Fuel` ends the meaning of long loops |
| `parser` | Is every program read as its own tree; is nothing accepted left out; does parsing end? | 2029 programs: every operator in every other, every statement in every other, every form of declaration and head; 4024 texts, most of them wrong: every sequence of up to three tokens or phrases (two in some places) wherever an expression, a statement, a declaration, a record's field or a procedure's head may stand |
| `input` | Does a framed or legacy transmission arrive as sent; do registered files stay what they are; does the screen show the line the editor holds? | two files (one too large or nameless among them) and a source up to and past its buffer; every string of four markers and bytes as noise after each kind of start, every one of four keys at the prompt |
| `link` | Is what is written the program; are only unsound programs refused; does the table hold every export and no patch touch another byte? | two modules of up to three and two lines and three small ones, over two shared names and a local one; address bytes of four values, so that addresses carry into all three; any module the entry, though the scripts name the first: bytes are claimed where the entry is first or no module holds an address of its own; hand-written metadata with overlapping, shared and outlying fixups |
| `macro` | Is the parser's view that of the written-out program; is only what should be refused refused; does compilation end? | 2944 programs: every small macro in every kind of place, clauses given, left out, unknown; macros in macros; recursion; each limit and one more |

Most properties are stated over things that no single handler computes (tiling,
expansion, meaning, refinement), which is where the hazards of `PROJECT.json`
point. The type invariants of `Heap`, `AstPool`, `Emit`, `Storage`, `Input` and
`Link24` are properties of their runs; that of `LexSource` is proved; those of
`CodeRun`, `Macro` and `Parser`, and some smaller invariants, are conjuncts of
the property they support (`StackLevel`, `RefusedOnlyIfUnsound`,
`NothingSkipped`). Two runs expect a violation, each of something a document
says:

| run | shows |
|---|---|
| `storage_int16` | a store to an `INT(16)` takes three bytes of its two |
| `macro_nested` | an inner expansion overwrites the text the outer one is read from |

### Further disagreements

Met while modelling. Each of these configurations is violated as well, by
`tlc -config X.cfg M`:

| configuration of module | shows |
|---|---|
| `MCHeapFinding.cfg`, `MCHeap` | a block granted whole is not freed with the length that was requested (`docs/storage-allocation.md:93`) |
| `MCAstPoolFinding.cfg`, `MCAstPool` | a program that exhausts the pool loses its end and `compile_program` reports success (`compile.h:119`) |
| `MCEmitFinding.cfg`, `MCEmit` | `compile_program` returns an empty string where `compile.h:199` promises short emissions |
| `MCLexDeep.cfg`, `MCLex` | an `%IF` deeper than the stack is ignored, and its false branch emitted |
| `MCStoragePtr.cfg`, `MCStorage` | a pointer takes the last record, BASED or not (`docs/usage.md:118`) |
| `MCLinkRange.cfg`, `MCLink` | a fixup that runs over the end of its module patches the next one (`docs/linker-design.md`, Error Handling) |

These need only another value for a constant of the run's own configuration, and
violate the property named:

| run and values | property | shows |
|---|---|---|
| `heap`, `Forges <- AnyAddress` | `SentinelExact`, `HeapTiled`, `TypeOK` | the program's own bytes pass the double-free check (`_plsw_storage.msw:173`): a free of such an address puts owned memory on the free list, and overwrites it |
| `storage`, `Decls <- HalfArrays` | `AssignmentsStayPut` | elements of an `INT(16)` array overlap (`codegen.h:697`) |
| `storage`, `Bare <- NakedBare`, `Decls <- StaticDecls` | `StaticsHaveData` | a STATIC of a NAKED procedure has no data (`codegen.h:1713`) |
| `storage`, `Joined <- Ambiguous`, `Decls <- StaticDecls` | `StaticsHaveData` | two statics of different procedures have one label, and it two data (`layout.h:205`) |
| `storage`, `Joined <- Taken`, `Decls <- StaticDecls` | `StaticsHaveData`, `AssignmentsStayPut` | a static's label is the name of a global: one place under two names (`layout.h:205`) |
| `lex`, `Texts <- IncludeTexts` | invariant `IncludedLinesAreZero` | only the first line of an included file is line 0 (`lexer.h:72`) |
| `codegen`, `Programs <- Conjunctions` or `Negations` | `MeansSource` | `AND` and `NOT` are those of bits (`parser.h:300`, `parser.h:351`) |
| `codegen`, `WordVars <- Wide`, `Programs <- Unsigneds` | `MeansSource` | comparisons of `WORD`s are those of signed words |
| `codegen`, `WordVars <- Wide`, `Programs <- UnsignedQuotients` | `MeansSource` | and so is the one `__plsw_div` stops at (`codegen.h:388`): 0 for a `WORD` with the top bit set |
| `codegen`, `Programs <- NegativeDividends` or `NegativeDivisors` | `MeansSource` | `__plsw_div` gives 0 for every negative dividend and positive divisor, and for negative divisors what is left when the word wraps, or no end: the quotients of `INT`s (`docs/usage.md:190`, `:79`) only where neither is negative |
| `macro`, `Programs <- SelectPrograms` | `RefusedOnlyIfUnsound` | the END of a SELECT ends a definition (`macro.h:537`) |
| `macro`, `Programs <- LinePrograms`, `LongPrograms` or `StringPrograms` | `Expands` | only the first GEN line is conditional (`docs/usage.md:279`); long bodies lose their end, strings their quotes (`macro.h:553`) |
| `link`, `Programs <- TrailingPrograms`, `Handmade <- NoHandmade` | `RefusedOnlyIfUnsound` | a label after the last byte of its module is not exported, and a program that refers to it is refused (`meta_gen.rs:328`) |
| `link`, `Programs <- ZeroPrograms`, `Handmade <- NoHandmade` | `LinkedMeans` | the source's own `la rN,0` takes the place of a reference (`meta_gen.rs:343`) |
| `link`, `Handmade <- NoHandmade` | `MeansInAnyOrder` | with `--entry` a later module, `link24` moves it and the local addresses of the script's bases are wrong (`main.rs:338`, `demo-fixup.sh:82`) |
| `input`, `Transmissions <- CrowdTransmissions` or `LongNameTransmissions`, `Noise <- NoNoise` | `TransmissionRead` | a file beyond the table is dropped, a long name cut, with no error (`lexer.h:37`) |
| `input`, `Transmissions <- LegacyTransmissions`, `Noise <- NoNoise` | `TransmissionRead` | in legacy mode an end of transmission in the first line only ends the line, and the compiler waits for another (`main.c:48`) |
| `parser`, `Trees <- NoTrees`, `Texts <- UnknownSign` | `NothingSkipped` | an unknown character ends the program, and the rest is dropped (`lexer.h:743`) |
| `parser`, `Trees <- NoTrees`, `Texts <- Respelled` | `NothingSkipped` | each of these is accepted and not in the tree as written: the name after END (`parser.h:1092`), a procedure's own name behind a label (`parser.h:926`), `DECLARE`, `AUTOMATIC`, `INT(24)`, `INT(12)` (`parser.h:74`) |
| `parser`, `Trees <- LoopAsBranch` or `NegatedField`, `Texts <- NoTexts` | `TreeOfText` | a loop is no branch of an IF without a group around it (`parser.h:610`); `NOT P->F` is `(NOT P)->F` (`parser.h:337`) |

Where a passing run leaves such a case out it is because the values beside it
show the code does not do what is promised there. Two more are left out of
`codegen` as programs that never end, with no promise to compare them with: a
division by zero (`codegen.h:393`) and `DO I = a TO b` to the largest value of
I (`codegen.h:1538`). What the models abstract is under "Abstractions" and
"Not modelled" below.

Noticed while reading, and not stated as a property: `docs/usage.md:445` gives a
depth limit for `ELSE IF` chains the parser, which reads them in a loop, does
not have; a nameless `PROC;` is accepted; a record's lower level numbers
do not start a group; `codegen.h:359` says `__plsw_div` leaves the remainder in
r1, which its epilogue restores; and `cg_emit_static_data` (`codegen.h:1291`) and
`compile_program` (`compile.h:191`) both emit the string table.

Deadlock is checked except in `astpool`, `input` and `parser`, where a session, a
transmission or a text of bounded length is over; the programs that have halted
in the other models repeat their state by an explicit action.

### Fairness

`LifoSpec` (over `Heap.FairSpec`) is weak fairness of the two procedures: a call
that was made is executed, and nothing says the program makes another. `CodeRun.FairSpec` is weak
fairness of `Step` (the processor goes on) and `Macro.FairSpec` of `Parse` (the
compiler runs to its end). The machine has one thread and no interrupts, so each
is what running means. `Parser.Spec` and `Input.Spec` have weak fairness of `Next`:
a parser that has work goes on, and the bytes of a transmission keep arriving
until there are none. The other specifications make no liveness claims.

## Proofs

All by `tlapm`, for every value of the constants under the assumptions named in
each module (`HeapAssumption`: the buffer ends below the sentinel and holds a
header, and requests are naturals, nothing of the data; `PoolAssumption`: at least one chunk, node and
line; `EmitAssumption`; `LexAssumption`; `StorageAssumption`: the types of
the parameters, and that a label `PROC__VAR` differs from another when just one
of its two names does; `InputAssumption` and `TextAssumption`: the sizes of the buffers
and what is sent is bytes; `LinkAssumption`: the base of a byte; and
`ProgramsAssumption`: the programs are ones the assembler takes).

- `HeapProofs`. `HeapTiled` is not inductive: a split or a merge keeps the tiling
  only if the walk stands where the list says. `IInv` adds to the checked
  invariants `WalkInPlace`: PREV and CURR are neighbours in the list, every block
  passed is too small (in `GETMAIN`) or lower than the block (in `FREEMAIN`). One
  lemma per action. `HeapTypeOK`, `HeapSafe`, `HeapFreeList`, `HeapSentinel`,
  `HeapOomIsHonest` and the refinement `HeapImplementsContract` follow; each grant
  maps to `Allocate`, each link to `Release`, every other step stutters. For a
  program that frees in reverse, `LifoIsHeap` and `LifoKeepsWhole`: the free list
  is always one block above all that are owned, so a free merges with it.
  The program may write the sentinel anywhere in its blocks (`Marks`); the theorems
  other than `LifoIsHeap` assume `~Forges`: it has no header made of such bytes
  freed. `HeapSentinel` says what this leaves to the double-free check: that no
  procedure leaves a sentinel where no owned block starts, whatever was split,
  merged or reused, and that every start of a block is judged rightly.
- `AstPoolProofs`. `Sound`: the chunk tables agree (`Tables`), the flag of
  exhaustion is honest, and every link is among the nodes, siblings upwards.
  That a walk along siblings ends at the last one needs a least-counterexample
  argument, and that the node appended is higher than it needs `Nested`: the open
  blocks were allocated in order, each with its children before the next.
  `AstTypeOK`, `AstNodes`, `AstExhaustion`. `AstNothingLost` needs a ghost: each
  node gets a mark, with the lines its subtree stands for, the block it is a child
  of and its rank in the order of the visit. `Lists` shows that when the marks fit
  the links (`AllGood`: a node's lines are its own, then those of its left, right
  and ELSE links; siblings follow one another to the end of their block; a link
  leads to a higher rank), what code generation visits below a node is the lines
  of its mark, each once, in order. `TextInv` is that marks that fit exist for the
  lines read so far as long as the pool is not exhausted, with the open blocks
  end to end (`Stacked`) and a rank to spare below each procedure's body for the
  PROC node that is allocated after it. One lemma per step of building keeps it:
  a node is allocated (`AddNode`), hangs under a loose one (`SetChild`), joins a
  block (`Hang`), a block opens or closes (`Opens`, `Closes`).
- `EmitProofs`. `IInv` says what is pending in the buffer is the text emitted and
  not yet on the wire, and, during a flush, that its index is inside. Emitting
  appends to wire-plus-pending and flushing leaves it alone: two lemmas on
  sequences. `EmitTypeOK`, `EmitVerdicts`, `EmitImplementsContract`.
- `LexProofs`. `LexTypeOK`; `LexCondExact` by an invariant relating each entry of
  the condition stack to the ghost stack of branches; `LexDefsExact` by one that
  the table has each name once, up to case. `LexOutputIsExpansion`, for files that
  include each other in any way: first that the recursive definition `Expand` has
  a value (`ExpandExists`: its calls go deeper into includes or nearer the end of a
  file, so a set of readings without a value would have a least one), then by
  `Returns`, which says that what remains to be read here, followed by what
  remains in each file on the include stack, makes the expansion of the main
  source.
- `StorageProofs`. `StorageTypeOK`; `StorageSlotsDisjoint` by `FrameInv`: every
  slot lies between the frame's running size and its parameters, and each new one
  below all earlier ones, whatever was refused in between. `StorageNamesResolve`
  by `NameInv`: a scope has the names declared in it and no others.
  `StorageStaticsHaveData`, for procedures with names of their own, by `LabelInv`
  (each declaration is the only one of its name in its scope, and its symbol has
  the label of that scope) and `DataInv`: the data emitted so far is that of
  procedures already left, each label once, and a static named in an expression
  has data by then or is a global's or the current procedure's. It excludes NAKED
  procedures, for which `NakedBare` above is the counterexample. Labels are joined,
  not paired: `B__C` in `A` and `C` in `A__B` are one label, and it may be the
  name of a global. The hypotheses `LabelsTell` and `NoNameIsLabel` keep such
  names out, which no check of the compiler does; `Ambiguous` and `Taken` above are
  the counterexamples without them, and TLC checks both hypotheses of the run's
  names (`OrdinaryNames`).
  `StorageStoresStayPut` by `PlaceInv`: a symbol has the width of its type or the
  descriptor it names, and its label is its own. It assumes what the run's
  declarations satisfy, and TLC checks of them (`OrdinaryDecls`): `Ordinary`, which
  excludes the two-byte variables that `storage_int16` shows are overrun; and
  `NoNameIsLabel`.
- `InputProofs`. `FilesPlaced`: every registered name and content is a string that
  ends below the top of the include buffer, and what is being read grows at the
  top. `InputTypeOK` (no buffer is written past its end), `InputFilesStay`, and
  `InputScreen` by an invariant on the columns of the terminal.
- `LinkProofs`, about `LinkSpec`: `link24` alone over any set of sequences of
  modules, which is how `Link` drives it. `IInv` says that the modules placed
  follow each other below `addr`, that the exports passed are in the table at
  their final address, and that the output has `addr` bytes. `LinkTypes` and
  `LinkSymbols` follow. `LinkOwnBytes` adds that the modules copied are in the
  output but for the bytes their own fixups name, and needs that every fixup is
  an instruction of its own module: `link24` checks no more than that it is
  inside the output, and `MCLinkRange.cfg` is the counterexample without it.
  `LinkResolves` is what a whole link promises, for fixups that also share no byte
  (`FixupsApart`): one that ends well has put the address of the one export of its
  name under every fixup, one that is refused was given a name twice or never. Its
  `LinkInv` adds that the modules lie end to end from 0, that no name of the table was
  exported twice, and that the fixups passed hold their address.
- `LinkMeansProofs`, about `Link`'s `Spec`, programs of any number of modules of
  any length: `LinkedProgram` (what is written is, byte for byte, the program) and
  `LinkRefusals` (a refusal means a shared name has two owners or none). First the
  recursive functions of `MetaGen` and `LinkMeaning` (offsets, the listing's order,
  binaries end to end) are shown to follow their steps, and from that what the
  stub, listing, exports, fixups and binary of one source are. `ScriptInv` says that
  each phase of the script has made the first so many of these and that `link24`
  starts from all of them, with `LinkInv`; then each byte of the output is the byte
  of the image. The hypothesis `AllRegular` excludes a source whose own `la rN,0`
  follows a reference and one whose label follows its last byte: `ZeroPrograms`
  and `TrailingPrograms` above are the counterexamples without it, and TLC checks
  that the run's programs satisfy it. `EntryPlaces = {1}` says that the entry module
  comes first in the script's order, as it does in both scripts.

Recursive functions are proved about by the least counterexample of a set of
naturals (`NatLeast`, from the library's well-founded minima): the induction
theorems that take a predicate as a parameter can not be instantiated here.

Only model-checked: every liveness property; `CodeRun`, `Macro` and `Parser`,
whose definitions recur over programs with `RECURSIVE` operators and folds, so
that what they promise of every program is an induction over data.

## Abstractions

- Characters of names and texts: identifiers are values, tokens have one width;
  limits that count characters of one token (`MAC_ARG_VAL_MAX`, `TOK_TEXT_MAX`,
  name lengths) are left out, limits on texts count tokens.
- `Input`: the words `FILE:` and `SOURCE:` are one byte each, since only their
  place at the start of a line matters; NUL does not occur in what is sent.
- `Parser`: the C call stack is a sequence of work that is left; a tree is a
  record, its text a sequence of tokens.
- `Link`: an `la` and data are the only bytes, a listing is a sequence of lines
  with offset and bytes, files are the records they hold.
- Words are four bits in `codegen`, addresses and sizes are naturals elsewhere.
  The heap's header arithmetic stays far from 2^24 by `HeapAssumption`.
- `Heap` keeps the two words a header would have at an address, not bytes. A write
  of data or of a header changes the next words it overlaps in part to anything
  (`Overlay`), the sentinel where `Marks` allows it; the size word of an address
  where no header is stays what the last header there left, which only `RC` 2 of a
  forged header would tell apart.
- History variables (`uart`, `heard`, `out`, `trace`, `nest`, ...) record what was
  produced and are read by no action's guard but where a comment says so.
- Every bound is a constant named with `Max`, or `Fuel`.

## Not modelled

- The spelling of tokens (`lexer.h`'s number, string and operator scanners,
  `token.h`), except where an unknown character ends the program.
- The rules of `types.h` that only `test_main.c` calls: assignments, operators
  and arguments are not checked by `compile_program`.
- `Input`: bytes lost because the receiver has no flow control; CR LF at the
  prompt, whose LF is then the first header line; `io.h`'s number output.
- Code generation of fields, pointers, `ADDR`, `SIZEOF` (`Storage` has the
  addresses and widths), ASM text, and shifts, whose instruction no source in
  the repository fixes.
- `Link`: the map file, syntax errors of `.meta` files, exit codes of the tools.
- Compilations in a row beyond `AstPool` and `Emit`; the listing; utilities
  (`str.h`, `arena.h`, token printing) that keep nothing a property could be
  about.

Tests, scripts, examples and vendored tools are read as evidence only.

## Plan

Done, in order of importance: heap, its contract and proofs; `AstPool`; `Emit`,
its contract and proofs; `LexSource` and its proofs; `Storage` and its proofs;
`PlswMeaning`, `CodeGen`, `CodeRun`; `MacroMeaning`, `Macro`; `Link` and the
proofs of `link24` and of the whole script; `Input` and its proofs; `Parser`.

Left:

1. `Session`: compilations in a row over every subsystem's init (what keeps its
   value: defines, `cg_div_emitted`, include files), composing Emit and AstPool.
2. `LexSource` and `Macro` composed: conditions and defines around the text of a
   macro.
