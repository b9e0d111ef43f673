# Compact Pascal in TLA+

Compact Pascal is a Pascal compiler for WebAssembly. `compiler/cpas.pas` reads a
source file once, front to back, and writes a module (or, for a unit, an
object); it keeps no syntax tree, so everything it knows of what it has not yet
finished is in a few dozen global variables. The module runs in a host: the
Rust crate under `src/rust`, a browser page, or any WASI runtime.

Three things are hard about such a compiler, and they are what these
specifications are about.

- **The code it generates shares state at run time**: one stack pointer, one
  heap boundary, eight display globals, a few static buffers. Each emitting
  procedure is simple; that all of them together keep the stack balanced, the
  frames reachable, the blocks apart and the buffers unshared is not stated
  anywhere in one place.
- **Its compile-time variables describe a run that has not happened**: how far
  `$sp` is from the frame base *here*, how many blocks a `break` has to leave,
  which index a routine *will* have, which pieces of a string are pending. A
  wrong one yields a module that validates and computes something else.
- **Compiler and program live inside a host** that keeps an instance after a
  call broke off in the middle, reads the compiler's outcome back from text, and
  has a second implementation of includes beside the compiler's own.

Each module models the generated code when it runs, the compiler's variables
while it compiles, or both in step; the last group models the host. Data is
abstracted: a string is the sequence of what it was put together from, a routine
is a name, a source file a sequence of words, code the sequence of the numbers
in it that name something.

## Inventory

| part | state it keeps | operations | what is hard | module |
|---|---|---|---|---|
| Heap and stack layout (`AssembleMemorySection`, `__heap_alloc`, `__heap_free`, stack guard) | `$sp`, `$__heap_end`, the free list in block headers | `new`, `dispose`, call, return, trap | two structures, one boundary; long sequences; 32-bit sums | `Heap` |
| Frames, display, nested routines (`ParseProcDecl`, `ParseBlock`, `EmitFramePtr`) | `display[0..7]`, saved display in a local, frames | prologue, epilogue, `exit`, upvalue access | recursion through several levels, leaving in the middle of a statement | `Display` |
| String expressions (`ParseExpression`, statement arena) | `concatPieces`, `concatScratchBase`, `stmtUsedResultBuf`, `stmtArenaBytes`; scratch slots, result buffers | operand, `+`, call, argument, end of statement, branch | calls inside concatenations inside calls; nested statements | `StringExpr` |
| Units, objects, linker (`WriteObject`, `LinkObject`, `ApplyLinkRelocations`) | function table, relocations, externs, object files, command line | compile, recompile, place, patch | order of objects, circular use, objects out of date | `Linker` |
| Text files (`__text_*`, file statements) | a control block per variable, `addrNread`, `addrIOResult`, `addrPreopenFd` | assign, reset, rewrite, close, write, read, readln, eof, IOResult | short reads, refused opens, buffers of several variables, `{$I-}` | `TextFile` |
| WASI bridge (`src/rust/wasi.rs`) | descriptors, offsets, the granted directory, arguments | `path_open`, `fd_read`, `fd_write`, `fd_close`, `args_get`, `proc_exit` | failures, descriptors left open, areas of fixed size | `WasiHost`, `ArgVector`, `Embedding` |
| Statement control flow (`ParseStatement`) | `breakDepth`, `continueDepth`, `exitDepth`, `forLimitDepth`, `curCaseTempIdx` | loops, case, branches, calls through variables | relative depths through every construct; one local for several temps | `ControlFlow` |
| Scanner, includes, conditional compilation (`ReadCh`, `SkipBraceComment`, `include.rs`) | include stack, pushback, `ifdefDepth`; the host's recursion | read, skip, open, pop, expand | two implementations of one feature; the end of a file in the middle of something | `SourceText`, `IncludeExpand`, joined in `IncludeRoutes` |
| Symbol table (`EnterScope`, `LookupSym`) | `syms`, `scopeBase`, pending pointers | enter, add, look up, leave | shadowing, forward types | planned; in part in `Display`, `Linker` |
| Types, records, constants | `types`, `fields` | layout and checks | none beyond arithmetic | no |
| Expression parser | `exprType` and others | precedence climbing | recursion, no interaction | strings in `StringExpr`, `not`, `or else` and indirect calls in `ControlFlow` |
| Peephole optimiser (`EmitOp`, `TryPeephole`) | code buffer, `lastOpStart` | append, rewrite, invalidate | a window that crosses the end of a block | `Peephole`, run by `ControlFlow` |
| LEB128 and section writers | code buffers | encode, pad, patch | sign and width | planned |
| String, set, number helpers | none | loops over one string | lengths at their limit | planned |
| Console I/O | read buffer, `addrNread` | read, write, eof | the word shared with text files | the word, in `TextFile` |
| Interfaces and methods | dispatch tables | conformance, `call_indirect` | static | no |
| Diagnostics, command line (`ParseCmdLine`, `Error`, `diagnostic.rs`) | argument slots, `Defines`, lines on stderr | parse, report, read back | fixed slots; text that looks like a position | `ArgVector`, `CompileHost` |
| Embedding API (`compiler.rs`, `instance.rs`, `include.rs`) | options and result; a store per instance: memory, `$sp`, display, fuel, limits | compile, build, call, read and write strings | an instance used again after a trap; how an outcome is put together | `CompileHost`, `Embedding`, `IncludeExpand` |
| Browser hosts, examples, tests, docs | | | not part of the library | no |

How the parts meet: the host gives the compiler its arguments and its source,
perhaps with the includes expanded; the scanner feeds the parser; the parser
writes code into buffers through the emitting helpers, and data addresses,
function indices and table slots into relocations; the linker merges objects
into the same buffers; the section writers put out the module; the host reads
what became of it from the exit status and the lines on stderr. At run time the
module's routines share `$sp`, `$__heap_end` and the display (`Heap`, `Display`,
`StringExpr` look at three faces of the one stack), the file helpers call the
host, and the host calls exported routines.

## Modules

`MemorySpec` -- what a program may rely on of memory: storage that is nobody
else's, below the stack, or a stop. `Heap` implements it.

`Heap` -- globals 0 and 10, the word at `addrHeapFree`, the block headers, and
the locals of `__heap_alloc`. `new` is one step per turn of the free-list walk
(`TakeFree`, `WalkOn`, `Carve`, `OutOfHeap`); `Dispose`, `Copy`, `Call`,
`Overflow` and `Return` are one step each. Arithmetic is modulo `Word`.
`HeapSafe` adds the assumption that no sum wraps and the inductive invariant.

`LexicalScope` -- what scope means without a display: every activation has the
environment of the activation it is nested in. `Display` implements it.

`Display` -- `$sp`, the display globals and the stack of activations, with the
saved display (WASM local `displayLocalIdx`) and the arena flag of each. `Enter`
is the whole prologue, `Return` the balance check and the epilogue, `Exit` the
branch with its release, `TakeBuffer` and `Release` what statements do to `$sp`.

`StringExpr` -- one routine's statements, read token by token: every action does
to the compile-time variables what the parser does and to memory what the
emitted code will do. Loops in the code that is emitted (append the pieces, copy
them back) are folds.

`Linker` -- any number of runs of the compiler: `Start`, the headings, bodies,
calls and addresses of a file, `WriteObject` for a unit, and for a program
`BeginLink`, `LinkObject` (one object placed), `LinkNeeded` (one turn of the
loop that pulls in units of units), `Patch`. A site in code holds the number
emitted and, as history, what the source meant.

`WasiHost` -- operators on the host's state. `TextFile` -- the control blocks
and every file statement over them; `readln` is a step per byte, because a
short read may come anywhere in a line; the rest is one step each, because the
host is called synchronously and nothing runs in between. `TextSpec` is files
without buffers; `TextSafe` states the properties and the refinement.

`Peephole` -- a code buffer, what `EmitOp` and its kin append to it, and when the
last two instructions may be rewritten. `ControlFlow` -- one action for each way
a statement begins, continues or ends, with the instructions it emits and what
it does to the depths. When the body is complete its flat code runs (`Moves` up
to the next thing the program is seen to do, `Answers` for what a condition
gives) and `want` says where the source, read by its nesting, stands. The same
actions compile and run, so a wrong depth is seen as a wrong place.

`SourceFiles` -- files as words with a line each, and what both readers of a
file agree on. `SourceText` -- the compiler's: `ReadCh` over what is left to read,
in which a mark stands where an included file ends, so that the marks are the
include stack; one action for each arm of the skipper and of the directive.
`IncludeExpand` -- the host's `expand_includes`, a frame per recursive call, an
action per arm of its match. `IncludeRoutes` runs one after the other on the same
files, and states what the program text is by nesting alone.

`ArgVector` -- `args_get` into the guest's memory and the guest's copy into slots,
cell by cell. `CompileHost` -- `Options` to arguments, the command line as the
snapshot parses it, its reports as lines, how its run ends, and the result the
host makes of these. `Embedding` -- the host's calls on an instance and the guest's
prologues, stores, epilogues and stops inside them, over one store that outlives
the calls.

`MCDisplay`, `MCLinker`, `MCText`, `MCControl`, `MCInclude`, `MCCompile` and
`MCEmbedding` give the instances that a .cfg cannot write; `Heap` and `StringExpr`
need none.

`StringSafe`, `ControlSafe`, `LinkerSafe`, `IncludeSafe` and `CompileSafe` state the
inductive invariants of `StringExpr`, `ControlFlow`, `Linker`, `IncludeRoutes` and
`CompileHost`.

`HeapProofs`, `DisplayProofs`, `StatementProofs` (about `StringExpr` and `ControlFlow`,
which share no state), `LinkerProofs`, `TextProofs`, `IncludeProofs` and `HostProofs`
(about `Embedding` and `CompileHost`, which share none either) hold the theorems and extend the modules they are about; `Counting` holds induction on numbers, in a form the prover can use. An operator whose comment begins "Mutant of" is a plausible wrong
version of the definition after it; no specification uses it.

## Runs

| run | what it asks | bounds, and why they are enough |
|---|---|---|
| `heap` | does every order of `new`, `dispose`, calls and returns keep the heap below the stack, the free list exact and blocks in use apart (`FreeListExact`), the heap tiled, memory reused by first fit (`ReusesMemory`), the reserve for the stack, and storage as in `MemorySpec`; does a walk end | 60 bytes, block sizes 16 and 24, one frame size, three pointers: the heap takes three blocks, so unlinking at head, middle and end occur, and memory runs out from both sides |
| `display` | is every level's global the frame that scope means, in any order of calls; are frames apart and routines balanced (`FramesKept`); does a call restore the caller | five routines in four levels, six activations: recursion of an inner routine through an outer one and a sibling without a frame |
| `string` | does every statement get the strings it means, and leave nothing behind (`BaseKept`) | two variables, four `+`, calls or arguments a statement, two pieces a level, three levels: a call in a concatenation in an argument of a call in a concatenation, alone and in the body of a test that holds a buffer |
| `link` | does every number in a linked module - call, address, table slot - name what the source named (`NumbersLand`); are exactly the needed objects placed and link errors deserved (`ObjectsJust`); does linking end | two units, one compiled twice, so that they may use each other, a program; four headings, sites or imports between them; six entries of `funcs` (384 in the program), which objects exceed |
| `text` | do buffered files behave like files without buffers, `eof` included; are descriptors never shared; does `readln` end | two variables, two names, a buffer of two bytes (256 in the program), so that every string of three crosses it; three bytes a file, two opens |
| `control` | does the code of every body go where its source goes, whatever conditions answer (`InStep`); do the depths that branches are compiled to count the blocks of the code emitted (`DepthsTrue`); is a turn of a loop left with nothing on the stack (`LoopsRelease`); does every step of the code stand for one of the source (`KeepsPace`) | six tokens, which is a case or a loop in a loop with a branch out of it and something after; two `for` limits, so that the third loop has none of its own; the peephole pass on |
| `include` | do the host's expansion and the compiler's `-I` give the parser the same words (`RoutesAgree`), those the conditionals select (`ActiveText`), at their lines (`PositionsTrue`); do both readers end | some 14000 trees of three files of up to forty words: conditionals in conditionals, directives in strings and comments, includes that nest, cycle, are empty or missing or lead out; limits of four, two and two for 16, 8 and 16, which the trees reach |
| `compile` | is what the host asked for what the compiler works under (`OptionsArrive`), and what it reported what the host reads (`ReportsTrue`) | sixty thousand option sets in eight slots (16 in the program) and a string area of 34 cells, which the longest overflow; two reports, with colons, numbers and no position |
| `embed` | what a call that trapped, halted or ran out of fuel leaves to the next: is an outcome what happened, fuel what was set, the stack balanced and the program's variables its own until then (`StackKept`); do strings survive the round trip; does every call under fuel come back | three calls or writes, three activations, memory of ten bytes with strings at its end and one past it; limits none, memory too small, fuel none and little |
| `display_param`, `control_calls`, `embed_globals` | see *Divergences* | the same instances with the construct in question allowed |

Bounds that the guards contain: `MaxCalls` (Display, Embedding), `MaxDepth`
(Embedding), `MaxSteps` (StringExpr), `MaxWork` and `MaxNest` (Linker; `MaxFuncs` is a limit of the program), `MaxBytes`
and `MaxOpens` (TextFile), `MaxTokens` (ControlFlow), `MaxReports` (CompileHost),
and the memory itself in Heap. Deadlock is not checked where the system stops:
after a link or a compilation, at the end of a source, after a program trapped
or used up its opens, and when the host makes no more calls. The code of
`control` runs for ever or starts again.

No symmetry is used: heaps and files are checked for liveness, and the other
instances name their elements.

**Fairness.** The compiler, a compiled program and the host's calls are
sequential. Fairness is only asked of loops that run by themselves: the walk of
`__heap_alloc` (`FairSpec` of `Heap`), the linker's loop (`WF_vars(Link)`), the loop
of `__text_read_line`, the two readers of a source (`FairSpec` of
`IncludeRoutes`), and a guest that has been called (`FairSpec` of `Embedding`:
wasmi executes it until it returns, stops or its fuel is gone). The
program is not asked to do anything of its own: it may stop between any two
statements, and no liveness property depends on what it does next.

## Programs left out of the passing runs

Some programs that the compiler accepts do not get what they mean. They are
named in constants which the passing runs set to leave them out: the properties
hold of all other programs. To see one, change the .cfg as the table says and
ask for the property in the last column (an action property in the rows of
`MCText.cfg`, an invariant in the others).

| program | change | property |
|---|---|---|
| a routine at the eighth level sets global 9, the immutable `__version`; "Maximum nesting depth is 8" (`doc/compact-pascal-ref.md:1072`) | `MCDisplay.cfg`: `MaxNestLevel = 3`, `MaxDisplayDepth = 3` | `AcceptedRuns` |
| `P(a + b, c)` addresses `c` from the moved `$sp` (`cpas.pas:6290`) | `StringExpr.cfg`: `Constructs = {"argAfterConcat"}` | `FrameReached` |
| a call under `and then`, `or else` is counted in `stmtArenaBytes` though it may not run (`6480`) | `{"skippedCall"}` | `ValuesRight` |
| `a + b = c` compares the last piece (`6828`); two `copy()` share one temp (`5481`); a call through a procedural variable does not save pending pieces (`6112`) | `{"comparedConcat"}`, `{"copies"}`, `{"indirectCall"}` | `ValuesRight` |
| host functions of the program's own: objects keep the indices made with their own number of imports; they "come after" and shift nothing (`doc/compact-pascal-ref.md:612`) | `MCLinker.cfg`: `Constructs = {"ownImports"}` | `CallsLand` |
| an import added after headings had their index (`2537`, `10012`); `@R` of an imported routine (`15747`); a heading without a body (`15120`) | `{"lateImports"}`, `{"addressElsewhere"}`, `{"undefinedForward"}` | `NumbersLand` |
| an object compiled against another heading than the one it is linked with; "does not silently miscompile" (`doc/compact-pascal-ref.md:575`) | `MCLinker.cfg`: `Sigs = {s1, s2}`, `Hosts = {}`, `HelperSlots = 1`, `DataSizes = {}` | `HeadingsAgree` |
| a disk that fails to write: the answer of `fd_write` is dropped; `{$I+}` "traps at the point an operation fails" (`679`) | `MCText.cfg`: `Failures = {"write"}` | `FailuresReported` |
| `eof` of the console after a file was read: refills write the word it tests; it "reads from standard input" (`901`) | `MCText.cfg` | `ConsoleEofKept` |
| one file open through two variables of which one writes | `MCText.cfg`: `Shared = TRUE` | `KeepsTextSpec` |
| an apostrophe in a `{ }` comment, which the host takes for the beginning of a string | `MCInclude.cfg`: `Tricky = "quote"` | `NoFalseQuote` |
| a second `{$ELSE}` after a branch not taken, which is compiled (`1503`) | `MCInclude.cfg`: `Tricky = "else"` | `ElseUnreached` |
| a `//` comment in a branch not taken that holds a directive, which ends the block (`1197`); line comments "extend to the end of the line" (`doc/compact-pascal-ref.md:2163`) | `MCInclude.cfg`: `Tricky = "line"` | `CommentsSkipped` |
| more than sixteen arguments: those behind the slots overwrite, or are read from, what lies there | `MCCompile.cfg`: `MaxObjArgs = 8`, `Many = TRUE` | `ManyArrive` |
| `continue` in a `repeat`: it goes to the first statement and skips `until` (`9401`), which the tutorial calls "identical for `while` and `repeat`" (`doc/compact-pascal-tutorial.md:1345`) | `MCControl.cfg`: `RepeatContinues = TRUE` | `InStep` |

Not even as a construct: `length(a + b)`, the length of the last piece (`5460`);
a run-time set built in an argument of a call through a procedural variable
(`6684`), which shares its local as in `control_calls`.

## Divergences

Runs that are expected to find a violation, each of a sentence in the
documentation.

- `display_param`: a scalar value parameter of an enclosing routine is read as
  the running routine's own local (`cpas.pas:5887`).
- `control_calls`: in `f(g(x))` with `f` and `g` procedural variables, the table index of
  `f` waits in the local in which that of `g` is put next: `g` is called twice (`6135`).
- `embed_globals`: the program's variables are in the frame of its main block. A
  host that calls an exported routine after `run()` gets a frame on top of them
  (`11215`).

Met while modelling, without a run:

- *Memory*. Payloads are 8-aligned only when the data ends at a multiple of 8
  (`12284`, `11486`). `{$MEMORY}` of nearly 65536 pages makes the guards' sums
  wrap and of 65536 makes `$sp` 0 (`11453`). The modules never emit `memory.grow`.
- *Text files*. `readln` drops every carriage return and not only the one before
  the newline (`12209`, `12243`). Closing a variable that was never opened closes
  descriptor 0 (`8269`). A build of the compiler with `PEEPHOLE` rewrites the
  helper's own `len; eqz; eqz` (`11984`), so that `and` sees the length and not
  whether there is one: a buffer of even length is not written.
- *Control flow*. `for` to the largest integer does not end (`9318`).
- *Includes*. The host expands directives in `{ }` comments and inactive blocks, which
  the compiler skips; does not expand `{$Include 'f'}`, `{$I` followed by a tab, or
  `{$INCLUDE'f'}`, which the compiler does; and takes unquoted names, which the
  compiler does not. Its depth is 16, the manual's 8. An `{$IFDEF}` whose branch
  is compiled may be left open. Words behind `{$ENDIF` are refused where the block
  was compiled (`1538`) and passed over where it was not (`1177`).
- *Command line*. A define `ebug` or an object `-v` reads as a switch. Errors of the command
  line have no position, though `diagnostic.rs:54` says that errors have.
- *Instances*. `call_args` of a function that halts with status 0 returns the value 0. Fuel is
  given once for the life of an instance. What an aborted call held of the stack
  stays held.

## Proofs

TLAPS checks these for every value of the constants; the runs check the same
formulas on one.

`HeapProofs` -- from the assumptions `HeapConstants`, `NoWrap` and `MemoryFits`.
None of `LiveBlocksApart`, `FreeListIntact` and `BlocksTileHeap` is inductive by itself: that a new
block overlaps none needs that the blocks tile the heap; that unlinking keeps
the list needs that the walk stands at an element of the list with `prev` one
behind, which spans several steps of `new`; and the guard needs that the return
addresses of `$sp` decrease (`AddressOrder`). `IInv` of `HeapSafe` joins these.
One lemma for each action shows that it is kept, and
`HeapTypeCorrect`, `HeapNeverMeetsStack`, `StorageApart`, `FreeListCorrect` and
`HeapTiled` follow.

The same module proves, from the same assumptions, what the heap promises. `HeapKeepsMemory`
is the refinement of
`MemorySpec`: a grant obtains storage of nobody (`GrantObtains`) because blocks in
use do not overlap after it either. `StackReserved` adds to `IInv` where the
outermost call found `$sp` (`StackFromTop`). `MemoryReused` needs counting: when a
block is carved, the walk has passed the whole free list, so every block of that
size is in use (`CarveCounts`), and there are as many of them as the high-water mark.

`DisplayProofs` -- from `DisplayConstants` and that the deepest level has a
global (which the compiler does not keep: see `AcceptedRuns` above). What holds
of the running activation must be known of those that wait: `IInv` of `Display`
says of activation i what `$sp` and the display were when it last ran, which is
what the activation it called recorded (`SpOf`, `DisplayOf`). Then a return has to
restore only the routine's own level. `ScopeReached`, `BalanceKept`,
`FramesStacked`, `StackKept` and the action property `CallsRestore` follow, and so does
the refinement of `LexicalScope`: the environment of an activation that waits is
read off the display its callee recorded, and a return brings it back.

`StatementProofs` -- of `StringExpr`, from `StringConstants` and `Constructs = {}`: each construct breaks
`ValuesRight` or `FrameReached` (see above), so the theorems cannot do without. `BaseKept` and
`ValuesRight` are about the ends of statements; in the middle of one, what is
pending of it is spread over the stack. `IInv` of `StringSafe` says where: there are two
sequences, `slot` and `start`, that give for each pending call the address of its
result buffer and the number of operands there were when it began. The program
keeps neither. It finds a buffer by `$sp + stmtArenaBytes - retMark`, which is right
because arguments give back the bytes of their temps, and only those
(`StandsAt`); and the pieces saved behind the buffers are still there because whatever
is written later is written below (`Holds`). `Room` says that the bounds of the
model, and not the lower end of memory, stop a statement. The invariant was
checked by TLC first, with `slot` and `start` computed. `BaseIsKept`, `OperandsStayAlive` and
`StatementsGetTheirStrings` follow.

Of `ControlFlow`, from `BodyConstants` and `OptAssumption`, for bodies of any length,
nested to any depth, with the peephole pass on or off. `DepthsTrue` says what the
depths are now; that they are so again after an `end` needs what the compiler saved
when the construct began. `Inside` of `ControlSafe` says of each open construct
that the `break` and `continue` saved with it are those of the constructs before it
(`BreakIn`, `ContinueIn`: the blocks since the nearest loop), so the proof is about
nests: one more construct (`PushKeeps`), one less (`PopKeeps`), and the last with
more labels, each of which opens a block (`ReplaceKeeps`). The other half is the
code. `buf.last` is 0 or the last instruction, so a rewrite makes a `local.set` a `local.tee`
or takes away an `i32.eqz`, and never touches what opens or closes a block; what is emitted
by way of it opens as many blocks as the instructions handed over do
(`EmitAllDoes`, by `CountUp` over the sequence). Each statement then has a lemma
that says how many that is, and that its construct opens or closes the same number.
`BodyInvariant` and `DepthsAlwaysTrue` follow.

`LoopsRelease` is about the code that runs, and its reason about the code that is
emitted: a branch that leads back comes right after a release (the step of a `for` may
stand between, and takes nothing). `ReleaseInv` says so of the buffer of a body that is
not complete, where it is not known yet which branch will lead back: every branch
is `Freed`, but for the one that leaves a loop from its head, which would lead back too
if the operand 1 meant the loop (`BackAt`, `InHead`: the blocks between the branch and its `loop` have
ended, so 1 is the `block` before it). And a place that may take bytes is in the code once
(`Once`), of a token read so far (`UpTo`). Both are kept because what a statement emits is
`Tidy` by itself and `EmitAllTidy` shows that it stays so behind any code, although the
first instructions handed over may be rewritten with the last of the code before.
When the body is complete, `TargetIs` turns the blocks counted into addresses:
each jump goes forward or is `Freed`, and lands behind a `loop`, an `else` or an `end`, so
never between a release and its branch. Then what is taken is taken by places
before `pc`, and `LoopsAlwaysRelease` follows from `Once`. TLC checked the parts of `BodyInv` on
the instance of `control` before.

`LinkerProofs` -- for any number of units, compiled in any order and again, any
routines, any command line and any width of the limits in `LinkerConstants`
(`ExternFuncBase` lies above every index there can be: 1000000 against 384
functions and 32 helpers), and from `Constructs = {}`: each of these constructs breaks
`NumbersLand` (see above). `NumbersLand` is about the finished module; `IInv` of
`LinkerSafe` says what holds on the way there. A file that is read, an object and
a program that is linked are one kind of thing, and a number lands in it or not
(`Lands`). Routines are numbered in the order of their headings (`Numbered`), so what
landed goes on landing while the thing grows (`Grows`): an import added behind, a
routine, data, a slot. Of a site whose routine is elsewhere only the place in the
list of externs is known (`SiteRight`), and each such site, in a unit every site,
has its relocation (`Recorded`). Writing an object renumbers bodies but not what
names them (`WrittenOK`); placing one moves each of its numbers by the base of its
kind, except those of shared imports and helpers, which are the same in all
modules (`RelocatedLands`). A site that is patched has one number written to it,
whatever else is patched (`PatchFold`); an extern resolves to a routine of that name
because symbols and bases name what was placed (`UnitsRight`). That exactly the
needed units are placed is a count: what is reached in as many turns as there are units
is closed. TLC checked the invariant on the instance of `link` before it was
proved. `NumbersAlwaysLand` and `ObjectsAlwaysJust` follow. In a file compiled
again the exports of a unit may be of another object than the one a caller was
compiled with; the theorems speak of names, `HeadingsAgree` of headings.

`TextProofs` -- for any number of variables and files, any strings, any size of the
buffer. `DescriptorsOwned` is not inductive: a new descriptor is nobody's because the
host counts up and what is open is below the count (`HostSafe`), and a variable
that is closed has none to be confused with (`ClosedHoldsNone`). A helper is a
lemma that says what it leaves alone (`Keeps`), and a statement is the helpers it
calls. `TextTypeCorrect` and `DescriptorsNeverShared` follow.

The same module proves the refinement of `TextSpec`, `TextKeepsSpec`, from two assumptions.
`~Shared`: no file is open for writing and open through another variable too.
`"write" \notin Failures`: the disk takes what it is given, because the helper drops
the answer of `fd_write`. Both are divergences above, and without either the
property is false. `InPlace` of `TextSafe` says where the bytes are: a writer's offset is at
the end of its file, a reader's buffer is what lies before its offset, a line
being read holds what lies between where it began and where it is, carriage
returns left out. Each statement then moves the abstract rest of a file as
`TextSpec` says, by any number of refills.

`Counting` -- `__text_write_str` and the appending of pieces are loops, which the
models have as recursive functions and folds. An induction theorem that takes the
predicate as a parameter cannot be instantiated; stated with a set instead
(`CountUp`: a set that has 0 and with each number the next one has all of them), it can,
and the lemmas on these loops are proved from it; the linker's two patching loops
and the closure of the uses too.

`HostProofs` -- of `Embedding`, from `EmbeddingConstants`, about the store of an instance over all
calls of its host. That a call which returns leaves the stack as it found it is
not inductive for the same reason as in `Display`; here an activation records
less, and `IInv` computes where `$sp` was (`Base`) from the display entry
its callee saved. A call that is broken off loses its activations and keeps `$sp`,
which is the case the invariant must allow: only the next call's starting point
is assumed. `FuelAccount`, `InstanceStackKept`, `StringsArrive`, `OutcomesTold` and
`InstanceTypeCorrect` follow.

Of `CompileHost`, from `SizesAssumption` and `CompileConstants` (a warning or an error has a
position, a line of progress none and does not begin like one), for every size of
the three areas, every set of options and every order of reports. `OptionsArrive`
speaks of the moment the compilation begins, after four loops over the same
arguments, each reading what the one before it wrote. `CompileInv` follows them:
during `args_get`, each string lies behind the one before it, with its NUL, and its pointer points there
(`Laid`); during the copy, that is still so, as slots lie behind the strings, and the slots of the
arguments done hold them (`InSlots`, which needs that the guest finds the same NUL that the
host wrote); during the argument loop, the snapshot knows just what the arguments so
far say (`GuestAfter`). Of a vector that does not fit, three things survive, which is what
`SlotsHold` needs: a string that runs over the areas behind it never reaches the
pointers before it (`Pointers`), so the guest reads from some address, and whatever it finds there it
cuts to a slot (`Measured`). `ReportsTrue` rests on one fact about text, `ReadsBack`: the line made of a
report is read back as that report. A message may have colons and numbers in it, and a report with a
position is safe, since its first `": "` ends the position; one without needs
words that do not begin like one, which `Worded` carries for each report made, those
of the command line included. `ReportInv` adds that an error ends the run: it is the last line and the
only one, and status 1 comes from nowhere else, so `compile` never answers `Exit`
of a snapshot that behaves as this one does. `OptionsAlwaysArrive` and
`ReportsAlwaysTrue` follow; TLC checked each part of `CompileInv` before.

`IncludeProofs` -- for every tree of files and all limits, from `DisksAssumption`,
`DepthAssumption` and `LimitAssumption`. Each of the
three invariants needs what the reader has not met yet. `PositionsTrue` is about
the cell being read, and a `srcLine` that is right now is right after the next
cell only if the cells lie as lines do and a mark holds the line to go back to:
`Laid`, which `OpenInclude` keeps when it puts a whole file and its mark in front
of the rest, whatever lines these have. `ActiveText` speaks of the end, when the pass over all
cells (`Meanings`) has been made; in the middle, `TextInv` of `IncludeSafe` says that
where the compiler stands the pass has found just what the compiler knows: the
same symbols, the same words, and of each open conditional whether its first
branch was taken (the pass keeps whether it is on and whether this is its second
branch; `skipDepth` counts those inside a block that is left out). Every action then either
moves as the pass does over the same cells (`Moved`) - over a whole comment or
string or directive in one step, and the pass cell by cell, by induction with `CountUp` - or it
refuses what the pass finds fault with (`Refused`). A text with a second `{$ELSE}` or with `//` in
a branch not taken is odd from that cell on (`OddText`) and nothing is said of it. `IncludeTypeCorrect`,
`PositionsKept` and `ActiveTextSelected` follow; TLC checked `TextInv` before.

Only model-checked, and why:

- `RoutesAgree`, which compares two readers that stop at different places of
  different texts: its invariant would relate a position in the recursion of the host's expansion
  to the compiler's stack of includes.
- `InStep` of `ControlFlow`: it compares flat code with nested source, whose order is
  a recursion over the tokens (`Goes`, `Decided`), and needs to which place of the source every
  branch will come. Of the branches themselves `DepthsTrue` and `LoopsRelease`
  are proved.
- Every liveness property (`NewReturns`, `CallsEnd`, `RoutesEnd`, the ends of
  links and lines), which holds under fairness and is out of the prover's reach.

## Not modelled, and why

Formatting (diagnostics' wording, progress, dumps, decimal conversion), the
section writers and the type rules are sequential translations without state
that several operations share, and the repository's compiler tests cover them
case by case. Reading and writing of the host's standard streams is input and
output. `with` and the built-in procedures open no block that a branch crosses.
Interfaces are a static table. Browser pages are other hosts for the same module.
What is planned and not yet there is below.

## Plan

1. Done: `Heap`, `Display`, `StringExpr`, `Linker`, `TextFile` with `WasiHost`,
   `ControlFlow` with `Peephole`, `SourceText` and `IncludeExpand` in `IncludeRoutes`,
   `CompileHost` with `ArgVector`, `Embedding`, the abstract `MemorySpec`, `LexicalScope`,
   `TextSpec`, and the proofs above.
2. `SymTab`: scopes, shadowing, forward pointers; refinement of nested maps.
3. `Leb128`: the padded and plain encoders against one decoder, over bounded words.
   `StrHelpers`: the byte loops against their definitions on sequences.
4. Proofs: `InStep` of `ControlFlow`, from `BodyInv` and the place each branch comes to;
   `RoutesAgree` of `IncludeRoutes`.
5. Joining `Heap` and the buffers of `Display`: result buffers lower `$sp`
   without a guard (`cpas.pas:6262`).
