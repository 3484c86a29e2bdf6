# Verification of ALGatorC

ALGatorC (`algatorc`, `algatorcpp`) runs an algorithm of the ALGator system on a
test input a given number of times, in its own process, and reports the times
and the last output. It compiles the user's sources into two shared libraries,
loads them, and calls into them behind three protections: a guard against
crashes and exceptions, an interceptor of `exit()`, and memory sandboxes that
free whatever user code allocated.

This directory holds TLA+ models of that program, the TLC runs that check them
on small instances, and proofs that TLAPS checks for every instance.
`PROJECT.json` lists the runs, the source lines each definition models, a mutant
of the code that breaks each property, the disagreements met between the code
and its comments or README, the hazards the properties are aimed at, and the
theorems.

## 1. Inventory

| component | sources | state | operations |
|---|---|---|---|
| Memory sandbox | `ALGAlloc/Algalloc.*` | `g_last_alloc`, `g_sandboxed`, a mutex; per sandbox `last_alloc_`; three header words before each block (next, previous, base) | `malloc`, `calloc`, `realloc`, `free`, the `memalign` family; `apply` (`prepare`/`cleanup`), `cleanupFailedApply`, `free()`, move, swap |
| Termination interceptor | `ALGExit/Algexit.*` | `g_intercept`, `g_attempted`, the attempted exit code | `exit`, `_exit`, `terminationInterceptorApply` |
| Guard | `Support/Guard.*` | `g_crash_recovery_enabled`, the signal handlers, a thread-local `g_current_context`, `impl_` of the current call | `guard`, `guardInternal`, the signal handler, `enable`, `disable` |
| Library wrappers | `CompilationTemplates/{ErrorReporting,Project,Algorithm}.hpp` | `__error_var` in each library | catch exceptions; `__error`, `__clear_error`; hand streams to user code |
| Byte stream buffers | `CompilationTemplates/{Input,Output}ByteBuf.hpp` | a get area; a put buffer that grows | the `streambuf` overrides, `takeBuffer` |
| Execution | `Execution/*` | the loop of `execute()`, a stack of sandboxes ("memory lifetimes") per library | deserialize, copy, execute, serialize, free |
| Result files | `Support/{Error,FileManagement}.*` | `Error::phase_`, the `.output` and `.status` files | `error()` (writes the status and exits), `writeSuccessStatusFile`, `writeBinaryFile` |
| Configuration | `Support/Configuration.*` | the parsed command line | `parse` |
| Source validation | `Compilation/{CodeValidator,TranslationInput}/*`, `TranslationUnit.*` | none | does a source declare the type or function its role asks for; which form of a converter is compiled |
| Compilation | `Compilation/*`, `main.cpp` | files: libraries with write times, generated sources, `compilation.out` | `compileAndLoad` = validate, `compilationNeeded`, `compile`, `clean`, `tryLoadFrom` with one retry |
| `main()` | `main.cpp` | how far the run is | the above, in order |

How they meet. `main()` parses the configuration, runs `compileAndLoad` for the
project and for the algorithm, and calls `execute()`. Every call into a library
is `executeInContext` (`DynamicLibrary.hpp:74`): the guard starts a thread;
on it the sandbox on top of the library's stack is applied; inside that a
wrapper calls the user's function. After the join, the main thread asks the
library for its error, again in the sandbox, and either returns or calls
`error()`, which writes the status file and exits. Components meet by shared
state more than by calls: the handlers, `g_intercept`, `g_sandboxed` and the
allocator's mutex belong to the process, so every thread user code leaves
running sees them; the temporary directory belongs to a project, so every run of
the project sees it; the two result files belong to an `<io_filename_root>`, so
every run over it does.

What is hard:

- user code may crash, throw, exit, start threads, or corrupt memory, at any
  point, also inside the allocator;
- a crash comes back by `longjmp` from a signal handler, past destructors;
- flags of the process are read by several threads, some before a lock is taken,
  and header words are patched outside it;
- a block's header must agree with its neighbours', the list head and the real
  allocator over any sequence of calls;
- pointers cross lifetimes that are freed per iteration;
- a buffer is shared between a stream, a wrapper and the program, and an
  exception may pass at any point;
- a run may be killed between any two steps, and the next one, or one that is
  going on at the same time, works with the files it left.

What makes each part correct: a sandbox's list is exactly what is allocated
under it, so `free()` frees everything once; a guarded call restores all it
changed, reports how user code really ended, and ends; a wrapper loses no
exception and gives each buffer one owner; a library calls only what the sources
declare; `execute()` passes only live memory and untouched inputs; the command
line is obeyed; a run executes the algorithm it was asked for, built from
current sources; and the two files it leaves are true, and of one run.
`PROJECT.json` "hazards" lists where each can go wrong.

## 2. Modules

| module | models | abstraction |
|---|---|---|
| `SandboxSpec` | what sandboxes promise: sets of blocks | specification, no code |
| `Algalloc` | `ALGAlloc/Algalloc.*`, one allocating thread | a block is an identity; its words hold blocks, NULL or JUNK |
| `AlgallocThreads` | `malloc` and `free` again, any number of threads, word by word, in the sandbox and outside it | one sandbox; no base word, no null pointers |
| `GuardSpec` | what a guarded call promises `main()` | specification, no code |
| `Guard` | `Guard.cpp`, `Algexit.cpp`, and of the sandbox its flag and mutex | threads as program counters; the handlers are one flag |
| `SourceValidation` | the validators and the choice of the template | operators; a declaration is its kind, name and type spellings |
| `Wrappers` | the stream buffers and the functions compiled with user code | bytes are their positions; uses `SourceValidation` |
| `Execution` | `execute()`, the lifetime stacks, the result files | an object stands for all a call allocated, and is never reused |
| `Configuration` | `Configuration::parse()`, and the usage line | operators; a number is a sign and a magnitude, a path is a sequence of names |
| `RunSpec` | what runs promise the system that starts them | specification, no code |
| `Main` | `main()` and the runs that follow one another: `Configuration`, `Execution` and the outcomes of `compileAndLoad()` composed | compiling and loading succeed or fail |
| `Compilation` | `compileAndLoad()`, `main()`, the files they share | sources have versions, write times and a fault |
| `AlgallocProofs`, `AlgallocThreadsProofs`, `GuardProofs`, `WrappersProofs`, `ExecutionProofs`, `MainProofs`, `CompilationProofs` | theorems about the modules they are named after | |
| `NaturalRecursion` | theorems: induction, the least element and recursion over the natural numbers | no code |
| `MC...` | instances of the above for TLC | |

`Algalloc` implements `SandboxSpec` (held = the blocks owned, active =
`current`, releasing = `freeing`), `Guard` implements `GuardSpec` (status is
computed from `proc` and the main thread's counter), and `Main` implements
`RunSpec` (the output is old, cut or new, the verdict is read off the status
file). `Execution` uses the outcome of `Guard` (a call returns, or the process
reports, or dies) and of `Algalloc` (a sandbox frees all it holds); `Main`
EXTENDS it, so that the actions of `execute()` are those of `Main` while
`stage = "execute"`. `Wrappers` is what runs inside a call of `Guard`;
`Compilation` is what `Main` takes as two outcomes.

### Algalloc

Variables carry the code's names. `next`, `prev` and `base` are the three words
before the user data; `owner` is a ghost that says under which sandbox a block
was allocated; `padded` are the blocks whose header does not start at the base
(`memalign`). `SandboxMalloc` stands for `malloc`, `calloc` and `realloc(nullptr,
n)`; `SandboxMemalign` for the six aligned functions; `SandboxFree` also for
`realloc(p, 0)`. The loop of `MemorySandbox::free()` is `FreeBegin`, `FreeStep`
per node, `FreeEnd`. A dereference of anything that is not a live block is
undefined in the code and sets `wild`, after which no action of the sandbox is
enabled. `AllocateFails`, `ReallocFails` and `FreeNull` are the same functions on
a null pointer: that of a real allocator which has no memory left, whose result
only `posix_memalign` tests (`PosixMemalignReturns`, which wires nothing), and
that of `free(nullptr)`. They set `nulled` besides, and `NoWildAccess` says that
nothing else ever sets `wild`; without `nulled` in it TLC finds it violated by
each of the three. `Behaviour` says what the environment does beyond the plain
case: `realloc_moves`, `realloc_padded`, `free_foreign`. All three are legal for
a C program; each breaks the code. `algalloc_moves` shows the first; with
`{"realloc_padded"}` TLC finds `BaseAddressValid` violated, with
`{"free_foreign"}` `ListHoldsNonFreed`. The passing run and the proofs exclude
them.

### AlgallocThreads

A step is one access to a shared word, `g_last_alloc` or `g_sandboxed`; what
happens under the mutex between lock and unlock is split where another thread
can read the words without it (`Link`, `Fill`, `NewHead`). `sandbox_free()`
reads both neighbour words, patches both neighbours, and only then takes the
mutex for the head. While no sandbox is applied, `PlainMalloc` and `PlainFree`
are the real functions, on blocks that have no header (`bare`); `FreeAcross` is a
`free()` of a block on the other side of `prepare()` or `cleanup()` than it was
malloc'ed on, which passes an interior address to `real_free()` or reads a header
that is not there, and sets `wild`. The ghost `overlaps` records the kinds of
calls that have overlapped: two adjacent blocks being unlinked, the newest block
being unlinked while one is wired, an allocation or a free overtaken by
`cleanup()`, and such a free (`"wrong_side"`). None of them is excluded by the
code; the properties say what holds when which of them have not happened. Each
exception is needed: with `"neighbours"`, `"newest"`, `"late_free"` or
`"wrong_side"` added to what `ListExactWhenQuiet` or `LateMallocHarmless` allow,
TLC finds a broken list or an undefined access. `late_malloc` alone is harmless:
`cleanup()` has reset `g_last_alloc`, so the block is wired to no other and is
lost at the next `prepare()`, or, if that came first, is wired into the next
call's list like any of its blocks; but it has a header, so a thread that frees
it before that `prepare()` frees it on the wrong side.

### Guard

A step is what a thread does between two points another thread can observe. The
main thread goes `idle, intercept, join, intercepted, collect, reset, err,
erring, (clear, clearing, has_error | decide), idle`; the worker `start, prepare,
user, cleanup | handler, on_failure, done`; helper threads are threads of user
code nobody joins. A helper's `exit()` tests `g_intercept` (`HelperExits`) and
notes the attempt in a step of its own (`HelperAttempts`), which may come after
`main()` has reset `g_attempted`, or in a later call, to which it is then
charged. A signal on a thread with handlers installed takes it to `handler`;
without them the process is killed. Waiting for `g_last_alloc_mutex` is the guard
`mutex = NULL`. `Fault` adds crashes at special places: `wire` (inside
`wire_allocation`, mutex held). A stack overflow is left out: no alternate stack
is set up, so no handler runs and the process is killed.

### SourceValidation and Wrappers

A project is, for each of its files, the set of declarations libclang finds in
it. `Accepted` is what the two `validateSourceFiles()` ask, `CppDeserialize` and
`CppSerialize` what `compilationDefines()` makes of it, and `TemplateCalls` the
functions the template then calls. `Wrappers` begins with any project
(`Validate`), forgets the declarations once the library is loaded
(`LoadLibrary`), and lets user code call the streams in any order: single and
bulk reads, `unget`, single and bulk writes, exceptions. Characters are numbered
as they are written, bytes of the input are their positions. `overflow(c)`
stores a character and leaves `pos_` where it is, so what is written next
overwrites it or takes its place. This is a defect of the code: the repository's
README says that `serialize_output` "writes its serialized representation to the
stream" (line 35), and that the `.output` file has it (line 39). `TextComplete`
states that, and is in no configuration: as an invariant of `MCWrappers.cfg` TLC
finds it violated by one `put()` or `std::endl`. What does hold is
`BulkTextKept`: the text has every character that was written in bulk, which is
how strings are inserted, and nothing but characters that were written, each
once and in order. It would hold of an `overflow()` that advances, too.

### Execution, Configuration and Main

`Execution` has one action per statement that allocates, frees, may fail or
writes a file. `project` and `algorithm` are the stacks of lifetimes, `dirty` a
ghost that remembers which inputs an `execute()` call has had. Every guarded
call may `Fail` (through `error()`) or take the process down (`Killed`: what
`Guard` shows to be possible). `each` is the `-d` option, `status_open` whether
the status file can be opened.

`Configuration` has no state: `Parse` is what `parse()` stores, or `None` where
it ends in `error()`; `Meant` and `FitsUsage` are the usage line of the
repository's README, defined without looking at `Parse`. `std::stoul` takes a
minus sign and wraps.

`Main` adds the stages before `execute()`: `parse`, `compiler`, and `compile`,
`load`, `recompile`, `reload` for each library, with `Error::phase_` as the code
sets it. When a run is over, `NextRun` starts another over the same files;
`left` says what the earlier ones have left. `Disturbed` names the runs that
may leave an OK of an earlier run beside a cut output: killed or without a
status file after the output was opened, or asked for no call at all.

### Compilation

A process runs ALGatorC again and again, for any algorithm, with or without
`-c`; each run may be killed at any step, which leaves the files as they are.
The system takes the write time of a library twice: when the linker replaces it
by an empty file and when it has written it. Clang, the linker and `dlopen` are
external: clang reads the generated file and what it includes in one step and
refuses faulty sources; a half written library is refused by `dlopen`; a source
that declares a function and does not define it is linked and refused then.
`Environment` says what may happen during a run: `alongside`, another run;
`meanwhile`, an edit. `Kill` ends a run together with the clang and the linker it
has started: a linker that survives its parent, and writes the library during a
later run, is left out.

## 3. Runs

| run | shows | bounds |
|---|---|---|
| `algalloc` | type, list and base invariants; nothing but null pointers is accessed that is not allocated; `SandboxSpec` is implemented | 4 blocks, 2 sandboxes: a list with a first, middle and last node and a block outside |
| `algalloc_moves` | *violated*: the comment on the list does not survive a `realloc` that moves the newest block | 3 blocks |
| `threads` | the list is exact whenever the threads pause; a late allocation is harmless while blocks are freed on the side they were malloc'ed on | 3 threads, 5 blocks: a free on each side of a block, and an allocation, all at once |
| `guard` | a call restores, never nests, keeps `GuardSpec`, completes; a stray fault ends the process | 3 calls (what the first leaves, the second meets, the third shows), 2 helpers |
| `guard_wire` | *violated*: a crash that is not recovered | 2 calls |
| `main` | the command line is obeyed; liveness of arguments, isolation, no growth, truthful status and phase; files of one run; `RunSpec` is implemented; every run reports | 2 runs, 0 to 3 calls, `INT_MAX` 3 and `ULONG_MAX` 15, up to 4 words after the four, 4 surroundings |
| `main_flags` | *violated*: `-dr <path>` is refused | the same |
| `wrappers` | calls are declared; accesses in bounds; reads count; bulk text kept in order; buffers have one owner; no exception lost | an input of 4 bytes, a buffer of 2 that grows to 4 and 8, a text of 7, requests of 0 to 3, every subset of the nearly right declarations of each file |
| `wrappers_reread` | *violated*: a second bulk read begins at the start | the same |
| `compilation` | right and current libraries, failures only of the sources | one process, 2 algorithms, 2 edits, 2 clock values |
| `compilation_pair` | overlapping runs of one algorithm end | 2 processes, no edit |
| `compilation_cross` | *violated*: two algorithms in one generated file | 2 processes, 2 algorithms |

Why these bounds are enough to meet the cases: a free patches at most two
neighbours, so four blocks give every position in a list and a free block next
to it; three threads are the most that can be around one block. Three calls of
`execute()` have a first, a middle and a last one, and 1 and 2 of them the
boundaries in between; 0 is the number of calls nothing is written for. Numbers
wrap modulo 16 and are too large above 3, so that there are magnitudes that fit,
that overflow an `int`, that overflow an `unsigned long`, and negative ones that
wrap to either. Four words after the four hold two path options with their
paths, or one and two flags. Two runs are one that leaves files and one that
meets them. The output buffer grows from the constructor's size once by doubling
and once more, also by a request larger than itself. A comparison of write times
sees only equal and later: two clock values.

`threads`, `algalloc_moves` and the `compilation` runs use symmetry (blocks,
threads, sandboxes, runs and algorithms are only compared); no run with a
liveness property does. `threads` has a constraint, `Promised`: once user
code has raced against itself in one of the ways named above (all but
`"late_malloc"`), TLC does not go on from there, since both of its properties say
nothing then.

Every property of a passing run has a mutant: a plausible slip in the code (a
head not updated, a flag not reset, `>` for `>=`, a retry left out, a buffer not
expanded) under which TLC finds it violated. Some exceptions in the properties
are as far as the code carries, which TLC shows when they are taken away: the
three values of `Behaviour`, `nulled` in `NoWildAccess`, the kinds of `overlaps`,
`"meanwhile"` in `Environment` (a source saved while it is compiled leaves an
outdated library: `LibrariesCurrent`), `times > 0` in `EveryRunReports` and
`Disturbed` in `ResultsAgree`.

Deadlock is checked for the `compilation` runs, which never stop. `Guard`, `Main`
and `Wrappers` model a process that ends, nothing follows an undefined access in
`algalloc`, and in `threads` user code may use up its blocks and lose them, so it
is not checked there; that
`Guard` and a run do not hang is `CallCompletes` and `EveryRunReports`.

Fairness. In `Guard`, the steps of the main thread and the worker are strongly
fair: each waits for a mutex that other threads take and release, and the
scheduler and the mutex let it in eventually. Handlers of stray threads and the
release of the mutex are weakly fair; what user threads choose to do is not fair
at all. That user code ends is an assumption (`UserEnds`): the code has no
timeout. `StrayFaultEnds` also rests on a process making finitely many calls.
`FairMainSpec` is weak fairness of the steps of a run, which is sequential: that
a guarded call returns or ends the process is what `Guard` shows. A kill and the
start of another run are never fair. In `Compilation`, every process is weakly
fair in the steps of its run, since nothing there waits.

## 4. Proofs

### The sandbox (`AlgallocProofs`)

For any finite or infinite sets of blocks and sandboxes, and under
`Plain == Behaviour = {}`:

| theorem | property |
|---|---|
| `TypeCorrect` | `TypeOK` |
| `ListsAreExact` | `ListHoldsNonFreed` |
| `BasesAreValid` | `BaseAddressValid` |
| `NoUndefinedAccess` | `NoWildAccess` |
| `SandboxesImplementSpec` | `ImplementsSandboxSpec` |

Undefined behaviour comes only from a null pointer (`NullUse`), and nothing
follows it: the invariant is `Inv == IInv \/ Lost`, where `Lost` is such an end
with its types, and `LostStays` is all there is to say about it. `NoUndefinedAccess`
then says that every other access of every other step is defined.

None of the properties is inductive: that a free keeps the list exact depends on
both words of both neighbours, and on where the head is while a sandbox is
applied or being freed. The inductive invariant `IInv` therefore says of each
sandbox that the blocks it owns form a chain from `Head(s)`: the head is owned
and has no next block; `next` and `prev` are inverse to each other among the
owned blocks; and the blocks reached from the head are all of them, stated
without counting or recursion, as: a set that holds the head and the previous
block of each of its members holds every owned block. Five lemmas say what
pushing, removing, popping and leaving alone do to a chain, and that a chain's
list is its owner set (`ChainPush`, `ChainRemove`, `ChainPop`, `ChainFrame`,
`ChainListed`). The proof of the step has one case per action and cites the
chain lemma of that action; the refinement theorem adds that each action is an
action of `SandboxSpec` or a stutter, `EndRelease` needing that an empty cursor
means an empty chain. The assumptions on constants are that NULL, JUNK and HOST
are no blocks or sandboxes.

### The sandbox on several threads (`AlgallocThreadsProofs`)

For any set of threads and any set of blocks, finite or not:

| theorem | property |
|---|---|
| `ThreadsTyped` | `TypeOK` |
| `ListIsExactWhenQuiet` | `ListExactWhenQuiet` |
| `LateMallocIsHarmless` | `LateMallocHarmless` |

Between two steps of a thread the list is nearly always broken somewhere: a
block is written into one neighbour and not yet into the other, or the head is
behind. The inductive invariant says how far. `Typed` and `Seen` hold always:
the second says that every pair of calls that overlaps now is recorded in
`overlaps`. As long as nothing but late allocations has been recorded, `Linked`
holds. It classifies the live blocks by the calls that are working on them
(`New`, `Listed`, `Gone`; and of the listed ones those that are leaving, by how
many of their two neighbours already point past them, `Skipped` and `Passed`)
and says what each word holds for each class: `Owned` and `Local` for a thread's
own block and local variables, `Into` that the words of a listed block lead to
listed ones, `Back` and `Forth` that `prev` and `next` answer each other except
at a block in one of those stages, `Heads` where the head may be. That two
adjacent blocks are not unlinked at once is what makes each of these a statement
about one thread, and so provable action by action; there is one lemma per
action. While nothing at all has overlapped, `OneHead` says that only the head
has no next one, but for the block about to be the head. That the list is all
that is allocated needs neither counts nor paths: the blocks have ranks that
rise along `next` and fall along `prev` (`Rises`); a block that the list does
not reach has, by `OneHead` and `Forth`, a next one that it does not reach
either; and the highest of them, which exists by `Smallest`, is a contradiction.
The assumptions are that NULL and JUNK differ, that neither is a block, and that
NULL is no thread.

`LateMallocIsHarmless` is about blocks that are freed on the side of `prepare()`
and `cleanup()` on which they were malloc'ed. What happens outside keeps `Linked`
for the plain reason that a block without a header is no live one
(`PlainKeeps`); the free that is excepted only has to keep the types
(`AcrossKeeps`).

### The guarded call (`GuardProofs`)

For any set of helper threads, any number of calls, and with or without the
fault inside the allocator:

| theorem | property |
|---|---|
| `GuardTyped` | `TypeOK` |
| `CallsRestore` | `CallRestores` |
| `CallsNeverNest` | `NeverNested` |
| `GuardImplementsSpec` | `ImplementsGuardSpec` |

What a guarded call has changed, and so must restore, depends on where the main
thread and the worker both are. The inductive invariant has one part for each
thing the threads share: `Places` (the worker is idle but while the main thread
joins it), `Flags` (handlers, recovery, the interceptor and the sandbox's flag,
each by place), `Contexts` (whose jump buffer is in use), `Endings`, `Errors` and
`Attempts` (what has been recorded of how user code ended, in the library and in
the interceptor), and `Stray` (a helper that is past a fault, or past the test in
`exit()`, means that user code's threads have escaped a call, and an attempt to
exit that survives a call is of such a helper). One lemma per action says that it
keeps all of them. The refinement follows a death of the process, the steps of
the main thread, those of the worker and of user code, and those of the helpers.

### The wrappers (`WrappersProofs`)

For any project, any input, any first size of the output buffer, any requests
and any length of the text:

| theorem | property |
|---|---|
| `WrappersTyped` | `TypeOK` |
| `AccessesInBounds` | `InBounds` |
| `ReadsAreCounted` | `ReadsCount` |
| `BulkTextIsKept` | `BulkTextKept` |
| `BufferHasOneOwner` | `BufferOwnedOnce` |
| `ThrowsAreReported` | `ThrowsReported` |
| `CallsAreDeclared` | `CallsDeclared` |

`Buffer` relates the cells of the output buffer to what was written: below
`pos_`, which is within the buffer, they are what was inserted in bulk, whatever
single characters were stored above it in between. `Numbered` says that those
are numbered in the order in which they were written. `Output` says who owns the
buffer and that the text given away is that one; `ReadsOK` that the bytes of a
read are of the input; `Errors` ties `__error_var` and the exception that goes
on to the call; `Built` says, until the library is loaded and the project
forgotten, that what is compiled was accepted. How large a buffer has to grow is
a power of two (`Power`, a recursive function); that this definition has a
value, and that some power is large enough for every request, is `Recursion` and
`SetInduction` of `NaturalRecursion`. The assumption on NULL is that it is no
number, no error and no text.

### A run (`ExecutionProofs`, `MainProofs`)

For any number of calls, any command lines and surroundings, and any number of
runs one after another:

| theorem | property |
|---|---|
| `RunsTyped` | `MainTypeOK` |
| `PlainUsageIsObeyed` | `PlainUsageObeyed` |
| `InputsLive` | `ArgumentsLive` |
| `CallsIsolated` | `Isolation` |
| `MemoryBounded` | `NoAccumulation` |
| `OKIsDone` | `OKMeansDone` |
| `PhasesTruthful` | `PhaseTruthful` |
| `FilesAgree` | `ResultsAgree` |
| `Refinement` | `ImplementsRunSpec` |

That a pointer is live depends on what each lifetime of each stack holds, so the
invariant of `execute()` says exactly that, for each statement (`Lifetimes`):
below the top is at most the input that stays (`Kept`), on top what this
iteration has used. `Counts` bounds the loop variable and the recorded calls,
`Pointers` says which object each variable names, `UsedInputs` that only copies
and deserialized inputs of earlier calls have been used, and `Files` what the
phase and the two files can be by then. A handful of lemmas compute the stack
operations on one and two lifetimes; each step has a lemma with one part per
conjunct it can disturb. `MainInv` adds how the stage, the phase and the loop go
together (`Stages`) and that the files earlier runs left are of one run
(`LeftAgree`); while `execute()` runs the step is one of `Execution`'s, and its
lemma is cited.

`PlainUsageObeyed` compares two readings of a command line. That of the usage
line decides word by word which words are operands; `Operands` shows that this
recursive definition has the value it should (`Recursion`), and `OnlyFlags`, by
induction over the positions, that without path options every option is `-c` or
`-d`. `PlainParsed` then gets each field of the two configurations equal, and
the invariant `Obeyed` carries it to the state in which `parse()` has returned.

The assumptions are those the modules name: `Times` are natural numbers and hold
`0 .. IntMax`, a command line has a length, a fourth word is a number or none,
`NULL` is no object, `None` no command line and nothing one can mean.

### Compiling (`CompilationProofs`)

For any set of algorithms, any runs, any number of edits, and kills at any step:

| theorem | property | while |
|---|---|---|
| `CompilationTyped` | `TypeOK` | |
| `LibrariesRight` | `RightLibrary` | one run is alive at a time |
| `LibrariesAreCurrent` | `LibrariesCurrent` | ... and nothing is edited during it |
| `FailuresAreUsers` | `FailureIsUsers` | the same |

The conditions are values of `Environment`, and needed: `compilation_cross`
shows what another run alongside does to the first, and TLC finds
`LibrariesCurrent` violated with `"meanwhile"`. There are three invariants, each
inductive together with those before it. `Typed` has the types of the files and
of what each process knows. `Right` says that one process is alive (`Alone`),
that a library file holds what its name says (`Named`), also after a kill, and
of the process which generated file and which library it is working on
(`Placed`, `Compiling`). `Fresh` is about time: a library file that is newer
than every source it depends on was made of those sources as they are, what the
process has compiled, found or loaded is of them too, and `since`, the versions
the run began with, are still the current ones. It holds because the comparison
of write times is strict: an edit at the time of the link makes the library
stale. The action property follows from `Fresh` with one lemma for each step
that can end a run in failure.

### Induction (`NaturalRecursion`)

The library's induction theorems take an operator as a parameter, which no
installed prover can instantiate. `SetInduction` states induction for a set
instead and is proved from the finite-set theorems (were a number missing,
adding one would be an injection of an initial segment into itself that misses
0); `Smallest` follows; and `Recursion` builds, for a function that gives each
step as a function, the function that follows those steps from 0.

### Only model-checked

Liveness: `CallCompletes`, `StrayFaultEnds`, `EveryRunReports` and `RunEnds`,
which is out of the prover's reach. Every invariant and every other property of
a passing run is a theorem.

## 5. Not modelled

- The Windows variants: the repository's README calls the protections
  unsupported there.
- libclang and clang themselves: which declarations they find in a source is
  given (`Projects`), or stands behind a fault of a source (`Compilation`).
- Sizes and alignment arithmetic: a product or sum that wraps, the page count of
  `pvalloc`, the input length above 4 GiB that a C converter gets as an
  `unsigned int`; and `malloc_usable_size`, which changes nothing.
- `realloc` on two threads, and null pointers on several threads.
- `malloc()` and `realloc()` returning null to the output buffer: `expandBuffer()`
  does not test them (`OutputByteBuf.hpp:53, 60`).
- User code that never returns: `join()` has no timeout (`Guard.cpp:383`), and the
  fairness of `Guard` assumes that user code ends.
- A clang or linker that outlives the run that started it.
- `g_real_exit`, a global of the same name in `libalgalloc` and `libalgexit`,
  which only the dynamic linker makes one.
- Move and swap of `DynamicLibrary`, used only on libraries that hold nothing;
  static constructors and destructors of user libraries.
- User code that writes over headers or process data on purpose: the
  repository's README ("A note on protections") promises nothing there;
  `guardInternal` is modelled with a fault in the middle.
- Files vanishing while they are used, full disks (but for the status file).
- The help page, and the build and template scripts: text, no state. (The list
  of functions a project must define at `README.md:18-34` leaves out
  `input_deep_copy`, which `validateSourceFiles()` asks for.)

## 6. What could follow

1. `AllocSizes`: the sizes asked of the real allocator, modulo 2^w, against the
   room the header needs.
2. `realloc` in `AlgallocThreads`, and its lemma in `AlgallocThreadsProofs`.
3. Safety steps towards the liveness properties: in every state of a guarded call
   or a run that has not ended, some action of the fair ones is possible.
