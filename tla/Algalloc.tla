-------------------------------- MODULE Algalloc --------------------------------
(***************************************************************************)
(* src/ALGAlloc: the malloc family that interposes on libc's and the       *)
(* MemorySandbox class that owns what was allocated while it was applied.  *)
(*                                                                         *)
(* The real allocator is a set of blocks.  A block b stands for one        *)
(* allocation of it: its start, and the user data behind the three header  *)
(* words, which next[b], prev[b] and base[b] hold (user_ptr[-1], [-2] and  *)
(* [-3]).  A freed block's words are JUNK, since libc reuses them.  Reads  *)
(* and writes through a pointer that is not a live block are undefined in  *)
(* the code: they set wild, after which nothing is said.  So is working    *)
(* with a null pointer as if it were a block, which the code does with     *)
(* what the real allocator returns when it has no memory left, and with    *)
(* free(nullptr): nulled tells these from all others.                      *)
(*                                                                         *)
(* One thread at a time allocates here: the guard joins the thread a       *)
(* sandboxed call runs on before anything else happens.                    *)
(***************************************************************************)
EXTENDS FiniteSets

CONSTANTS
  Block,     \* the blocks the real allocator can hand out
  Sandbox,   \* the MemorySandbox objects of the process
  NULL,      \* nullptr, and "no sandbox"
  JUNK,      \* the content of memory nobody wrote
  HOST,      \* the owner of a block allocated outside every sandbox
  Behaviour  \* what the environment does beyond the plain case, see below

(***************************************************************************)
(* "realloc_moves":  the real realloc() may return another block.          *)
(* "realloc_padded": sandboxed code reallocs memory it got from memalign.  *)
(* "free_foreign":   sandboxed code frees memory of another sandbox, such  *)
(*                   as an algorithm that frees the project's input.       *)
(***************************************************************************)
Behaviours == {"realloc_moves", "realloc_padded", "free_foreign"}

ASSUME BehaviourAssumption == Behaviour \subseteq Behaviours

ASSUME ConstantsAssumption ==
  /\ NULL \notin Block /\ JUNK \notin Block /\ NULL /= JUNK
  /\ NULL \notin Sandbox /\ HOST \notin Sandbox /\ NULL /= HOST

VARIABLES
  next, prev, base,  \* the header words of every block
  owner,             \* ghost: the sandbox (or HOST) b was allocated under; NULL when free
  padded,            \* the blocks with alignment padding before the header
  g_last_alloc,      \* head of the list of the applied sandbox
  g_sandboxed,       \* allocation functions work on g_last_alloc
  last_alloc_,       \* head of each MemorySandbox's list
  current,           \* the sandbox whose applyVoid() runs, or NULL
  freeing, ptr,      \* the sandbox whose free() runs, or NULL, and its cursor
  wild,              \* undefined behaviour happened
  nulled             \* ghost: and what was used was a null pointer

vars == <<next, prev, base, owner, padded, g_last_alloc, g_sandboxed,
          last_alloc_, current, freeing, ptr, wild, nulled>>

Pointer == Block \union {NULL}
Word == Block \union {NULL, JUNK}
Live == {b \in Block : owner[b] /= NULL}
Owned(s) == {b \in Block : owner[b] = s}

Init ==
  /\ next = [b \in Block |-> JUNK]
  /\ prev = [b \in Block |-> JUNK]
  /\ base = [b \in Block |-> JUNK]
  /\ owner = [b \in Block |-> NULL]
  /\ padded = {}
  /\ g_last_alloc = NULL
  /\ g_sandboxed = FALSE
  /\ last_alloc_ = [s \in Sandbox |-> NULL]
  /\ current = NULL
  /\ freeing = NULL
  /\ ptr = NULL
  /\ wild = FALSE /\ nulled = FALSE

--------------------------------------------------------------------------------
(* The words of a block. *)

\* word f of x := v, unless x is no block: the code skips a null neighbour.
Poke(f, x, v) == [b \in Block |-> IF b = x THEN v ELSE f[b]]

\* A neighbour the code may dereference (after its null test).
Neighbour(x) == x \in Live \union {NULL}

\* Mutant: the base word is left as the real allocator returned it.
WireWithoutBase(b) ==
  /\ next' = Poke(Poke(next, g_last_alloc, b), b, NULL)
  /\ prev' = Poke(prev, b, g_last_alloc)
  /\ base' = base
  /\ g_last_alloc' = b
WireAllocation(b) ==
  /\ next' = Poke(Poke(next, g_last_alloc, b), b, NULL)
  /\ prev' = Poke(prev, b, g_last_alloc)
  /\ base' = Poke(base, b, b)
  /\ g_last_alloc' = b

\* The list head after user_ptr = p is unlinked
\* (mutants: the head is not updated; the head is reset).
HeadKept(p) == g_last_alloc
HeadReset(p) == IF g_last_alloc = p THEN NULL ELSE g_last_alloc
HeadAfterFree(p) == IF g_last_alloc = p THEN prev[p] ELSE g_last_alloc

\* Word f when the neighbour x of a freed block is patched with v
\* (mutant: it is not).
UnlinkForgotten(f, x, v) == f
Unlink(f, x, v) == Poke(f, x, v)

\* real_free(x) leaves the words of x to the real allocator.
Scribble(f, x) == Poke(f, x, JUNK)

\* Word f when p is realloc'ed to q: the bytes move with the block, but the
\* new header is taken to be the first three words, which hold padding if the
\* block was padded.
Carried(f, p, q) ==
  Poke(Scribble(f, p), q, IF p \in padded THEN JUNK ELSE f[p])

--------------------------------------------------------------------------------
(* The allocation functions while a sandbox is applied. *)

InSandbox == g_sandboxed /\ ~wild

\* The blocks sandboxed code has pointers to.
Nameable ==
  IF "free_foreign" \in Behaviour THEN {b \in Live : owner[b] /= HOST}
                                  ELSE Owned(current)

Allocate(b) ==
  /\ InSandbox
  /\ b \notin Live
  /\ WireAllocation(b)
  /\ owner' = [owner EXCEPT ![b] = current]
  /\ wild' = ~Neighbour(g_last_alloc)
  /\ UNCHANGED <<g_sandboxed, last_alloc_, current, freeing, ptr, nulled>>

\* sandbox_malloc, sandbox_calloc, realloc(nullptr, n), and sandbox_memalign
\* with an alignment of at most one word.
SandboxMalloc(b) == Allocate(b) /\ padded' = padded \ {b}

\* sandbox_memalign and what is built on it: three words rounded up to a
\* multiple of the alignment come before the user data.
SandboxMemalign(b) == Allocate(b) /\ padded' = padded \union {b}

\* sandbox_free(p), also realloc(p, 0).
SandboxFree(p) ==
  /\ InSandbox
  /\ p \in Nameable
  /\ next' = Scribble(Unlink(next, prev[p], next[p]), base[p])
  /\ prev' = Scribble(Unlink(prev, next[p], prev[p]), base[p])
  /\ base' = Scribble(base, base[p])
  /\ g_last_alloc' = HeadAfterFree(p)
  /\ owner' = Poke(owner, base[p], NULL)
  /\ wild' = ~(Neighbour(prev[p]) /\ Neighbour(next[p]) /\ base[p] \in Live)
  /\ UNCHANGED <<padded, g_sandboxed, last_alloc_, current, freeing, ptr, nulled>>

\* sandbox_realloc(p, n) with n > 0, whose block ends up at q.  Neither the
\* list head nor the base word is brought up to date.
SandboxRealloc(p, q) ==
  /\ InSandbox
  /\ p \in Nameable
  /\ p \in padded => "realloc_padded" \in Behaviour
  /\ q /= p => "realloc_moves" \in Behaviour /\ q \notin Live
  /\ next' = Poke(Carried(next, p, q), prev[p], q)
  /\ prev' = Poke(Carried(prev, p, q), next[p], q)
  /\ base' = Carried(base, p, q)
  /\ owner' = [owner EXCEPT ![p] = NULL, ![q] = owner[p]]
  /\ padded' = padded \ {p, q}
  /\ wild' = ~(Neighbour(prev[p]) /\ Neighbour(next[p]) /\ base[p] = p)
  /\ UNCHANGED <<g_last_alloc, g_sandboxed, last_alloc_, current, freeing, ptr, nulled>>

--------------------------------------------------------------------------------
(* The same functions on a null pointer.  The address the code computes from *)
(* it is no block's, and the neighbours are made to point there: JUNK.       *)

UseNull ==
  /\ wild' = TRUE /\ nulled' = TRUE
  /\ UNCHANGED <<base, owner, padded, g_last_alloc, g_sandboxed, last_alloc_, current,
                 freeing, ptr>>

\* The real malloc, calloc or memalign returns NULL, which is not tested:
\* wire_allocation links the head to it, and writes behind it.
AllocateFails ==
  /\ InSandbox
  /\ next' = Poke(next, g_last_alloc, JUNK)
  /\ prev' = prev
  /\ UseNull

\* The real realloc returns NULL and leaves p as it was: both neighbours are
\* patched, and its address plus three words is returned.
ReallocFails(p) ==
  /\ InSandbox
  /\ p \in Nameable
  /\ p \in padded => "realloc_padded" \in Behaviour
  /\ next' = Poke(next, prev[p], JUNK)
  /\ prev' = Poke(prev, next[p], JUNK)
  /\ UseNull

\* sandbox_free(nullptr) reads the words of a header there is not.
FreeNull ==
  /\ InSandbox
  /\ UNCHANGED <<next, prev>>
  /\ UseNull

\* sandbox_posix_memalign of no bytes, or of more than there are: the one
\* function that tests what it gets returns before anything is wired.
PosixMemalignReturns == InSandbox /\ UNCHANGED vars

--------------------------------------------------------------------------------
(* The main program, between two applications of a sandbox. *)

Outside == ~g_sandboxed /\ freeing = NULL /\ ~wild

HostMalloc(b) ==
  /\ Outside
  /\ b \notin Live
  /\ owner' = [owner EXCEPT ![b] = HOST]
  /\ padded' = padded \ {b}
  /\ UNCHANGED <<next, prev, base, g_last_alloc, g_sandboxed, last_alloc_,
                 current, freeing, ptr, wild, nulled>>

HostFree(b) ==
  /\ Outside
  /\ owner[b] = HOST
  /\ owner' = [owner EXCEPT ![b] = NULL]
  /\ UNCHANGED <<next, prev, base, padded, g_last_alloc, g_sandboxed,
                 last_alloc_, current, freeing, ptr, wild, nulled>>

\* prepare(): the first half of applyVoid(), whose guard exits the process
\* when a sandbox is already applied.
Prepare(s) ==
  /\ Outside
  /\ g_last_alloc' = last_alloc_[s]
  /\ g_sandboxed' = TRUE
  /\ current' = s
  /\ UNCHANGED <<next, prev, base, owner, padded, last_alloc_, freeing, ptr, wild, nulled>>

\* cleanup(), at the end of applyVoid() or from cleanupFailedApply().
Cleanup ==
  /\ InSandbox
  /\ g_sandboxed' = FALSE
  /\ last_alloc_' = [last_alloc_ EXCEPT ![current] = g_last_alloc]
  /\ g_last_alloc' = NULL
  /\ current' = NULL
  /\ UNCHANGED <<next, prev, base, owner, padded, freeing, ptr, wild, nulled>>

\* MemorySandbox::free(): enter the loop, one iteration, leave it.
FreeBegin(s) ==
  /\ Outside
  /\ freeing' = s
  /\ ptr' = last_alloc_[s]
  /\ UNCHANGED <<next, prev, base, owner, padded, g_last_alloc, g_sandboxed,
                 last_alloc_, current, wild, nulled>>

\* The mutant reads the node after it was given back.
CursorReadAfterFree == Scribble(prev, base[ptr])[ptr]
NextCursor == prev[ptr]

FreeStep ==
  /\ freeing /= NULL /\ ptr /= NULL /\ ~wild
  /\ owner' = Poke(owner, base[ptr], NULL)
  /\ next' = Scribble(next, base[ptr])
  /\ prev' = Scribble(prev, base[ptr])
  /\ base' = Scribble(base, base[ptr])
  /\ ptr' = NextCursor
  /\ wild' = ~(ptr \in Live /\ base[ptr] \in Live)
  /\ UNCHANGED <<padded, g_last_alloc, g_sandboxed, last_alloc_, current, freeing, nulled>>

FreeEnd ==
  /\ freeing /= NULL /\ ptr = NULL /\ ~wild
  /\ last_alloc_' = [last_alloc_ EXCEPT ![freeing] = NULL]
  /\ freeing' = NULL
  /\ UNCHANGED <<next, prev, base, owner, padded, g_last_alloc, g_sandboxed,
                 current, ptr, wild, nulled>>

\* The owners of the blocks when the lists of s and t change hands.
Exchanged(s, t) ==
  [b \in Block |-> CASE owner[b] = s -> t [] owner[b] = t -> s [] OTHER -> owner[b]]

\* Move construction and move assignment of s into t.  The program assigns
\* only to sandboxes that hold nothing: the list of t would be dropped.
Move(s, t) ==
  /\ Outside
  /\ s /= t /\ last_alloc_[t] = NULL
  /\ last_alloc_' = [last_alloc_ EXCEPT ![t] = last_alloc_[s], ![s] = NULL]
  /\ owner' = Exchanged(s, t)
  /\ UNCHANGED <<next, prev, base, padded, g_last_alloc, g_sandboxed, current,
                 freeing, ptr, wild, nulled>>

Swap(s, t) ==
  /\ Outside
  /\ s /= t
  /\ last_alloc_' = [last_alloc_ EXCEPT ![s] = last_alloc_[t], ![t] = last_alloc_[s]]
  /\ owner' = Exchanged(s, t)
  /\ UNCHANGED <<next, prev, base, padded, g_last_alloc, g_sandboxed, current,
                 freeing, ptr, wild, nulled>>

Next ==
  \/ \E b \in Block : \/ SandboxMalloc(b) \/ SandboxMemalign(b) \/ SandboxFree(b)
                      \/ ReallocFails(b) \/ HostMalloc(b) \/ HostFree(b)
  \/ AllocateFails \/ FreeNull \/ PosixMemalignReturns
  \/ \E p, q \in Block : SandboxRealloc(p, q)
  \/ \E s \in Sandbox : Prepare(s) \/ FreeBegin(s)
  \/ \E s, t \in Sandbox : Move(s, t) \/ Swap(s, t)
  \/ Cleanup \/ FreeStep \/ FreeEnd

Spec == Init /\ [][Next]_vars

--------------------------------------------------------------------------------
TypeOK ==
  /\ next \in [Block -> Word] /\ prev \in [Block -> Word] /\ base \in [Block -> Word]
  /\ owner \in [Block -> Sandbox \union {HOST, NULL}]
  /\ padded \subseteq Block
  /\ g_last_alloc \in Pointer
  /\ g_sandboxed \in BOOLEAN
  /\ last_alloc_ \in [Sandbox -> Pointer]
  /\ current \in Sandbox \union {NULL}
  /\ freeing \in Sandbox \union {NULL}
  /\ ptr \in Pointer
  /\ wild \in BOOLEAN /\ nulled \in BOOLEAN

\* Where the list of s starts now: its head is in g_last_alloc while s is
\* applied, and in the cursor of the loop while s is freed.
Head(s) == IF s = freeing THEN ptr
           ELSE IF s = current THEN g_last_alloc
           ELSE last_alloc_[s]

\* T holds the head of s and the previous node of each of its nodes.
HoldsList(s, T) ==
  /\ Head(s) \in Block => Head(s) \in T
  /\ \A b \in T : prev[b] \in Block => prev[b] \in T

\* The nodes of the list of s: the least such set.
Listed(s) == {b \in Block : \A T \in SUBSET Block : HoldsList(s, T) => b \in T}

\* "Holds a linked list of all non-freed allocations" (Algalloc.cpp:14): at
\* any time the list of a sandbox is exactly what was allocated under it and
\* not freed, so that free() gives back everything, once, and nothing else.
\* (As long as nothing undefined was done.)
ListHoldsNonFreed == ~wild => \A s \in Sandbox : Listed(s) = Owned(s)

\* "base address holds address of the start of allocated block (to pass to
\* underlying free())" (Algalloc.cpp:22), in every block a sandbox holds.
BaseAddressValid == \A b \in Block : owner[b] \in Sandbox => base[b] = b

\* The only accesses of the allocation functions, and of free(), to memory that
\* is not allocated are those through a null pointer, which C lets user code
\* free and the real allocator return (Algalloc.cpp:49, 70, 99, 130, 152): no
\* freed block is dereferenced or freed again over any mix of calls.
NoWildAccess == wild => nulled

\* The sandboxes keep what SandboxSpec promises: only the applied sandbox
\* obtains and gives back blocks, free() takes the blocks of its sandbox only,
\* and returns when none is left; a move or swap hands over all of them.
Abstract == INSTANCE SandboxSpec
  WITH held <- [s \in Sandbox |-> Owned(s)],
       active <- current,
       releasing <- freeing

ImplementsSandboxSpec == Abstract!Spec

================================================================================
