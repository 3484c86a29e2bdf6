---------------------------- MODULE AlgallocThreads ----------------------------
(***************************************************************************)
(* src/ALGAlloc once more, word by word and thread by thread: user code    *)
(* that runs in a sandbox may start threads, and some of them may go on    *)
(* after the call has ended.  g_last_alloc is read and written under       *)
(* g_last_alloc_mutex; g_sandboxed is read without it, and so are the      *)
(* neighbour words that sandbox_free() reads and patches.                  *)
(*                                                                         *)
(* One sandbox is applied and freed again and again.  While g_sandboxed is *)
(* false malloc() and free() are the real ones: their blocks have no       *)
(* header, and a block that is freed on the other side of prepare() or     *)
(* cleanup() than it was allocated on is freed the wrong way.              *)
(*                                                                         *)
(* Left out, since Algalloc has them: the base word, which only the thread *)
(* that wires or frees a block touches; and null pointers, be they freed   *)
(* or returned by a real allocator that has no memory left.                *)
(***************************************************************************)
EXTENDS FiniteSets

CONSTANTS
  Thread,  \* the threads user code allocates on
  Block,   \* the blocks the real allocator can hand out
  NULL,    \* nullptr, and "no thread"
  JUNK     \* the content of memory nobody wrote

ASSUME ThreadsAssumption ==
  /\ NULL \notin Thread \union Block
  /\ JUNK \notin Block /\ NULL /= JUNK

VARIABLES
  next, prev,             \* the header words of every block
  live,                   \* the blocks in use that have a header
  bare,                   \* those in use that have none: malloc'ed outside
  g_last_alloc, g_sandboxed,
  last_alloc_,            \* the head of the sandbox's list while it is not applied
  mutex,                  \* the thread that holds g_last_alloc_mutex, or NULL
  pc,                     \* what each thread does next
  user_ptr,               \* the block its call is about
  next_ptr, prev_ptr,     \* the local variables next and prev of sandbox_free()
  overlaps,               \* ghost: the kinds of calls that have overlapped, see below
  wild                    \* undefined behaviour happened

sandbox == <<g_last_alloc, g_sandboxed, last_alloc_, mutex>>
locals == <<user_ptr, next_ptr, prev_ptr>>
vars == <<next, prev, live, bare, sandbox, pc, locals, overlaps, wild>>

Init ==
  /\ next = [b \in Block |-> JUNK] /\ prev = [b \in Block |-> JUNK]
  /\ live = {} /\ bare = {}
  /\ g_last_alloc = NULL /\ g_sandboxed = FALSE /\ last_alloc_ = NULL
  /\ mutex = NULL
  /\ pc = [t \in Thread |-> "idle"]
  /\ user_ptr = [t \in Thread |-> NULL]
  /\ next_ptr = [t \in Thread |-> NULL] /\ prev_ptr = [t \in Thread |-> NULL]
  /\ overlaps = {}
  /\ wild = FALSE

--------------------------------------------------------------------------------
(* Calls that overlap. *)

At(t, l) == pc[t] = l /\ ~wild
Goto(t, l) == pc' = [pc EXCEPT ![t] = l]

\* The call ends, and its locals with it.
Return(t) ==
  /\ Goto(t, "idle")
  /\ user_ptr' = [user_ptr EXCEPT ![t] = NULL]
  /\ next_ptr' = [next_ptr EXCEPT ![t] = NULL]
  /\ prev_ptr' = [prev_ptr EXCEPT ![t] = NULL]

Wiring == {"link", "fill", "head"}
Mallocing == {"lock"} \union Wiring
Unlinking == {"read_next", "read_prev", "patch_prev", "patch_next", "update_head"}
Freeing == Unlinking \union {"release"}

Adjacent(p, q) == q \in {next[p], prev[p]} \/ p \in {next[q], prev[q]}

(***************************************************************************)
(* "neighbours": blocks next to each other are being unlinked.             *)
(* "newest": the head is being unlinked while another block is wired.      *)
(* "late_malloc", "late_free": the sandbox is left while a thread is about *)
(* to wire or free a block, since it saw g_sandboxed true.                 *)
(* "wrong_side": a block is freed on the other side of prepare() or        *)
(* cleanup() than it was malloc'ed on (FreeAcross, below, notes that).     *)
(***************************************************************************)
Overlapping ==
  {"neighbours" : t \in {t \in Thread : pc[t] \in Unlinking /\
     \E u \in Thread \ {t} : pc[u] \in Unlinking /\ Adjacent(user_ptr[t], user_ptr[u])}}
  \union
  {"newest" : t \in {t \in Thread : pc[t] \in Unlinking /\ user_ptr[t] = g_last_alloc /\
     \E u \in Thread : pc[u] \in Wiring}}
  \union
  {"late_malloc" : t \in {t \in Thread : pc[t] \in Mallocing /\ ~g_sandboxed}}
  \union
  {"late_free" : t \in {t \in Thread : pc[t] \in Freeing /\ ~g_sandboxed}}

Observe == overlaps' = overlaps \union Overlapping'

\* A store through pointer x, behind its null test, to its word f; a load of it.
Store(f, x, v) == [b \in Block |-> IF b = x THEN v ELSE f[b]]
Valid(x) == x \in live

--------------------------------------------------------------------------------
(* malloc() in a sandbox: real_malloc(), then wire_allocation(). *)

MallocBegin(t, b) ==
  /\ At(t, "idle") /\ g_sandboxed
  /\ b \notin live \union bare
  /\ live' = live \union {b}
  /\ user_ptr' = [user_ptr EXCEPT ![t] = b]
  /\ Goto(t, "lock")
  /\ UNCHANGED <<next, prev, bare, sandbox, next_ptr, prev_ptr, wild>>

\* (Mutant: the mutex is not waited for.)
LockUnchecked(t) ==
  /\ At(t, "lock")
  /\ mutex' = t
  /\ Goto(t, "link")
  /\ UNCHANGED <<next, prev, live, bare, g_last_alloc, g_sandboxed, last_alloc_, locals, wild>>
Lock(t) ==
  /\ At(t, "lock") /\ mutex = NULL
  /\ mutex' = t
  /\ Goto(t, "link")
  /\ UNCHANGED <<next, prev, live, bare, g_last_alloc, g_sandboxed, last_alloc_, locals, wild>>

Link(t) ==
  /\ At(t, "link")
  /\ next' = Store(next, g_last_alloc, user_ptr[t])
  /\ wild' = (g_last_alloc /= NULL /\ ~Valid(g_last_alloc))
  /\ Goto(t, "fill")
  /\ UNCHANGED <<prev, live, bare, sandbox, locals>>

Fill(t) ==
  /\ At(t, "fill")
  /\ next' = Store(next, user_ptr[t], NULL)
  /\ prev' = Store(prev, user_ptr[t], g_last_alloc)
  /\ Goto(t, "head")
  /\ UNCHANGED <<live, bare, sandbox, locals, wild>>

\* g_last_alloc = user_ptr, and the lock_guard's end (mutant: it never ends).
NewHeadLocked(t) ==
  /\ At(t, "head")
  /\ g_last_alloc' = user_ptr[t]
  /\ Return(t)
  /\ UNCHANGED <<next, prev, live, bare, g_sandboxed, last_alloc_, mutex, wild>>
NewHead(t) ==
  /\ At(t, "head")
  /\ g_last_alloc' = user_ptr[t]
  /\ mutex' = NULL
  /\ Return(t)
  /\ UNCHANGED <<next, prev, live, bare, g_sandboxed, last_alloc_, wild>>

--------------------------------------------------------------------------------
(* free() in a sandbox. *)

\* A block is freed once: by no thread while another frees it or is still
\* to be given it.
InNoCall(b) == \A u \in Thread : pc[u] /= "idle" => user_ptr[u] /= b

FreeBegin(t, b) ==
  /\ At(t, "idle") /\ g_sandboxed
  /\ b \in live /\ InNoCall(b)
  /\ user_ptr' = [user_ptr EXCEPT ![t] = b]
  /\ Goto(t, "read_next")
  /\ UNCHANGED <<next, prev, live, bare, sandbox, next_ptr, prev_ptr, wild>>

ReadNext(t) ==
  /\ At(t, "read_next")
  /\ next_ptr' = [next_ptr EXCEPT ![t] = next[user_ptr[t]]]
  /\ wild' = ~Valid(user_ptr[t])
  /\ Goto(t, "read_prev")
  /\ UNCHANGED <<next, prev, live, bare, sandbox, user_ptr, prev_ptr>>

ReadPrev(t) ==
  /\ At(t, "read_prev")
  /\ prev_ptr' = [prev_ptr EXCEPT ![t] = prev[user_ptr[t]]]
  /\ wild' = ~Valid(user_ptr[t])
  /\ Goto(t, "patch_prev")
  /\ UNCHANGED <<next, prev, live, bare, sandbox, user_ptr, next_ptr>>

PatchPrev(t) ==
  /\ At(t, "patch_prev")
  /\ next' = Store(next, prev_ptr[t], next_ptr[t])
  /\ wild' = (prev_ptr[t] /= NULL /\ ~Valid(prev_ptr[t]))
  /\ Goto(t, "patch_next")
  /\ UNCHANGED <<prev, live, bare, sandbox, locals>>

PatchNext(t) ==
  /\ At(t, "patch_next")
  /\ prev' = Store(prev, next_ptr[t], prev_ptr[t])
  /\ wild' = (next_ptr[t] /= NULL /\ ~Valid(next_ptr[t]))
  /\ Goto(t, "update_head")
  /\ UNCHANGED <<next, live, bare, sandbox, locals>>

\* The whole critical section: all of it works on g_last_alloc.
UpdateHead(t) ==
  /\ At(t, "update_head") /\ mutex = NULL
  /\ g_last_alloc' = IF g_last_alloc = user_ptr[t] THEN prev_ptr[t] ELSE g_last_alloc
  /\ Goto(t, "release")
  /\ UNCHANGED <<next, prev, live, bare, g_sandboxed, last_alloc_, mutex, locals, wild>>

\* real_free(), which makes its own use of the words.
Release(t) ==
  /\ At(t, "release")
  /\ live' = live \ {user_ptr[t]}
  /\ next' = Store(next, user_ptr[t], JUNK) /\ prev' = Store(prev, user_ptr[t], JUNK)
  /\ wild' = ~Valid(user_ptr[t])
  /\ Return(t)
  /\ UNCHANGED <<bare, sandbox>>

--------------------------------------------------------------------------------
(* malloc() and free() while no sandbox is applied, by user code's threads   *)
(* that go on, or by the program.                                            *)

PlainMalloc(t, b) ==
  /\ At(t, "idle") /\ ~g_sandboxed
  /\ b \notin live \union bare
  /\ bare' = bare \union {b}
  /\ UNCHANGED <<next, prev, live, sandbox, pc, locals, wild>>

PlainFree(t, b) ==
  /\ At(t, "idle") /\ ~g_sandboxed
  /\ b \in bare
  /\ bare' = bare \ {b}
  /\ UNCHANGED <<next, prev, live, sandbox, pc, locals, wild>>

\* real_free() is given the address behind a header, which no block starts at;
\* or sandbox_free() takes for a header what lies before a block without one.
FreeAcross(t, b) ==
  /\ At(t, "idle") /\ InNoCall(b)
  /\ b \in (IF g_sandboxed THEN bare ELSE live)
  /\ wild' = TRUE
  /\ overlaps' = overlaps \union {"wrong_side"}
  /\ UNCHANGED <<next, prev, live, bare, sandbox, pc, locals>>

--------------------------------------------------------------------------------
(* The guarded call around them, and what follows it. *)

Prepare ==
  /\ ~g_sandboxed /\ mutex = NULL /\ ~wild
  /\ g_last_alloc' = last_alloc_
  /\ g_sandboxed' = TRUE
  /\ UNCHANGED <<next, prev, live, bare, last_alloc_, mutex, pc, locals, wild>>

\* The worker does not wait for the other threads.  (Mutant: g_last_alloc
\* goes on naming the sandbox's newest block.)
CleanupKeepsHead ==
  /\ g_sandboxed /\ mutex = NULL /\ ~wild
  /\ g_sandboxed' = FALSE
  /\ last_alloc_' = g_last_alloc
  /\ UNCHANGED <<next, prev, live, bare, g_last_alloc, mutex, pc, locals, wild>>
Cleanup ==
  /\ g_sandboxed /\ mutex = NULL /\ ~wild
  /\ g_sandboxed' = FALSE
  /\ last_alloc_' = g_last_alloc
  /\ g_last_alloc' = NULL
  /\ UNCHANGED <<next, prev, live, bare, mutex, pc, locals, wild>>

\* The list that starts at h: the least set with h and the previous node of
\* each of its nodes.
ListFrom(h) ==
  {b \in Block : \A T \in SUBSET Block :
     /\ h \in Block => h \in T
     /\ \A c \in T : prev[c] \in Block => prev[c] \in T
     => b \in T}

\* MemorySandbox::free(), on the main thread.
FreeAll ==
  /\ ~g_sandboxed /\ last_alloc_ /= NULL /\ ~wild
  /\ LET freed == ListFrom(last_alloc_)
     IN  /\ live' = live \ freed
         /\ next' = [b \in Block |-> IF b \in freed THEN JUNK ELSE next[b]]
         /\ prev' = [b \in Block |-> IF b \in freed THEN JUNK ELSE prev[b]]
         /\ wild' = ~(last_alloc_ \in Block /\ freed \subseteq live)
  /\ last_alloc_' = NULL
  /\ UNCHANGED <<bare, g_last_alloc, g_sandboxed, mutex, pc, locals>>

Step(t) ==
  \/ \E b \in Block : \/ MallocBegin(t, b) \/ FreeBegin(t, b)
                      \/ PlainMalloc(t, b) \/ PlainFree(t, b)
  \/ Lock(t) \/ Link(t) \/ Fill(t) \/ NewHead(t)
  \/ ReadNext(t) \/ ReadPrev(t) \/ PatchPrev(t) \/ PatchNext(t)
  \/ UpdateHead(t) \/ Release(t)

Next ==
  \/ /\ (\E t \in Thread : Step(t)) \/ Prepare \/ Cleanup \/ FreeAll
     /\ Observe
  \/ \E t \in Thread, b \in Block : FreeAcross(t, b)

Spec == Init /\ [][Next]_vars

--------------------------------------------------------------------------------
\* No block has a header and has none; the mutex is held by exactly the thread
\* that is wiring.
TypeOK ==
  /\ next \in [Block -> Block \union {NULL, JUNK}]
  /\ prev \in [Block -> Block \union {NULL, JUNK}]
  /\ live \subseteq Block /\ bare \subseteq Block \ live
  /\ g_last_alloc \in Block \union {NULL, JUNK}
  /\ last_alloc_ \in Block \union {NULL, JUNK}
  /\ g_sandboxed \in BOOLEAN /\ wild \in BOOLEAN
  /\ pc \in [Thread -> {"idle"} \union Mallocing \union Freeing]
  /\ user_ptr \in [Thread -> Block \union {NULL}]
  /\ {t \in Thread : pc[t] \in Wiring} = {mutex} \ {NULL}

Quiet == \A t \in Thread : pc[t] = "idle"
Head == IF g_sandboxed THEN g_last_alloc ELSE last_alloc_

\* Whatever the threads interleave, as long as no two neighbours are freed at
\* once, the newest block is not freed while another is allocated, and all
\* calls end within the sandboxed call: when the threads pause, the list is
\* "all non-freed allocations" (Algalloc.cpp:14).  Frees on both sides of a
\* block, and frees elsewhere during an allocation, do not disturb each other,
\* and what is malloc'ed and freed outside stays out of it.
ListExactWhenQuiet ==
  overlaps = {} /\ Quiet /\ ~wild => ListFrom(Head) = live

\* An allocation that is overtaken by the end of the call is at worst lost, or
\* charged to the next call: it never puts a freed block into the list of the
\* sandbox or breaks that list's links, and no access to a header is undefined
\* (Algalloc.cpp:56 reads g_sandboxed outside the mutex that cleanup() takes).
\* That holds as long as each block is freed on the side it was malloc'ed on:
\* free() decides by where it is called (lines 86, 87), not by the block, and
\* so a thread that outlives the call can make any free() undefined.
LateMallocHarmless ==
  overlaps \subseteq {"late_malloc"} =>
    /\ ~wild
    /\ Quiet => \A b \in ListFrom(Head) :
                  b \in live /\ (prev[b] \in Block => next[prev[b]] = b)

================================================================================
