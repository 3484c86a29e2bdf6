------------------------- MODULE AlgallocThreadsProofs -------------------------
(***************************************************************************)
(* malloc() and free() on any number of threads over any set of blocks.    *)
(*                                                                         *)
(* The inductive invariant says what the words of the listed blocks and    *)
(* the locals of each thread owe each other while calls are going on.  A   *)
(* block that is being unlinked goes through three stages: linked both     *)
(* ways; Skipped, once its previous block points past it; and Passed, once *)
(* its next one does.  Along both words the blocks rise, so that no list   *)
(* has a cycle, and with one head only no listed block is outside of it.   *)
(***************************************************************************)
EXTENDS AlgallocThreads, NaturalRecursion

\* The blocks of the threads at one of these statements.
Of(places) == {user_ptr[t] : t \in {t \in Thread : pc[t] \in places}}

\* Allocated and not wired; unlinked and not yet given back; in a list.
New == Of({"lock", "link", "fill"})
Gone == Of({"release"})
Listed == live \ (New \union Gone)

\* Blocks their previous node does not point to any more; and their next.
Skipped == Of({"patch_next", "update_head"})
Passed == Of({"update_head"})

\* Blocks that are being unlinked; that are being wired, and how far.
Leaving == Of(Unlinking)
Wired == Of(Wiring)
Filling == Of({"fill"})
Joining == Of({"head"})

\* Types, and who holds the mutex.
Typed ==
  /\ TypeOK
  /\ mutex \in Thread \union {NULL}
  /\ next_ptr \in [Thread -> Block \union {NULL, JUNK}]
  /\ prev_ptr \in [Thread -> Block \union {NULL, JUNK}]
  /\ \A t \in Thread : pc[t] /= "idle" => user_ptr[t] \in Block

\* What overlaps now has been noted.
Seen == Overlapping \subseteq overlaps

\* A block of a call is allocated, and is of no other call.
Owned ==
  /\ wild = FALSE
  /\ \A t \in Thread : pc[t] /= "idle" => user_ptr[t] \in live
  /\ \A t, u \in Thread : pc[t] /= "idle" /\ pc[u] /= "idle" /\ t /= u => user_ptr[t] /= user_ptr[u]

\* The locals of sandbox_free() are still what the words say, and what
\* wire_allocation() has written is still there.
Local(t) ==
  /\ pc[t] \in {"read_prev", "patch_prev", "patch_next", "update_head"} =>
       next_ptr[t] = next[user_ptr[t]]
  /\ pc[t] \in {"patch_prev", "patch_next", "update_head"} =>
       prev_ptr[t] = prev[user_ptr[t]]
  /\ pc[t] = "fill" /\ g_last_alloc /= NULL => next[g_last_alloc] = user_ptr[t]
  /\ pc[t] = "head" => next[user_ptr[t]] = NULL /\ prev[user_ptr[t]] = g_last_alloc

\* The words of listed blocks lead to listed ones, but for the head's while a block
\* is wired to it.
Into ==
  \A b \in Listed :
    /\ prev[b] \in Listed \union {NULL}
    /\ \/ next[b] \in Listed \union {NULL}
       \/ b = g_last_alloc /\ next[b] \in Filling

\* A block's previous one points to it, or past it once it is Skipped; no two
\* skip the same, nor the newest block or the one that is wired.
Back ==
  /\ \A b \in Listed \ Skipped : prev[b] /= NULL => next[prev[b]] = b
  /\ \A b \in Skipped : prev[b] /= NULL => next[prev[b]] = next[b]
  /\ \A b, c \in Skipped : prev[b] = prev[c] /\ prev[b] /= NULL => b = c
  /\ \A b \in Skipped : prev[b] /= NULL => prev[b] \notin {g_last_alloc} \union Wired

\* A block's next one points back to it: or past it once it is Passed, or to a
\* block between them that is Skipped.
Forth ==
  \A b \in Listed : next[b] \in Listed =>
    LET c == prev[next[b]]
    IN  IF b \in Passed THEN c = prev[b] ELSE c = b \/ (c \in Skipped \ Passed /\ prev[c] = b)

\* Where the head of the applied list is, and the head of the kept one.
Heads ==
  /\ g_last_alloc /= NULL => /\ g_last_alloc \in Listed
                             /\ next[g_last_alloc] \in {NULL} \union Filling \union Joining
  /\ ~g_sandboxed /\ last_alloc_ /= NULL =>
       /\ last_alloc_ \in Listed /\ next[last_alloc_] = NULL
       /\ last_alloc_ /= g_last_alloc /\ last_alloc_ \notin Joining

\* Ranks that rise along both words.
Rises(r, N) ==
  /\ r \in [Block -> 0 .. N]
  /\ \A b \in Listed : /\ prev[b] /= NULL => r[prev[b]] < r[b]
                       /\ next[b] /= NULL => r[b] < r[next[b]]

Linked == Owned /\ (\A t \in Thread : Local(t)) /\ Into /\ Back /\ Forth /\ Heads
          /\ \E N \in Nat : \E r \in [Block -> 0 .. N] : Rises(r, N)

\* Only the head has no next block, the one that is about to be the head, or the
\* one that is once the head is unlinked.  Outside the call there is no newest
\* block.
OneHead ==
  /\ \A b \in Listed : next[b] = NULL =>
       b = Head \/ b \in Joining \/ (Head \in Skipped /\ prev[Head] = b)
  /\ ~g_sandboxed => g_last_alloc = NULL

\* As far as user code has not raced against itself.
IInv == Typed /\ Seen /\ (overlaps \subseteq {"late_malloc"} => Linked)
        /\ (overlaps = {} => OneHead)

--------------------------------------------------------------------------------
Stages == {"idle"} \union Mallocing \union Freeing

\* The stages of a thread.
LEMMA StagesAre ==
  Stages = {"idle", "lock", "link", "fill", "head", "read_next", "read_prev", "patch_prev",
            "patch_next", "update_head", "release"}
BY DEF Stages, Mallocing, Wiring, Freeing, Unlinking

\* A store changes one word of one block, or none.
LEMMA Stored ==
  ASSUME NEW f \in [Block -> Block \union {NULL, JUNK}], NEW x, NEW v \in Block \union {NULL, JUNK}
  PROVE  /\ Store(f, x, v) \in [Block -> Block \union {NULL, JUNK}]
         /\ \A b \in Block : Store(f, x, v)[b] = IF b = x THEN v ELSE f[b]
BY DEF Store

\* Every step of a thread keeps the types and the mutex.
LEMMA StepTyped ==
  ASSUME Typed, NEW t \in Thread, Step(t) PROVE Typed'
<1> USE ThreadsAssumption
<1>0. /\ next \in [Block -> Block \union {NULL, JUNK}]
      /\ prev \in [Block -> Block \union {NULL, JUNK}]
      /\ live \subseteq Block /\ bare \subseteq Block \ live
      /\ g_last_alloc \in Block \union {NULL, JUNK} /\ last_alloc_ \in Block \union {NULL, JUNK}
      /\ g_sandboxed \in BOOLEAN /\ wild \in BOOLEAN
      /\ pc \in [Thread -> Stages]
      /\ user_ptr \in [Thread -> Block \union {NULL}]
      /\ \A u \in Thread : pc[u] \in Wiring <=> u = mutex
      /\ mutex \in Thread \union {NULL}
      /\ next_ptr \in [Thread -> Block \union {NULL, JUNK}]
      /\ prev_ptr \in [Thread -> Block \union {NULL, JUNK}]
      /\ \A u \in Thread : pc[u] /= "idle" => user_ptr[u] \in Block
  BY DEF Typed, TypeOK, Stages
<1>1. ASSUME /\ next' \in [Block -> Block \union {NULL, JUNK}]
             /\ prev' \in [Block -> Block \union {NULL, JUNK}]
             /\ live' \subseteq Block /\ bare' \subseteq Block \ live' /\ g_last_alloc' \in Block \union {NULL, JUNK}
             /\ UNCHANGED <<last_alloc_, g_sandboxed>> /\ wild' \in BOOLEAN
             /\ mutex' \in Thread \union {NULL}
             /\ pc' \in [Thread -> Stages]
             /\ \A u \in Thread : pc'[u] \in Wiring <=> u = mutex'
             /\ user_ptr' \in [Thread -> Block \union {NULL}]
             /\ \A u \in Thread : pc'[u] /= "idle" => user_ptr'[u] \in Block
             /\ next_ptr' \in [Thread -> Block \union {NULL, JUNK}]
             /\ prev_ptr' \in [Thread -> Block \union {NULL, JUNK}]
      PROVE  Typed'
  BY <1>0, <1>1 DEF Typed, TypeOK, Stages
<1>2. ASSUME NEW b \in Block, MallocBegin(t, b) PROVE Typed'
  BY <1>0, <1>1, <1>2, StagesAre DEF MallocBegin, At, Goto, sandbox, Wiring
<1>3. ASSUME NEW b \in Block, FreeBegin(t, b) PROVE Typed'
  BY <1>0, <1>1, <1>3, StagesAre DEF FreeBegin, At, Goto, sandbox, Wiring
<1>4. CASE Lock(t)
  BY <1>0, <1>1, <1>4, StagesAre DEF Lock, At, Goto, locals, Wiring
<1>5. CASE Link(t)
  BY <1>0, <1>1, <1>5, StagesAre, Stored DEF Link, At, Goto, sandbox, locals, Wiring
<1>6. CASE Fill(t)
  BY <1>0, <1>1, <1>6, StagesAre, Stored DEF Fill, At, Goto, sandbox, locals, Wiring
<1>7. CASE NewHead(t)
  BY <1>0, <1>1, <1>7, StagesAre DEF NewHead, Return, At, Goto, Wiring
<1>8. CASE ReadNext(t)
  BY <1>0, <1>1, <1>8, StagesAre DEF ReadNext, At, Goto, sandbox, Wiring
<1>9. CASE ReadPrev(t)
  BY <1>0, <1>1, <1>9, StagesAre DEF ReadPrev, At, Goto, sandbox, Wiring
<1>10. CASE PatchPrev(t)
  BY <1>0, <1>1, <1>10, StagesAre, Stored DEF PatchPrev, At, Goto, sandbox, locals, Wiring
<1>11. CASE PatchNext(t)
  BY <1>0, <1>1, <1>11, StagesAre, Stored DEF PatchNext, At, Goto, sandbox, locals, Wiring
<1>12. CASE UpdateHead(t)
  BY <1>0, <1>1, <1>12, StagesAre DEF UpdateHead, At, Goto, locals, Wiring
<1>13. CASE Release(t)
  BY <1>0, <1>1, <1>13, StagesAre, Stored DEF Release, Return, At, Goto, sandbox, Wiring
<1>14. ASSUME NEW b \in Block, PlainMalloc(t, b) \/ PlainFree(t, b) PROVE Typed'
  BY <1>0, <1>1, <1>14 DEF PlainMalloc, PlainFree, sandbox, locals
<1> QED
  BY <1>2, <1>3, <1>4, <1>5, <1>6, <1>7, <1>8, <1>9, <1>10, <1>11, <1>12, <1>13, <1>14 DEF Step

\* So does a free() on the wrong side.
LEMMA AcrossTyped ==
  ASSUME Typed, NEW t \in Thread, NEW b \in Block, FreeAcross(t, b) PROVE Typed'
BY DEF Typed, TypeOK, FreeAcross, sandbox, locals

\* And so does every step of the call around them.
LEMMA CallTyped ==
  ASSUME Typed, Prepare \/ Cleanup \/ FreeAll PROVE Typed'
<1> USE ThreadsAssumption
<1>1. CASE Prepare \/ Cleanup
  BY <1>1 DEF Typed, TypeOK, Prepare, Cleanup, locals
<1>2. CASE FreeAll
  BY <1>2 DEF Typed, TypeOK, FreeAll, locals
<1> QED  BY <1>1, <1>2

--------------------------------------------------------------------------------
Safe == Typed /\ Seen /\ overlaps \subseteq {"late_malloc"} /\ Linked

\* A block is in the set of the statement its thread is at.
LEMMA OfMember ==
  ASSUME Owned, NEW t \in Thread, pc[t] /= "idle", NEW S, "idle" \notin S
  PROVE  user_ptr[t] \in Of(S) <=> pc[t] \in S
BY DEF Owned, Of

\* What has not overlapped does not overlap now.
LEMMA Apart ==
  ASSUME Safe
  PROVE  /\ \A t, u \in Thread : pc[t] \in Unlinking /\ pc[u] \in Unlinking /\ t /= u =>
              ~Adjacent(user_ptr[t], user_ptr[u])
         /\ \A t, u \in Thread : pc[t] \in Unlinking /\ pc[u] \in Wiring => user_ptr[t] /= g_last_alloc
         /\ \A t \in Thread : pc[t] \in Freeing => g_sandboxed
<1>1. "neighbours" \notin Overlapping /\ "newest" \notin Overlapping /\ "late_free" \notin Overlapping
  BY DEF Safe, Seen
<1>2. \A t, u \in Thread : pc[t] \in Unlinking /\ pc[u] \in Unlinking /\ t /= u =>
        ~Adjacent(user_ptr[t], user_ptr[u])
  BY <1>1 DEF Overlapping
<1>3. \A t, u \in Thread : pc[t] \in Unlinking /\ pc[u] \in Wiring => user_ptr[t] /= g_last_alloc
  BY <1>1 DEF Overlapping
<1>4. \A t \in Thread : pc[t] \in Freeing => g_sandboxed
  BY <1>1 DEF Overlapping
<1> QED  BY <1>2, <1>3, <1>4

\* How the sets of blocks lie in each other.
LEMMA Sets ==
  ASSUME Safe
  PROVE  /\ Listed \subseteq Block /\ live \subseteq Block /\ NULL \notin Block /\ JUNK \notin Block
         /\ Passed \subseteq Skipped /\ Skipped \subseteq Leaving /\ Leaving \subseteq Listed
         /\ Joining \subseteq Listed /\ Joining \subseteq Wired
         /\ Filling \subseteq New /\ Filling \subseteq Wired
         /\ New \intersect Listed = {} /\ Gone \intersect Listed = {}
         /\ Leaving \intersect Wired = {}
<1>1. Leaving \subseteq live /\ Joining \subseteq live
  BY DEF Of, Leaving, Joining, Safe, Linked, Owned, Unlinking
<1>2. /\ Leaving \intersect New = {} /\ Leaving \intersect Gone = {}
      /\ Leaving \intersect Wired = {}
      /\ Joining \intersect New = {} /\ Joining \intersect Gone = {}
  BY DEF Of, Leaving, Wired, Joining, New, Gone, Safe, Linked, Owned, Unlinking, Wiring
<1>3. Passed \subseteq Skipped /\ Skipped \subseteq Leaving
  BY DEF Passed, Skipped, Of, Leaving, Unlinking
<1>4. /\ Filling \subseteq New 
      /\ Filling \subseteq Wired /\ Joining \subseteq Wired
  BY DEF New, Of, Filling, Wired, Joining, Wiring
<1> QED  BY <1>1, <1>2, <1>3, <1>4, ThreadsAssumption DEF Listed, Safe, Typed, TypeOK

\* A block that is being unlinked, and those next to it.
LEMMA Neighbourhood ==
  ASSUME Safe, NEW t \in Thread, pc[t] \in Unlinking
  PROVE  LET x == user_ptr[t]
             n == next[x]
             p == prev[x]
         IN  /\ x \in Listed /\ n \in Listed \union {NULL} /\ p \in Listed \union {NULL}
             /\ x /= n /\ x /= p /\ (p /= NULL => p /= n)
             /\ \A z \in Leaving \ {x} : z /= n /\ z /= p /\ next[z] /= x /\ prev[z] /= x
             /\ x = g_last_alloc => Wired = {}
             /\ g_sandboxed
<1> DEFINE x == user_ptr[t]
           n == next[x]
           p == prev[x]
<1>1. x \in Leaving /\ x \in Listed
  BY Sets DEF Of, Leaving
<1>2. x = g_last_alloc => Wired = {}
  BY Apart DEF Of, Wired
<1>3. p \in Listed \union {NULL}
  BY <1>1 DEF Safe, Linked, Into
<1>4. n \in Listed \union {NULL}
  <2>1. CASE x = g_last_alloc /\ n \in Filling
    BY <1>2, <2>1, Sets
  <2> QED  BY <1>1, <2>1 DEF Safe, Linked, Into
<1>5. \A z \in Leaving \ {x} : z /= n /\ z /= p /\ next[z] /= x /\ prev[z] /= x
  <2> SUFFICES ASSUME NEW u \in Thread, pc[u] \in Unlinking, user_ptr[u] /= x
               PROVE  LET z == user_ptr[u]
                      IN  z /= n /\ z /= p /\ next[z] /= x /\ prev[z] /= x
    BY DEF Of, Leaving
  <2>1. ~Adjacent(x, user_ptr[u])
    BY Apart
  <2> QED  BY <2>1 DEF Adjacent
<1>6. x /= n /\ x /= p /\ (p /= NULL => p /= n)
  <2>1. PICK N \in Nat : \E r \in [Block -> 0 .. N] : Rises(r, N)
    BY DEF Safe, Linked
  <2>2. PICK r \in [Block -> 0 .. N] : Rises(r, N)
    BY <2>1
  <2>3. /\ p /= NULL => r[p] < r[x]
        /\ n /= NULL => r[x] < r[n]
    BY <1>1, <2>2 DEF Rises
  <2>4. r[x] \in Nat /\ (p /= NULL => r[p] \in Nat) /\ (n /= NULL => r[n] \in Nat) /\ x /= NULL
    BY <1>1, <1>3, <1>4, <2>2, Sets
  <2> QED  BY <2>3, <2>4
<1>7. g_sandboxed
  BY Apart DEF Freeing
<1> QED  BY <1>1, <1>2, <1>3, <1>4, <1>5, <1>6, <1>7

--------------------------------------------------------------------------------
\* A list begins with its head.
LEMMA ListStarts == \A h \in Block : h \in ListFrom(h)
BY DEF ListFrom

\* And goes on with the previous block of each.
LEMMA ListCloses ==
  ASSUME NEW h, NEW c \in ListFrom(h), prev[c] \in Block PROVE prev[c] \in ListFrom(h)
BY DEF ListFrom

\* It is the least such set.
LEMMA ListIsLeast ==
  ASSUME NEW h, NEW T \in SUBSET Block, h \in Block => h \in T,
         \A c \in T : prev[c] \in Block => prev[c] \in T
  PROVE  ListFrom(h) \subseteq T
BY DEF ListFrom

\* But for its head, each of its blocks is the previous one of another.
LEMMA ListBefore ==
  ASSUME NEW h, NEW b \in ListFrom(h), b /= h
  PROVE  \E c \in ListFrom(h) : prev[c] = b
<1> SUFFICES ASSUME \A c \in ListFrom(h) : prev[c] /= b PROVE FALSE
  OBVIOUS
<1> DEFINE T == ListFrom(h) \ {b}
<1>1. ListFrom(h) \subseteq Block
  BY DEF ListFrom
<1>2. h \in Block => h \in T
  BY ListStarts
<1>3. \A c \in T : prev[c] \in Block => prev[c] \in T
  BY ListCloses
<1>4. ListFrom(h) \subseteq T
  <2> HIDE DEF T
  <2>1. T \in SUBSET Block
    BY <1>1 DEF T
  <2> QED  BY <1>2, <1>3, <2>1, ListIsLeast
<1> QED  BY <1>4

\* x enters the set, or leaves it.
Changes(S, T, x, in) == S = IF in THEN T \union {x} ELSE T \ {x}

\* What a thread does to the sets of blocks when it goes on.
LEMMA Moves ==
  ASSUME Owned, NEW t \in Thread, pc[t] /= "idle", pc \in [Thread -> Stages],
         NEW l, pc' = [pc EXCEPT ![t] = l], user_ptr' = user_ptr
  PROVE  LET x == user_ptr[t]
         IN  /\ Changes(New', New, x, l \in {"lock", "link", "fill"})
             /\ Changes(Gone', Gone, x, l = "release")
             /\ Changes(Skipped', Skipped, x, l \in {"patch_next", "update_head"})
             /\ Changes(Passed', Passed, x, l = "update_head")
             /\ Changes(Filling', Filling, x, l = "fill")
             /\ Changes(Joining', Joining, x, l = "head")
             /\ Changes(Wired', Wired, x, l \in Wiring)
<1>1. Changes(New', New, user_ptr[t], l \in {"lock", "link", "fill"})
  BY DEF Owned, Of, New, Changes
<1>2. Changes(Gone', Gone, user_ptr[t], l = "release")
  BY DEF Owned, Of, Gone, Changes
<1>3. Changes(Skipped', Skipped, user_ptr[t], l \in {"patch_next", "update_head"})
  BY DEF Owned, Of, Skipped, Changes
<1>4. Changes(Passed', Passed, user_ptr[t], l = "update_head")
  BY DEF Owned, Of, Passed, Changes
<1>5. Changes(Filling', Filling, user_ptr[t], l = "fill")
  BY DEF Owned, Of, Filling, Changes
<1>6. Changes(Joining', Joining, user_ptr[t], l = "head")
  BY DEF Owned, Of, Joining, Changes
<1>7. Changes(Wired', Wired, user_ptr[t], l \in Wiring)
  BY DEF Owned, Of, Wired, Wiring, Changes
<1> QED  BY <1>1, <1>2, <1>3, <1>4, <1>5, <1>6, <1>7

\* A call ends.
LEMMA Returns ==
  ASSUME Owned, NEW t \in Thread, pc[t] /= "idle", pc \in [Thread -> Stages],
         user_ptr \in [Thread -> Block \union {NULL}],
         pc' = [pc EXCEPT ![t] = "idle"], user_ptr' = [user_ptr EXCEPT ![t] = NULL]
  PROVE  LET x == user_ptr[t]
         IN  /\ New' = New \ {x} /\ Gone' = Gone \ {x} /\ Skipped' = Skipped \ {x}
             /\ Passed' = Passed \ {x} /\ Filling' = Filling \ {x}
             /\ Joining' = Joining \ {x} /\ Wired' = Wired \ {x}
BY DEF Owned, Of, Wired, Filling, Joining, New, Gone, Skipped, Passed, Wiring

\* A call begins.
LEMMA Begins ==
  ASSUME NEW t \in Thread, pc[t] = "idle", pc \in [Thread -> Stages],
         user_ptr \in [Thread -> Block \union {NULL}],
         NEW l \in {"lock", "read_next"}, pc' = [pc EXCEPT ![t] = l],
         NEW b, user_ptr' = [user_ptr EXCEPT ![t] = b]
  PROVE  /\ New' = New \union (IF l = "lock" THEN {b} ELSE {})
         /\ Gone' = Gone /\ Skipped' = Skipped /\ Passed' = Passed
         /\ Filling' = Filling /\ Joining' = Joining
         /\ Wired' = Wired
<1>1. New' = New \union (IF l = "lock" THEN {b} ELSE {})
  BY DEF Of, New
<1>2. Gone' = Gone /\ Skipped' = Skipped
  BY DEF Of, Gone, Skipped
<1>3. Passed' = Passed /\ Filling' = Filling /\ Joining' = Joining
  BY DEF Of, Filling, Joining, Passed
<1>4. Wired' = Wired
  BY DEF Of, Wired, Wiring
<1> QED  BY <1>1, <1>2, <1>3, <1>4

\* In which sets the block of a thread is.
LEMMA Places ==
  ASSUME Owned, NEW t \in Thread, pc[t] /= "idle"
  PROVE  LET x == user_ptr[t]
         IN  /\ x \in New <=> pc[t] \in {"lock", "link", "fill"}
             /\ x \in Gone <=> pc[t] = "release"
             /\ x \in Skipped <=> pc[t] \in {"patch_next", "update_head"}
             /\ x \in Passed <=> pc[t] = "update_head"
             /\ x \in Filling <=> pc[t] = "fill"
             /\ x \in Joining <=> pc[t] = "head"
             /\ x \in Wired <=> pc[t] \in Wiring
             /\ x \in Leaving <=> pc[t] \in Unlinking
BY OfMember DEF New, Gone, Skipped, Passed, Wiring, Unlinking, Wired, Leaving, Filling,
   Joining

\* A thread in sandbox_free() goes on.
LEMMA Unlinks ==
  ASSUME Safe, NEW t \in Thread, pc[t] \in Unlinking, NEW l \in Freeing,
         pc' = [pc EXCEPT ![t] = l], user_ptr' = user_ptr, live' = live
  PROVE  LET x == user_ptr[t]
         IN  /\ Listed' = IF l = "release" THEN Listed \ {x} ELSE Listed
             /\ Filling' = Filling /\ Joining' = Joining /\ Wired' = Wired
             /\ Skipped' = IF l \in {"patch_next", "update_head"} THEN Skipped \union {x}
                           ELSE Skipped \ {x}
             /\ Passed' = IF l = "update_head" THEN Passed \union {x} ELSE Passed \ {x}
             /\ x \in Skipped <=> pc[t] \in {"patch_next", "update_head"}
             /\ x \in Passed <=> pc[t] = "update_head"
<1> DEFINE x == user_ptr[t]
<1>1. Owned /\ pc \in [Thread -> Stages] /\ pc[t] /= "idle"
  BY DEF Safe, Linked, Typed, TypeOK, Stages, Freeing, Unlinking
<1>2. /\ Changes(New', New, x, l \in {"lock", "link", "fill"})
      /\ Changes(Gone', Gone, x, l = "release")
      /\ Changes(Skipped', Skipped, x, l \in {"patch_next", "update_head"})
      /\ Changes(Passed', Passed, x, l = "update_head")
      /\ Changes(Filling', Filling, x, l = "fill")
      /\ Changes(Joining', Joining, x, l = "head")
      /\ Changes(Wired', Wired, x, l \in Wiring)
  BY <1>1, Moves
<1>3. /\ x \notin New /\ (x \in Gone <=> pc[t] = "release")
      /\ x \notin Filling /\ x \notin Joining /\ x \notin Wired
      /\ x \in Skipped <=> pc[t] \in {"patch_next", "update_head"}
      /\ x \in Passed <=> pc[t] = "update_head"
  BY <1>1, Places DEF Freeing, Unlinking, Wiring
<1>4. l \notin {"lock", "link", "fill", "head"}
  BY DEF Freeing, Unlinking
<1>5. New' = New /\ Filling' = Filling /\ Joining' = Joining /\ Wired' = Wired
  BY <1>2, <1>3, <1>4 DEF Changes, Wiring
<1>6. Gone' = IF l = "release" THEN Gone \union {x} ELSE Gone \ {x}
  BY <1>2 DEF Changes
<1>7. Listed' = IF l = "release" THEN Listed \ {x} ELSE live \ (New \union (Gone \ {x}))
  BY <1>5, <1>6 DEF Listed
<1>8. x \notin Gone
  BY <1>3 DEF Unlinking
<1> QED  BY <1>2, <1>3, <1>5, <1>7, <1>8 DEF Changes, Listed

\* A thread in wire_allocation() goes on.
LEMMA Wires ==
  ASSUME Safe, NEW t \in Thread, pc[t] \in {"lock", "link", "fill"}, NEW l \in Wiring,
         pc' = [pc EXCEPT ![t] = l], user_ptr' = user_ptr, live' = live
  PROVE  LET y == user_ptr[t]
         IN  /\ Listed' = IF l = "head" THEN Listed \union {y} ELSE Listed
             /\ Skipped' = Skipped /\ Passed' = Passed
             /\ Filling' = IF l = "fill" THEN Filling \union {y} ELSE Filling \ {y}
             /\ Joining' = IF l = "head" THEN Joining \union {y} ELSE Joining \ {y}
             /\ Wired' = Wired \union {y}
             /\ y \notin Listed /\ y \notin Joining
<1> DEFINE y == user_ptr[t]
<1>1. Owned /\ pc \in [Thread -> Stages] /\ pc[t] /= "idle" /\ y \in live
  BY DEF Safe, Linked, Owned, Typed, TypeOK, Stages
<1>2. /\ Changes(New', New, y, l \in {"lock", "link", "fill"})
      /\ Changes(Gone', Gone, y, l = "release")
      /\ Changes(Skipped', Skipped, y, l \in {"patch_next", "update_head"})
      /\ Changes(Passed', Passed, y, l = "update_head")
      /\ Changes(Filling', Filling, y, l = "fill")
      /\ Changes(Joining', Joining, y, l = "head")
      /\ Changes(Wired', Wired, y, l \in Wiring)
  BY <1>1, Moves
<1>3. y \in New /\ y \notin Gone /\ y \notin Skipped /\ y \notin Passed /\ y \notin Joining
  BY <1>1, Places
<1>4. l \in {"link", "fill", "head"}
  BY DEF Wiring
<1>5. /\ New' = IF l = "head" THEN New \ {y} ELSE New
      /\ Gone' = Gone /\ Skipped' = Skipped /\ Passed' = Passed
  BY <1>2, <1>3, <1>4 DEF Changes
<1>6. Listed' = (IF l = "head" THEN Listed \union {y} ELSE Listed) /\ y \notin Listed
  BY <1>1, <1>3, <1>5 DEF Listed
<1>7. /\ Filling' = IF l = "fill" THEN Filling \union {y} ELSE Filling \ {y}
      /\ Joining' = IF l = "head" THEN Joining \union {y} ELSE Joining \ {y}
      /\ Wired' = Wired \union {y}
  BY <1>2 DEF Changes
<1> QED  BY <1>3, <1>5, <1>6, <1>7

--------------------------------------------------------------------------------
\* There are ranks.
LEMMA Rising ==
  ASSUME Safe
  PROVE  \E N \in Nat : \E r \in [Block -> 0 .. N] : Rises(r, N)
BY DEF Safe, Linked

\* The previous block points past the one that is unlinked: it is Skipped now.
LEMMA PatchPrevKeeps ==
  ASSUME Safe, NEW t \in Thread, PatchPrev(t) PROVE Linked'
<1> DEFINE x == user_ptr[t]
           n == next[x]
           p == prev[x]
<1>1. /\ pc[t] = "patch_prev" /\ pc' = [pc EXCEPT ![t] = "patch_next"] /\ pc \in [Thread -> Stages]
      /\ UNCHANGED <<prev, live, sandbox, locals>> /\ user_ptr' = user_ptr
      /\ next_ptr[t] = n /\ prev_ptr[t] = p
      /\ next' = Store(next, p, n) /\ wild' = (p /= NULL /\ ~Valid(p))
  BY DEF PatchPrev, At, Goto, locals, Safe, Linked, Local, Typed, TypeOK, Stages
<1>2. /\ x \in Listed /\ n \in Listed \union {NULL} /\ p \in Listed \union {NULL}
      /\ x /= n /\ x /= p /\ (p /= NULL => p /= n)
      /\ \A z \in Leaving \ {x} : z /= n /\ z /= p /\ next[z] /= x /\ prev[z] /= x
      /\ x = g_last_alloc => Wired = {}
  BY <1>1, Neighbourhood DEF Unlinking
<1>3. /\ Listed' = Listed /\ Skipped' = Skipped \union {x} /\ Passed' = Passed /\ x \notin Skipped
      /\ Filling' = Filling /\ Joining' = Joining
      /\ Wired' = Wired
  <2>1. pc[t] \in Unlinking /\ "patch_next" \in Freeing /\ live' = live
    BY <1>1 DEF Freeing, Unlinking
  <2>2. /\ Listed' = IF "patch_next" = "release" THEN Listed \ {x} ELSE Listed
        /\ Skipped' = IF "patch_next" \in {"patch_next", "update_head"} THEN Skipped \union {x}
                      ELSE Skipped \ {x}
        /\ Passed' = IF "patch_next" = "update_head" THEN Passed \union {x} ELSE Passed \ {x}
        /\ x \in Skipped <=> pc[t] \in {"patch_next", "update_head"}
        /\ x \in Passed <=> pc[t] = "update_head"
        /\ Filling' = Filling /\ Joining' = Joining /\ Wired' = Wired
    BY <1>1, <2>1, Unlinks
  <2> QED  BY <1>1, <2>2
<1>4. \A b \in Block : next'[b] = IF b = p THEN n ELSE next[b]
  BY <1>1, <1>2, Sets, Stored DEF Safe, Typed, TypeOK
<1>5. Owned'
  <2>1. (p /= NULL /\ ~Valid(p)) = FALSE
    BY <1>2 DEF Valid, Listed
  <2>2. wild' = FALSE
    BY <1>1, <2>1, Zenon
  <2> QED  BY <1>1, <2>2 DEF Owned, Safe, Linked, Stages, locals
<1>6. ASSUME NEW u \in Thread PROVE Local(u)'
  <2>1. CASE u = t
    BY <1>1, <1>2, <1>4, <2>1, Sets DEF Local, sandbox, locals, Stages
  <2>2. CASE u /= t
    <3>1. Local(u) /\ pc'[u] = pc[u] /\ user_ptr[u] = user_ptr'[u]
      BY <1>1, <2>2 DEF Safe, Linked
    <3>2. CASE pc[u] \in Unlinking
      <4>1. user_ptr[u] \in Leaving \ {x} /\ user_ptr[u] \in Block
        BY <1>1, <2>2, <3>2, Sets DEF Of, Leaving, Safe, Linked, Owned, Unlinking
      <4>2. next'[user_ptr[u]] = next[user_ptr[u]]
        BY <1>2, <1>4, <4>1
      <4> QED  BY <1>1, <3>1, <3>2, <4>1, <4>2 DEF Local, locals, sandbox, Unlinking
    <3>3. CASE pc[u] = "fill"
      <4>1. g_last_alloc /= p \/ p = NULL
        <5>1. user_ptr[u] \notin Listed
          BY <3>3, Sets DEF Of, Filling
        <5>2. p /= NULL => next[p] = x
          BY <1>2, <1>3 DEF Safe, Linked, Back
        <5> QED  BY <1>2, <3>1, <3>3, <5>1, <5>2 DEF Local
      <4>2. g_last_alloc \in Listed \union {NULL}
        BY DEF Safe, Linked, Heads
      <4> QED  BY <1>1, <1>4, <3>1, <3>3, <4>1, <4>2, Sets DEF Local, locals, sandbox
    <3>4. CASE pc[u] = "head"
      <4>1. user_ptr[u] \in Listed
        BY <3>4, Sets DEF Of, Joining
      <4>2. user_ptr[u] /= p
        <5>1. p /= NULL => next[p] = x
          BY <1>2, <1>3 DEF Safe, Linked, Back
        <5> QED  BY <1>2, <3>1, <3>4, <4>1, <5>1, Sets DEF Local
      <4> QED  BY <1>1, <1>4, <3>1, <3>4, <4>1, <4>2, Sets DEF Local, locals, sandbox
    <3> QED  BY <3>1, <3>2, <3>3, <3>4 DEF Local, Unlinking
  <2> QED  BY <2>1, <2>2
<1>7. Into'
  BY <1>1, <1>2, <1>3, <1>4, Sets DEF Safe, Linked, Into, sandbox
<1>8. Back'
  <2>1. ASSUME NEW b \in Listed \ Skipped', prev[b] /= NULL PROVE next'[prev[b]] = b
    <3>1. b /= x /\ b \notin Skipped /\ prev[b] \in Listed
      BY <1>3, <2>1 DEF Safe, Linked, Into
    <3>2. next[prev[b]] = b
      BY <2>1, <3>1 DEF Safe, Linked, Back
    <3>3. p = prev[b] => FALSE
      BY <1>2, <1>3, <2>1, <3>1, <3>2 DEF Safe, Linked, Back
    <3> QED  BY <1>4, <3>1, <3>2, <3>3, Sets
  <2>2. ASSUME NEW b \in Skipped, prev[b] /= NULL
        PROVE  next'[prev[b]] = next'[b] /\ prev[b] /= p
    <3>1. b \in Leaving \ {x} /\ b \in Listed
      BY <1>3, Sets
    <3>2. next[prev[b]] = next[b] /\ prev[b] \in Listed
      BY <2>2, <3>1 DEF Safe, Linked, Back, Into
    <3>3. prev[b] /= p
      <4>1. p /= NULL => next[p] = x
        BY <1>2, <1>3 DEF Safe, Linked, Back
      <4> QED  BY <1>2, <2>2, <3>1, <3>2, <4>1
    <3> QED  BY <1>2, <1>4, <3>1, <3>2, <3>3, Sets
  <2>3. p /= NULL => next'[p] = next'[x]
    BY <1>2, <1>4, Sets
  <2>4. p /= NULL => p \notin {g_last_alloc} \union Wired
    <3> SUFFICES ASSUME p /= NULL, p \in {g_last_alloc} \union Wired PROVE FALSE
      OBVIOUS
    <3>1. next[p] = x
      BY <1>2, <1>3 DEF Safe, Linked, Back
    <3>2. x \notin Wired
      BY <1>1, Sets DEF Of, Wired, Leaving, Unlinking
    <3>3. CASE p = g_last_alloc
      BY <1>2, <3>1, <3>2, <3>3, Sets DEF Safe, Linked, Heads
    <3>4. CASE p \in Wired
      <4>1. PICK u \in Thread : pc[u] \in Wiring /\ user_ptr[u] = p
        BY <3>4 DEF Of, Wired
      <4>2. pc[u] = "head"
        BY <1>2, <4>1, Sets DEF Of, Joining, New, Wiring
      <4> QED  BY <1>2, <3>1, <4>1, <4>2, Sets DEF Safe, Linked, Local
    <3> QED  BY <3>3, <3>4
  <2>5. prev' = prev /\ g_last_alloc' = g_last_alloc
    BY <1>1 DEF sandbox
  <2>6. \A b, c \in Skipped : prev[b] = prev[c] /\ prev[b] /= NULL => b = c
    BY DEF Safe, Linked, Back
  <2>7. \A b \in Skipped : prev[b] /= NULL => prev[b] \notin {g_last_alloc} \union Wired
    BY DEF Safe, Linked, Back
  <2> QED  BY <1>3, <2>1, <2>2, <2>3, <2>4, <2>5, <2>6, <2>7 DEF Back
<1>9. Forth'
  <2> SUFFICES ASSUME NEW b \in Listed, next'[b] \in Listed
               PROVE  LET c == prev[next'[b]]
                      IN  IF b \in Passed THEN c = prev[b]
                          ELSE c = b \/ (c \in (Skipped \union {x}) \ Passed /\ prev[c] = b)
    BY <1>1, <1>3 DEF Forth
  <2>1. CASE b = p
    <3>1. next'[b] = n
      BY <1>4, <2>1, Sets
    <3>2. prev[n] = x
      <4>1. x \notin Passed
        BY <1>3, Sets
      <4>2. ~(prev[n] \in Skipped \ Passed /\ prev[prev[n]] = x)
        BY <1>2, <1>3, Sets
      <4> QED  BY <1>2, <3>1, <4>1, <4>2 DEF Safe, Linked, Forth
    <3>3. b \notin Passed /\ x \notin Passed
      BY <1>2, <1>3, <2>1, Sets
    <3> QED  BY <1>3, <2>1, <3>1, <3>2, <3>3
  <2>2. CASE b /= p
    BY <1>4, <2>2, Sets DEF Safe, Linked, Forth
  <2> QED  BY <2>1, <2>2
<1>10. Heads'
  <2>1. p /= NULL => next[p] = x
    BY <1>2, <1>3 DEF Safe, Linked, Back
  <2>2. x \notin (Filling \union Joining) /\ x /= NULL
    BY <1>1, <1>2, Sets DEF Of, Leaving, Filling, Joining, Unlinking
  <2>3. g_sandboxed /\ g_sandboxed' = g_sandboxed /\ g_last_alloc' = g_last_alloc
    BY <1>1, Neighbourhood DEF Unlinking, sandbox
  <2> QED  BY <1>2, <1>3, <1>4, <2>1, <2>2, <2>3, Sets DEF Safe, Linked, Heads
<1>11. (\E N \in Nat : \E r \in [Block -> 0 .. N] : Rises(r, N))'
  <2>1. PICK N \in Nat : \E r \in [Block -> 0 .. N] : Rises(r, N)
    BY Rising
  <2>2. PICK r \in [Block -> 0 .. N] : Rises(r, N)
    BY <2>1
  <2>3. ASSUME NEW b \in Listed
        PROVE  (prev[b] /= NULL => r[prev[b]] < r[b]) /\ (next'[b] /= NULL => r[b] < r[next'[b]])
    <3>1. (prev[b] /= NULL => r[prev[b]] < r[b]) /\ (next[b] /= NULL => r[b] < r[next[b]])
      BY <2>2 DEF Rises
    <3>2. CASE b = p
      <4>1. next'[b] = n /\ r[p] < r[x] /\ (n /= NULL => r[x] < r[n])
        BY <1>2, <1>4, <2>2, <3>2, Sets DEF Rises
      <4>2. r[p] \in Nat /\ r[x] \in Nat /\ (n /= NULL => r[n] \in Nat)
        BY <1>2, <3>2, <2>2, Sets
      <4> QED  BY <3>1, <3>2, <4>1, <4>2
    <3>3. CASE b /= p
      BY <1>4, <3>1, <3>3, Sets
    <3> QED  BY <3>2, <3>3
  <2>4. Rises(r, N)'
    BY <1>1, <1>3, <2>2, <2>3 DEF Rises
  <2> QED  BY <2>4
<1> QED  BY <1>5, <1>6, <1>7, <1>8, <1>9, <1>10, <1>11 DEF Linked

--------------------------------------------------------------------------------
\* The mutex is held: by one thread, and what it wires is not being unlinked.
LEMMA OneWires ==
  ASSUME Safe, NEW t \in Thread, pc[t] \in Wiring
  PROVE  /\ \A u \in Thread \ {t} : pc[u] \notin Wiring
         /\ Wired = {user_ptr[t]} /\ g_last_alloc \notin Leaving
         /\ Filling = (IF pc[t] = "fill" THEN {user_ptr[t]} ELSE {})
         /\ Joining = (IF pc[t] = "head" THEN {user_ptr[t]} ELSE {})
         /\ user_ptr[t] \in Block /\ user_ptr[t] \in live
<1>1. \A u \in Thread \ {t} : pc[u] \notin Wiring
  BY DEF Safe, Typed, TypeOK
<1>2. g_last_alloc \notin Leaving
  BY Apart DEF Leaving, Of
<1>3. Wired = {user_ptr[t]} /\ Filling = (IF pc[t] = "fill" THEN {user_ptr[t]} ELSE {})
  BY <1>1 DEF Wired, Filling, Of, Wiring
<1>4. Joining = (IF pc[t] = "head" THEN {user_ptr[t]} ELSE {})
  BY <1>1 DEF Joining, Of, Wiring
<1>5. user_ptr[t] \in live /\ live \subseteq Block
  BY DEF Wiring, Safe, Linked, Owned, Typed, TypeOK
<1> QED  BY <1>1, <1>2, <1>3, <1>4, <1>5

\* The mutex is free.
LEMMA NoneWires ==
  ASSUME Safe, mutex = NULL
  PROVE  /\ \A u \in Thread : pc[u] \notin Wiring
         /\ Wired = {} /\ Filling = {} /\ Joining = {}
<1>1. \A u \in Thread : pc[u] \notin Wiring
  BY DEF Safe, Typed, TypeOK
<1> QED  BY <1>1 DEF Wired, Filling, Joining, Of, Wiring

\* A thread's locals stay true if no one touches its words.
LEMMA LocalStays ==
  ASSUME NEW u \in Thread, Local(u), pc'[u] = pc[u], user_ptr'[u] = user_ptr[u],
         next_ptr'[u] = next_ptr[u], prev_ptr'[u] = prev_ptr[u],
         pc[u] \in Unlinking \union {"head"} =>
           next'[user_ptr[u]] = next[user_ptr[u]] /\ prev'[user_ptr[u]] = prev[user_ptr[u]],
         pc[u] \in {"fill", "head"} => g_last_alloc' = g_last_alloc,
         pc[u] = "fill" /\ g_last_alloc /= NULL => next'[g_last_alloc] = next[g_last_alloc]
  PROVE  Local(u)'
BY DEF Local, Unlinking

\* No word and no list changes.
LEMMA SameLists ==
  ASSUME Safe, UNCHANGED <<next, prev, g_last_alloc, g_sandboxed, last_alloc_>>,
         Listed' = Listed, Skipped' = Skipped, Passed' = Passed, Filling' = Filling,
         Joining' = Joining, Wired' \intersect Listed \subseteq Wired,
         Owned', \A u \in Thread : Local(u)'
  PROVE  Linked'
<1>1. Into'
  BY DEF Safe, Linked, Into
<1>2. Back'
  <2>1. \A b \in Skipped : prev[b] /= NULL => prev[b] \in Listed
    BY Sets DEF Safe, Linked, Into
  <2>2. \A b \in Skipped : prev[b] /= NULL => prev[b] \notin {g_last_alloc} \union Wired'
    BY <2>1 DEF Safe, Linked, Back
  <2> QED  BY <2>2 DEF Safe, Linked, Back
<1>3. Forth' /\ Heads'
  BY DEF Safe, Linked, Forth, Heads
<1>4. (\E N \in Nat : \E r \in [Block -> 0 .. N] : Rises(r, N))'
  <2>1. PICK N \in Nat : \E r \in [Block -> 0 .. N] : Rises(r, N)
    BY Rising
  <2>2. PICK r \in [Block -> 0 .. N] : Rises(r, N)
    BY <2>1
  <2>3. Rises(r, N)'
    BY <2>2 DEF Rises
  <2> QED  BY <2>3
<1> QED  BY <1>1, <1>2, <1>3, <1>4 DEF Linked

\* What most steps need of the invariant.
LEMMA Basics ==
  ASSUME Safe
  PROVE  /\ Owned /\ pc \in [Thread -> Stages] /\ user_ptr \in [Thread -> Block \union {NULL}]
         /\ next \in [Block -> Block \union {NULL, JUNK}]
         /\ prev \in [Block -> Block \union {NULL, JUNK}]
         /\ next_ptr \in [Thread -> Block \union {NULL, JUNK}]
         /\ prev_ptr \in [Thread -> Block \union {NULL, JUNK}]
         /\ \A u \in Thread : Local(u)
         /\ \A u \in Thread : pc[u] /= "idle" => user_ptr[u] \in live
         /\ \A u, v \in Thread : pc[u] /= "idle" /\ pc[v] /= "idle" /\ u /= v =>
              user_ptr[u] /= user_ptr[v]
BY DEF Safe, Linked, Owned, Typed, TypeOK, Stages

\* real_malloc() gives out a block that is in no list.
LEMMA MallocBeginKeeps ==
  ASSUME Safe, NEW t \in Thread, NEW b \in Block, MallocBegin(t, b) PROVE Linked'
<1>1. /\ pc[t] = "idle" /\ pc' = [pc EXCEPT ![t] = "lock"] /\ b \notin live
      /\ live' = live \union {b} /\ user_ptr' = [user_ptr EXCEPT ![t] = b]
      /\ UNCHANGED <<next, prev, g_last_alloc, g_sandboxed, last_alloc_, next_ptr, prev_ptr, wild>>
  BY DEF MallocBegin, At, Goto, sandbox
<1>2. /\ New' = New \union (IF "lock" = "lock" THEN {b} ELSE {})
      /\ Gone' = Gone /\ Skipped' = Skipped /\ Passed' = Passed
      /\ Filling' = Filling /\ Joining' = Joining /\ Wired' = Wired
  BY <1>1, Basics, Begins
<1>3. Listed' = Listed
  BY <1>1, <1>2 DEF Listed
<1>4. Owned'
  BY <1>1, Basics DEF Owned, Stages
<1>5. ASSUME NEW u \in Thread PROVE Local(u)'
  <2>1. CASE u = t
    BY <1>1, <2>1, Basics DEF Local
  <2>2. CASE u /= t
    BY <1>1, <2>2, Basics, LocalStays
  <2> QED  BY <2>1, <2>2
<1> QED  BY <1>1, <1>2, <1>3, <1>4, <1>5, SameLists

\* free() is called for a block no other call is about.
LEMMA FreeBeginKeeps ==
  ASSUME Safe, NEW t \in Thread, NEW b \in Block, FreeBegin(t, b) PROVE Linked'
<1>1. /\ pc[t] = "idle" /\ pc' = [pc EXCEPT ![t] = "read_next"]
      /\ b \in live /\ \A u \in Thread : pc[u] /= "idle" => user_ptr[u] /= b
      /\ live' = live /\ user_ptr' = [user_ptr EXCEPT ![t] = b]
      /\ UNCHANGED <<next, prev, g_last_alloc, g_sandboxed, last_alloc_, next_ptr, prev_ptr, wild>>
  BY DEF FreeBegin, InNoCall, At, Goto, sandbox
<1>2. /\ New' = New \union (IF "read_next" = "lock" THEN {b} ELSE {})
      /\ Gone' = Gone /\ Skipped' = Skipped /\ Passed' = Passed
      /\ Filling' = Filling /\ Joining' = Joining /\ Wired' = Wired
  BY <1>1, Basics, Begins
<1>3. Listed' = Listed
  BY <1>1, <1>2 DEF Listed
<1>4. Owned'
  BY <1>1, Basics DEF Owned, Stages
<1>5. ASSUME NEW u \in Thread PROVE Local(u)'
  <2>1. CASE u = t
    BY <1>1, <2>1, Basics DEF Local
  <2>2. CASE u /= t
    BY <1>1, <2>2, Basics, LocalStays
  <2> QED  BY <2>1, <2>2
<1> QED  BY <1>1, <1>2, <1>3, <1>4, <1>5, SameLists

\* The mutex is taken.
LEMMA LockKeeps ==
  ASSUME Safe, NEW t \in Thread, Lock(t) PROVE Linked'
<1> DEFINE y == user_ptr[t]
<1>1. /\ pc[t] = "lock" /\ pc' = [pc EXCEPT ![t] = "link"] /\ user_ptr' = user_ptr
      /\ UNCHANGED <<next, prev, live, g_last_alloc, g_sandboxed, last_alloc_,
                     next_ptr, prev_ptr, wild>>
  BY DEF Lock, At, Goto, locals
<1>2. pc[t] \in {"lock", "link", "fill"} /\ "link" \in Wiring
  BY <1>1 DEF Wiring
<1>3. /\ Listed' = IF "link" = "head" THEN Listed \union {y} ELSE Listed
      /\ Skipped' = Skipped /\ Passed' = Passed
      /\ Filling' = IF "link" = "fill" THEN Filling \union {y} ELSE Filling \ {y}
      /\ Joining' = IF "link" = "head" THEN Joining \union {y} ELSE Joining \ {y}
      /\ Wired' = Wired \union {y} /\ y \notin Listed /\ y \notin Joining
  BY <1>1, <1>2, Wires
<1>4. Filling' = Filling
  <2>1. user_ptr[t] \notin Filling
    BY <1>1, Basics, Places
  <2> QED  BY <1>3, <2>1
<1>5. /\ Listed' = Listed /\ Skipped' = Skipped /\ Passed' = Passed /\ Joining' = Joining
      /\ Wired' \intersect Listed \subseteq Wired
  BY <1>3
<1>7. Owned'
  BY <1>1, Basics DEF Owned, Stages
<1>8. ASSUME NEW u \in Thread PROVE Local(u)'
  <2>1. CASE u = t
    BY <1>1, <2>1, Basics DEF Local
  <2>2. CASE u /= t
    BY <1>1, <2>2, Basics, LocalStays
  <2> QED  BY <2>1, <2>2
<1> QED  BY <1>1, <1>4, <1>5, <1>7, <1>8, SameLists

\* The next word is read.
LEMMA ReadNextKeeps ==
  ASSUME Safe, NEW t \in Thread, ReadNext(t) PROVE Linked'
<1> DEFINE x == user_ptr[t]
<1>1. /\ pc[t] = "read_next" /\ pc' = [pc EXCEPT ![t] = "read_prev"] /\ user_ptr' = user_ptr
      /\ next_ptr' = [next_ptr EXCEPT ![t] = next[x]] /\ wild' = ~Valid(x)
      /\ UNCHANGED <<next, prev, live, g_last_alloc, g_sandboxed, last_alloc_, prev_ptr>>
  BY DEF ReadNext, At, Goto, sandbox
<1>2. /\ Listed' = IF "read_prev" = "release" THEN Listed \ {x} ELSE Listed
      /\ Skipped' = IF "read_prev" \in {"patch_next", "update_head"} THEN Skipped \union {x}
                    ELSE Skipped \ {x}
      /\ Passed' = IF "read_prev" = "update_head" THEN Passed \union {x} ELSE Passed \ {x}
      /\ x \in Skipped <=> pc[t] \in {"patch_next", "update_head"}
      /\ x \in Passed <=> pc[t] = "update_head"
      /\ Filling' = Filling /\ Joining' = Joining /\ Wired' = Wired
  <2>1. pc[t] \in Unlinking /\ "read_prev" \in Freeing
    BY <1>1 DEF Freeing, Unlinking
  <2> QED  BY <1>1, <2>1, Unlinks
<1>3. Listed' = Listed /\ Skipped' = Skipped /\ Passed' = Passed
  BY <1>1, <1>2
<1>4. Owned'
  <2>1. (~Valid(x)) = FALSE
    BY <1>1, Basics DEF Valid
  <2>2. wild' = FALSE
    BY <1>1, <2>1, Zenon
  <2> QED  BY <1>1, <2>2, Basics DEF Owned, Stages
<1>5. ASSUME NEW u \in Thread PROVE Local(u)'
  <2>1. CASE u = t
    BY <1>1, <2>1, Basics DEF Local
  <2>2. CASE u /= t
    BY <1>1, <2>2, Basics, LocalStays
  <2> QED  BY <2>1, <2>2
<1> QED  BY <1>1, <1>2, <1>3, <1>4, <1>5, SameLists

\* The previous word is read: both are still true, since no neighbour is unlinked.
LEMMA ReadPrevKeeps ==
  ASSUME Safe, NEW t \in Thread, ReadPrev(t) PROVE Linked'
<1> DEFINE x == user_ptr[t]
<1>1. /\ pc[t] = "read_prev" /\ pc' = [pc EXCEPT ![t] = "patch_prev"] /\ user_ptr' = user_ptr
      /\ prev_ptr' = [prev_ptr EXCEPT ![t] = prev[x]] /\ wild' = ~Valid(x)
      /\ UNCHANGED <<next, prev, live, g_last_alloc, g_sandboxed, last_alloc_, next_ptr>>
  BY DEF ReadPrev, At, Goto, sandbox
<1>2. /\ Listed' = IF "patch_prev" = "release" THEN Listed \ {x} ELSE Listed
      /\ Skipped' = IF "patch_prev" \in {"patch_next", "update_head"} THEN Skipped \union {x}
                    ELSE Skipped \ {x}
      /\ Passed' = IF "patch_prev" = "update_head" THEN Passed \union {x} ELSE Passed \ {x}
      /\ x \in Skipped <=> pc[t] \in {"patch_next", "update_head"}
      /\ x \in Passed <=> pc[t] = "update_head"
      /\ Filling' = Filling /\ Joining' = Joining /\ Wired' = Wired
  <2>1. pc[t] \in Unlinking /\ "patch_prev" \in Freeing
    BY <1>1 DEF Freeing, Unlinking
  <2> QED  BY <1>1, <2>1, Unlinks
<1>3. Listed' = Listed /\ Skipped' = Skipped /\ Passed' = Passed
  BY <1>1, <1>2
<1>4. Owned'
  <2>1. (~Valid(x)) = FALSE
    BY <1>1, Basics DEF Valid
  <2>2. wild' = FALSE
    BY <1>1, <2>1, Zenon
  <2> QED  BY <1>1, <2>2, Basics DEF Owned, Stages
<1>5. ASSUME NEW u \in Thread PROVE Local(u)'
  <2>1. CASE u = t
    BY <1>1, <2>1, Basics DEF Local
  <2>2. CASE u /= t
    BY <1>1, <2>2, Basics, LocalStays
  <2> QED  BY <2>1, <2>2
<1> QED  BY <1>1, <1>2, <1>3, <1>4, <1>5, SameLists

\* The head points to the new block, which ranks above all.
LEMMA LinkKeeps ==
  ASSUME Safe, NEW t \in Thread, Link(t) PROVE Linked'
<1> DEFINE y == user_ptr[t]
           g == g_last_alloc
<1>1. /\ pc[t] = "link" /\ pc' = [pc EXCEPT ![t] = "fill"] /\ user_ptr' = user_ptr
      /\ next' = Store(next, g, y) /\ wild' = (g /= NULL /\ ~Valid(g))
      /\ UNCHANGED <<prev, live, g_last_alloc, g_sandboxed, last_alloc_, next_ptr, prev_ptr>>
  BY DEF Link, At, Goto, sandbox, locals
<1>2. pc[t] \in {"lock", "link", "fill"} /\ pc[t] \in Wiring /\ "fill" \in Wiring
  BY <1>1 DEF Wiring
<1>3. /\ \A u \in Thread \ {t} : pc[u] \notin Wiring
      /\ Wired = {y} /\ Filling = {} /\ Joining = {} /\ g \notin Leaving /\ y \in Block
  BY <1>1, <1>2, OneWires
<1>4. /\ Listed' = IF "fill" = "head" THEN Listed \union {y} ELSE Listed
      /\ Skipped' = Skipped /\ Passed' = Passed
      /\ Filling' = IF "fill" = "fill" THEN Filling \union {y} ELSE Filling \ {y}
      /\ Joining' = IF "fill" = "head" THEN Joining \union {y} ELSE Joining \ {y}
      /\ Wired' = Wired \union {y} /\ y \notin Listed /\ y \notin Joining
  BY <1>1, <1>2, Wires
<1>5. /\ Listed' = Listed /\ Skipped' = Skipped /\ Passed' = Passed /\ Filling' = {y}
      /\ Joining' = {} /\ Wired' = Wired /\ y \notin Listed
  BY <1>3, <1>4
<1>8. g \in Listed \union {NULL} /\ (g /= NULL => next[g] = NULL)
  BY <1>3 DEF Safe, Linked, Heads
<1>9. \A b \in Block : next'[b] = IF b = g THEN y ELSE next[b]
  BY <1>1, <1>3, Basics, Stored
<1>10. \A b \in Listed : prev[b] \in Listed \union {NULL} /\ next[b] \in Listed \union {NULL}
  BY <1>3 DEF Safe, Linked, Into
<1>11. \A b \in Listed : prev[b] /= NULL => prev[b] /= g
  <2> SUFFICES ASSUME NEW b \in Listed, prev[b] /= NULL, prev[b] = g PROVE FALSE
    OBVIOUS
  <2>1. CASE b \in Skipped
    BY <2>1 DEF Safe, Linked, Back
  <2>2. CASE b \notin Skipped
    <3>1. next[g] = b
      BY <2>2 DEF Safe, Linked, Back
    <3> QED  BY <1>8, <3>1, Sets
  <2> QED  BY <2>1, <2>2
<1>12. Owned'
  <2>1. (g /= NULL /\ ~Valid(g)) = FALSE
    BY <1>8 DEF Valid, Listed
  <2>2. wild' = FALSE
    BY <1>1, <2>1, Zenon
  <2> QED  BY <1>1, <2>2, Basics DEF Owned, Stages
<1>13. ASSUME NEW u \in Thread PROVE Local(u)'
  <2>1. CASE u = t
    BY <1>1, <1>8, <1>9, <2>1, Basics, Sets DEF Local
  <2>2. CASE u /= t
    <3>1. pc[u] \in Unlinking \union {"head"} => user_ptr[u] \in Leaving /\ user_ptr[u] \in Block
      BY <1>3, <2>2, Sets DEF Leaving, Of, Wiring
    <3>2. pc[u] \in Unlinking \union {"head"} => next'[user_ptr[u]] = next[user_ptr[u]]
      BY <1>3, <1>9, <3>1
    <3> QED  BY <1>1, <1>3, <2>2, <3>2, Basics, LocalStays DEF Wiring
  <2> QED  BY <2>1, <2>2
<1>14. Into'
  BY <1>1, <1>5, <1>9, <1>10, Sets DEF Into
<1>15. Back'
  <2>1. \A b \in Listed : prev[b] /= NULL => next'[prev[b]] = next[prev[b]]
    BY <1>9, <1>10, <1>11, Sets
  <2>2. \A b \in Skipped : next'[b] = next[b] /\ b \in Listed
    BY <1>3, <1>9, Sets
  <2> QED  BY <1>1, <1>5, <2>1, <2>2 DEF Safe, Linked, Back
<1>16. Forth'
  <2>1. \A b \in Listed : next'[b] \in Listed => next'[b] = next[b]
    BY <1>5, <1>9, Sets
  <2> QED  BY <1>1, <1>5, <2>1 DEF Safe, Linked, Forth
<1>17. Heads'
  <2>1. g /= NULL => next'[g] = y
    BY <1>8, <1>9, Sets
  <2>2. ~g_sandboxed /\ last_alloc_ /= NULL =>
          last_alloc_ \in Listed /\ next'[last_alloc_] = NULL /\ last_alloc_ /= g
    BY <1>9, Sets DEF Safe, Linked, Heads
  <2> QED  BY <1>1, <1>5, <1>8, <2>1, <2>2 DEF Heads
<1>18. (\E N \in Nat : \E r \in [Block -> 0 .. N] : Rises(r, N))'
  <2>1. PICK N \in Nat : \E r \in [Block -> 0 .. N] : Rises(r, N)
    BY Rising
  <2>2. PICK r \in [Block -> 0 .. N] : Rises(r, N)
    BY <2>1
  <2>3. PICK s \in [Block -> 0 .. N + 1] : s = [r EXCEPT ![y] = N + 1] /\ N + 1 \in Nat
    <3>1. N + 1 \in Nat /\ N + 1 \in 0 .. N + 1 /\ 0 .. N \subseteq 0 .. N + 1
      BY <2>1
    <3>2. [r EXCEPT ![y] = N + 1] \in [Block -> 0 .. N + 1]
      BY <2>2, <3>1
    <3> QED  BY <3>1, <3>2
  <2>4. ASSUME NEW b \in Listed
        PROVE  (prev[b] /= NULL => s[prev[b]] < s[b]) /\ (next'[b] /= NULL => s[b] < s[next'[b]])
    <3>1. b \in Block /\ b /= y /\ s[b] = r[b] /\ r[b] \in 0 .. N
      BY <1>5, <2>2, <2>3, Sets
    <3>2. prev[b] /= NULL => s[prev[b]] < s[b]
      BY <1>5, <1>10, <2>2, <2>3, <3>1, Sets DEF Rises
    <3>3. CASE b = g
      BY <1>3, <1>9, <2>1, <2>2, <2>3, <3>1, <3>2, <3>3
    <3>4. CASE b /= g
      BY <1>5, <1>9, <1>10, <2>2, <2>3, <3>1, <3>2, <3>4, Sets DEF Rises
    <3> QED  BY <3>3, <3>4
  <2>5. Rises(s, N + 1)'
    BY <1>1, <1>5, <2>3, <2>4 DEF Rises
  <2> QED  BY <2>3, <2>5
<1> QED  BY <1>12, <1>13, <1>14, <1>15, <1>16, <1>17, <1>18 DEF Linked

\* The words of the new block are written: it is listed now.
LEMMA FillKeeps ==
  ASSUME Safe, NEW t \in Thread, Fill(t) PROVE Linked'
<1> DEFINE y == user_ptr[t]
           g == g_last_alloc
<1>1. /\ pc[t] = "fill" /\ pc' = [pc EXCEPT ![t] = "head"] /\ user_ptr' = user_ptr
      /\ next' = Store(next, y, NULL) /\ prev' = Store(prev, y, g)
      /\ UNCHANGED <<live, g_last_alloc, g_sandboxed, last_alloc_, next_ptr, prev_ptr, wild>>
  BY DEF Fill, At, Goto, sandbox, locals
<1>2. pc[t] \in {"lock", "link", "fill"} /\ pc[t] \in Wiring /\ "head" \in Wiring
  BY <1>1 DEF Wiring
<1>3. /\ \A u \in Thread \ {t} : pc[u] \notin Wiring
      /\ Wired = {y} /\ Filling = {y} /\ Joining = {} /\ g \notin Leaving
      /\ y \in Block /\ y \in live
  BY <1>1, <1>2, OneWires
<1>4. /\ Listed' = IF "head" = "head" THEN Listed \union {y} ELSE Listed
      /\ Skipped' = Skipped /\ Passed' = Passed
      /\ Filling' = IF "head" = "fill" THEN Filling \union {y} ELSE Filling \ {y}
      /\ Joining' = IF "head" = "head" THEN Joining \union {y} ELSE Joining \ {y}
      /\ Wired' = Wired \union {y} /\ y \notin Listed /\ y \notin Joining
  BY <1>1, <1>2, Wires
<1>5. /\ Listed' = Listed \union {y} /\ Skipped' = Skipped /\ Passed' = Passed /\ Filling' = {}
      /\ Joining' = {y} /\ Wired' = Wired /\ y \notin Listed
  BY <1>3, <1>4
<1>8. g \in Listed \union {NULL} /\ (g /= NULL => next[g] = y)
  BY <1>1, Basics DEF Safe, Linked, Heads, Local
<1>9. \A b \in Block : /\ next'[b] = IF b = y THEN NULL ELSE next[b]
                       /\ prev'[b] = IF b = y THEN g ELSE prev[b]
  <2>1. g \in Block \union {NULL, JUNK}
    BY <1>8, Sets
  <2> QED  BY <1>1, <2>1, Basics, Stored
<1>10. \A b \in Listed : /\ prev[b] \in Listed \union {NULL}
                         /\ next[b] \in Listed \union {NULL} \/ (b = g /\ next[b] = y)
                         /\ next'[b] = next[b] /\ prev'[b] = prev[b]
  BY <1>3, <1>5, <1>9, Sets DEF Safe, Linked, Into
<1>11. Owned'
  BY <1>1, Basics DEF Owned, Stages
<1>12. ASSUME NEW u \in Thread PROVE Local(u)'
  <2>1. CASE u = t
    BY <1>1, <1>3, <1>9, <2>1, Basics DEF Local
  <2>2. CASE u /= t
    <3>1. pc[u] \in Unlinking \union {"head"} => user_ptr[u] \in Block /\ user_ptr[u] /= y
      BY <1>2, <2>2, Basics, Sets DEF Unlinking
    <3> QED  BY <1>1, <1>3, <1>9, <2>2, <3>1, Basics, LocalStays DEF Wiring
  <2> QED  BY <2>1, <2>2
<1>13. Into'
  BY <1>1, <1>3, <1>5, <1>8, <1>9, <1>10, Sets DEF Into
<1>14. Back'
  <2>1. \A b \in Listed : prev[b] /= NULL => next'[prev[b]] = next[prev[b]]
    BY <1>10
  <2>2. g /= NULL => next'[g] = y
    BY <1>8, <1>10
  <2>3. Skipped \subseteq Listed
    BY Sets
  <2>4. \A b \in Listed' \ Skipped' : prev'[b] /= NULL => next'[prev'[b]] = b
    BY <1>3, <1>5, <1>9, <1>10, <2>1, <2>2 DEF Safe, Linked, Back
  <2>5. \A b \in Skipped : prev'[b] = prev[b] /\ next'[b] = next[b]
    BY <1>10, <2>3
  <2> QED  BY <1>1, <1>5, <2>1, <2>3, <2>4, <2>5 DEF Safe, Linked, Back
<1>15. Forth'
  <2> SUFFICES ASSUME NEW b \in Listed', next'[b] \in Listed'
               PROVE  LET c == prev'[next'[b]]
                      IN  IF b \in Passed THEN c = prev'[b]
                          ELSE c = b \/ (c \in Skipped \ Passed /\ prev'[c] = b)
    BY <1>5 DEF Forth
  <2>1. b \in Listed /\ next'[b] = next[b] /\ prev'[b] = prev[b]
    BY <1>3, <1>5, <1>9, <1>10, Sets
  <2>2. CASE next[b] = y
    <3>1. b = g /\ prev'[y] = g
      BY <1>3, <1>5, <1>9, <1>10, <2>1, <2>2, Sets
    <3>2. b \notin Passed
      BY <1>3, <3>1, Sets
    <3> QED  BY <2>1, <2>2, <3>1, <3>2
  <2>3. CASE next[b] /= y
    <3>1. next[b] \in Listed /\ prev'[next[b]] = prev[next[b]]
      BY <1>5, <1>10, <2>1, <2>3
    <3>2. \A c \in Skipped : prev'[c] = prev[c]
      BY <1>10, Sets
    <3> QED  BY <2>1, <3>1, <3>2 DEF Safe, Linked, Forth
  <2> QED  BY <2>2, <2>3
<1>16. Heads'
  BY <1>1, <1>5, <1>8, <1>10, Sets DEF Safe, Linked, Heads
<1>17. (\E N \in Nat : \E r \in [Block -> 0 .. N] : Rises(r, N))'
  <2>1. PICK N \in Nat : \E r \in [Block -> 0 .. N] : Rises(r, N)
    BY Rising
  <2>2. PICK r \in [Block -> 0 .. N] : Rises(r, N)
    BY <2>1
  <2>3. g /= NULL => r[g] < r[y]
    BY <1>3, <1>8, <2>2, Sets DEF Rises
  <2>4. Rises(r, N)'
    BY <1>3, <1>5, <1>9, <1>10, <2>2, <2>3 DEF Rises
  <2> QED  BY <2>4
<1> QED  BY <1>11, <1>12, <1>13, <1>14, <1>15, <1>16, <1>17 DEF Linked

\* It is the head.
LEMMA NewHeadKeeps ==
  ASSUME Safe, NEW t \in Thread, NewHead(t) PROVE Linked'
<1> DEFINE y == user_ptr[t]
<1>1. /\ pc[t] = "head" /\ pc' = [pc EXCEPT ![t] = "idle"]
      /\ user_ptr' = [user_ptr EXCEPT ![t] = NULL]
      /\ next_ptr' = [next_ptr EXCEPT ![t] = NULL] /\ prev_ptr' = [prev_ptr EXCEPT ![t] = NULL]
      /\ g_last_alloc' = y
      /\ UNCHANGED <<next, prev, live, g_sandboxed, last_alloc_, wild>>
  BY DEF NewHead, Return, At, Goto
<1>2. pc[t] /= "idle" /\ pc[t] \in Wiring
  BY <1>1 DEF Wiring
<1>3. /\ \A u \in Thread \ {t} : pc[u] \notin Wiring
      /\ Wired = {y} /\ Filling = {} /\ Joining = {y} /\ y \in Block
  BY <1>1, <1>2, OneWires
<1>4. /\ New' = New \ {y} /\ Gone' = Gone \ {y} /\ Skipped' = Skipped \ {y}
      /\ Passed' = Passed \ {y} /\ Filling' = Filling \ {y}
      /\ Joining' = Joining \ {y} /\ Wired' = Wired \ {y}
  BY <1>1, <1>2, Basics, Returns
<1>5. y \notin New /\ y \notin Gone /\ y \notin Skipped /\ y \notin Passed
  BY <1>1, <1>2, Basics, Places
<1>6. /\ New' = New /\ Gone' = Gone /\ Skipped' = Skipped /\ Passed' = Passed /\ Filling' = {}
      /\ Joining' = {} /\ Wired' = {} /\ y \in Listed
  BY <1>3, <1>4, <1>5, Sets
<1>7. Listed' = Listed
  BY <1>1, <1>6 DEF Listed
<1>8. next[y] = NULL
  BY <1>1, Basics DEF Local
<1>9. Owned'
  BY <1>1, Basics DEF Owned, Stages
<1>10. ASSUME NEW u \in Thread PROVE Local(u)'
  <2>1. CASE u = t
    BY <1>1, <2>1, Basics DEF Local
  <2>2. CASE u /= t
    BY <1>1, <1>3, <2>2, Basics, LocalStays DEF Wiring
  <2> QED  BY <2>1, <2>2
<1>11. Into'
  BY <1>1, <1>3, <1>6, <1>7 DEF Safe, Linked, Into
<1>12. Back'
  BY <1>1, <1>3, <1>6, <1>7 DEF Safe, Linked, Back
<1>13. Forth'
  BY <1>1, <1>6, <1>7 DEF Safe, Linked, Forth
<1>14. Heads'
  BY <1>1, <1>3, <1>6, <1>7, <1>8 DEF Safe, Linked, Heads
<1>15. (\E N \in Nat : \E r \in [Block -> 0 .. N] : Rises(r, N))'
  <2>1. PICK N \in Nat : \E r \in [Block -> 0 .. N] : Rises(r, N)
    BY Rising
  <2>2. PICK r \in [Block -> 0 .. N] : Rises(r, N)
    BY <2>1
  <2>3. Rises(r, N)'
    BY <1>1, <1>7, <2>2 DEF Rises
  <2> QED  BY <2>3
<1> QED  BY <1>9, <1>10, <1>11, <1>12, <1>13, <1>14, <1>15 DEF Linked

\* The next block points past the one that is unlinked: it is Passed now.
LEMMA PatchNextKeeps ==
  ASSUME Safe, NEW t \in Thread, PatchNext(t) PROVE Linked'
<1> DEFINE x == user_ptr[t]
           n == next[x]
           p == prev[x]
<1>1. /\ pc[t] = "patch_next" /\ pc' = [pc EXCEPT ![t] = "update_head"] /\ user_ptr' = user_ptr
      /\ next_ptr[t] = n /\ prev_ptr[t] = p
      /\ prev' = Store(prev, n, p) /\ wild' = (n /= NULL /\ ~Valid(n))
      /\ UNCHANGED <<next, live, g_last_alloc, g_sandboxed, last_alloc_, next_ptr, prev_ptr>>
  BY Basics DEF PatchNext, At, Goto, locals, sandbox, Local
<1>2. /\ x \in Listed /\ n \in Listed \union {NULL} /\ p \in Listed \union {NULL}
      /\ x /= n /\ x /= p /\ (p /= NULL => p /= n)
      /\ \A z \in Leaving \ {x} : z /= n /\ z /= p /\ next[z] /= x /\ prev[z] /= x
      /\ (x = g_last_alloc => Wired = {}) /\ g_sandboxed
  BY <1>1, Neighbourhood DEF Unlinking
<1>3. /\ Listed' = IF "update_head" = "release" THEN Listed \ {x} ELSE Listed
      /\ Skipped' = IF "update_head" \in {"patch_next", "update_head"} THEN Skipped \union {x}
                    ELSE Skipped \ {x}
      /\ Passed' = IF "update_head" = "update_head" THEN Passed \union {x} ELSE Passed \ {x}
      /\ x \in Skipped <=> pc[t] \in {"patch_next", "update_head"}
      /\ x \in Passed <=> pc[t] = "update_head"
      /\ Filling' = Filling /\ Joining' = Joining /\ Wired' = Wired
  <2>1. pc[t] \in Unlinking /\ "update_head" \in Freeing
    BY <1>1 DEF Freeing, Unlinking
  <2> QED  BY <1>1, <2>1, Unlinks
<1>4. /\ Listed' = Listed /\ Skipped' = Skipped /\ Passed' = Passed \union {x}
      /\ x \in Skipped /\ x \notin Passed
  BY <1>1, <1>3
<1>5. p /= NULL => next[p] = n
  BY <1>4 DEF Safe, Linked, Back
<1>6. n /= NULL => prev[n] = x
  <2> SUFFICES ASSUME n /= NULL PROVE prev[n] = x
    OBVIOUS
  <2>1. prev[n] = x \/ (prev[n] \in Skipped \ Passed /\ prev[prev[n]] = x)
    BY <1>2, <1>4 DEF Safe, Linked, Forth
  <2>2. prev[n] \in Skipped /\ prev[prev[n]] = x => FALSE
    BY <1>2, Sets
  <2> QED  BY <2>1, <2>2
<1>7. \A b \in Block : prev'[b] = IF b = n THEN p ELSE prev[b]
  BY <1>1, <1>2, Sets, Stored, Basics
<1>8. \A b \in Skipped : prev'[b] = prev[b] /\ b \in Listed
  BY <1>2, <1>7, Sets
<1>9. Owned'
  <2>1. (n /= NULL /\ ~Valid(n)) = FALSE
    BY <1>2 DEF Valid, Listed
  <2>2. wild' = FALSE
    BY <1>1, <2>1, Zenon
  <2> QED  BY <1>1, <2>2, Basics DEF Owned, Stages
<1>10. ASSUME NEW u \in Thread PROVE Local(u)'
  <2>1. CASE u = t
    BY <1>1, <1>2, <1>7, <2>1, Basics, Sets DEF Local
  <2>2. CASE u /= t
    <3>1. pc[u] \in Unlinking \union {"head"} =>
            prev'[user_ptr[u]] = prev[user_ptr[u]] /\ next'[user_ptr[u]] = next[user_ptr[u]]
      <4>1. CASE pc[u] \in Unlinking
        <5>1. user_ptr[u] \in Leaving
          BY <4>1 DEF Leaving, Of
        <5>2. user_ptr[u] /= x
          BY <1>1, <2>2, <4>1, Basics DEF Unlinking
        <5> QED  BY <1>1, <1>2, <1>7, <5>1, <5>2, Sets
      <4>2. CASE pc[u] = "head"
        <5>1. user_ptr[u] \in Joining /\ user_ptr[u] \in Block
          BY <4>2, Sets DEF Joining, Of
        <5>2. user_ptr[u] = n => FALSE
          BY <1>2, <1>6, <4>2, <5>1, Basics, Sets DEF Local
        <5> QED  BY <1>1, <1>7, <5>1, <5>2
      <4> QED  BY <4>1, <4>2
    <3> QED  BY <1>1, <2>2, <3>1, Basics, LocalStays
  <2> QED  BY <2>1, <2>2
<1>11. Into'
  BY <1>1, <1>2, <1>3, <1>4, <1>7, Sets DEF Safe, Linked, Into
<1>12. Back'
  <2>1. ASSUME NEW b \in Listed \ Skipped, prev'[b] /= NULL PROVE next[prev'[b]] = b
    BY <1>5, <1>7, <2>1, Sets DEF Safe, Linked, Back
  <2> QED  BY <1>1, <1>3, <1>4, <1>8, <2>1 DEF Safe, Linked, Back
<1>13. Forth'
  <2> SUFFICES ASSUME NEW b \in Listed, next[b] \in Listed
               PROVE  LET c == prev'[next[b]]
                      IN  IF b \in Passed \union {x} THEN c = prev'[b]
                          ELSE c = b \/ (c \in Skipped \ (Passed \union {x}) /\ prev'[c] = b)
    BY <1>1, <1>4 DEF Forth
  <2>1. LET c == prev[next[b]]
        IN  IF b \in Passed THEN c = prev[b]
            ELSE c = b \/ (c \in Skipped \ Passed /\ prev[c] = b)
    BY DEF Safe, Linked, Forth
  <2>2. CASE b = x
    BY <1>2, <1>7, <2>2, Sets
  <2>3. CASE b /= x /\ next[b] = n
    <3>1. b \notin Passed
      BY <1>2, <1>6, <2>1, <2>3, Sets
    <3>2. b = p
      BY <1>2, <1>6, <2>1, <2>3, <3>1, Sets
    <3> QED  BY <1>2, <1>7, <2>3, <3>1, <3>2, Sets
  <2>4. CASE b /= x /\ next[b] /= n
    <3>1. prev'[next[b]] = prev[next[b]]
      BY <1>7, <2>4, Sets
    <3>2. prev[next[b]] = x /\ prev[x] = b => FALSE
      BY <1>5, <2>4, Sets
    <3>3. b \in Passed => prev'[b] = prev[b]
      BY <1>8, Sets
    <3> QED  BY <1>8, <2>1, <2>4, <3>1, <3>2, <3>3
  <2> QED  BY <2>2, <2>3, <2>4
<1>14. Heads'
  BY <1>1, <1>2, <1>3, <1>4 DEF Safe, Linked, Heads
<1>15. (\E N \in Nat : \E r \in [Block -> 0 .. N] : Rises(r, N))'
  <2>1. PICK N \in Nat : \E r \in [Block -> 0 .. N] : Rises(r, N)
    BY Rising
  <2>2. PICK r \in [Block -> 0 .. N] : Rises(r, N)
    BY <2>1
  <2>3. p /= NULL /\ n /= NULL => r[p] < r[n]
    <3>1. (p /= NULL => r[p] < r[x]) /\ (n /= NULL => r[x] < r[n])
      BY <1>2, <2>2 DEF Rises
    <3>2. r[x] \in Nat /\ (p /= NULL => r[p] \in Nat) /\ (n /= NULL => r[n] \in Nat)
      BY <1>2, <2>2, Sets
    <3> QED  BY <3>1, <3>2
  <2>4. Rises(r, N)'
    BY <1>1, <1>4, <1>7, <2>2, <2>3, Sets DEF Rises
  <2> QED  BY <2>4
<1> QED  BY <1>9, <1>10, <1>11, <1>12, <1>13, <1>14, <1>15 DEF Linked

\* No block points to the unlinked one any more: it leaves the list.
LEMMA UpdateHeadKeeps ==
  ASSUME Safe, NEW t \in Thread, UpdateHead(t) PROVE Linked'
<1> DEFINE x == user_ptr[t]
           n == next[x]
           p == prev[x]
<1>1. /\ pc[t] = "update_head" /\ pc' = [pc EXCEPT ![t] = "release"] /\ user_ptr' = user_ptr
      /\ prev_ptr[t] = p /\ mutex = NULL
      /\ g_last_alloc' = IF g_last_alloc = x THEN p ELSE g_last_alloc
      /\ UNCHANGED <<next, prev, live, g_sandboxed, last_alloc_, next_ptr, prev_ptr, wild>>
  BY Basics DEF UpdateHead, At, Goto, locals, Local
<1>2. /\ x \in Listed /\ n \in Listed \union {NULL} /\ p \in Listed \union {NULL}
      /\ x /= n /\ x /= p /\ (p /= NULL => p /= n)
      /\ \A z \in Leaving \ {x} : z /= n /\ z /= p /\ next[z] /= x /\ prev[z] /= x
      /\ g_sandboxed
  BY <1>1, Neighbourhood DEF Unlinking
<1>3. /\ Listed' = IF "release" = "release" THEN Listed \ {x} ELSE Listed
      /\ Skipped' = IF "release" \in {"patch_next", "update_head"} THEN Skipped \union {x}
                    ELSE Skipped \ {x}
      /\ Passed' = IF "release" = "update_head" THEN Passed \union {x} ELSE Passed \ {x}
      /\ x \in Skipped <=> pc[t] \in {"patch_next", "update_head"}
      /\ x \in Passed <=> pc[t] = "update_head"
      /\ Filling' = Filling /\ Joining' = Joining /\ Wired' = Wired
  <2>1. pc[t] \in Unlinking /\ "release" \in Freeing
    BY <1>1 DEF Freeing, Unlinking
  <2> QED  BY <1>1, <2>1, Unlinks
<1>4. /\ Listed' = Listed \ {x} /\ Skipped' = Skipped \ {x} /\ Passed' = Passed \ {x}
      /\ x \in Skipped /\ x \in Passed
      /\ Filling' = {} /\ Joining' = {} /\ Wired' = {} /\ Filling = {} /\ Joining = {}
      /\ \A u \in Thread : pc[u] \notin Wiring
  BY <1>1, <1>3, NoneWires
<1>5. /\ p /= NULL => next[p] = n
      /\ n /= NULL => prev[n] = p
  BY <1>2, <1>4 DEF Safe, Linked, Back, Forth
<1>6. ASSUME NEW b \in Listed \ {x} PROVE prev[b] /= x /\ next[b] /= x
  <2>1. prev[b] = x => FALSE
    <3>1. CASE b \in Skipped
      BY <1>2, <3>1, Sets
    <3>2. CASE b \notin Skipped
      BY <1>2, <1>5, <3>2, Sets DEF Safe, Linked, Back
    <3> QED  BY <3>1, <3>2
  <2>2. next[b] = x => FALSE
    <3> SUFFICES ASSUME next[b] = x PROVE FALSE
      OBVIOUS
    <3>1. b \notin Passed
      BY <1>2, Sets
    <3>2. p = b \/ (p \in Skipped \ Passed /\ prev[p] = b)
      BY <1>2, <3>1 DEF Safe, Linked, Forth
    <3>3. p \notin Skipped
      BY <1>2, Sets
    <3> QED  BY <1>2, <1>5, <3>2, <3>3, Sets
  <2> QED  BY <2>1, <2>2
<1>7. Owned'
  BY <1>1, Basics DEF Owned, Stages
<1>8. ASSUME NEW u \in Thread PROVE Local(u)'
  <2>1. CASE u = t
    BY <1>1, <2>1, Basics DEF Local
  <2>2. CASE u /= t
    BY <1>1, <1>4, <2>2, Basics, LocalStays DEF Wiring
  <2> QED  BY <2>1, <2>2
<1>9. Into'
  BY <1>1, <1>4, <1>6 DEF Safe, Linked, Into
<1>10. Back'
  <2>1. \A b \in Skipped \ {x} : prev[b] /= NULL => prev[b] /= g_last_alloc'
    BY <1>1, <1>4 DEF Safe, Linked, Back
  <2> QED  BY <1>1, <1>4, <2>1 DEF Safe, Linked, Back
<1>11. Forth'
  BY <1>1, <1>4 DEF Safe, Linked, Forth
<1>12. Heads'
  <2>1. g_last_alloc = x => n = NULL
    BY <1>2, <1>4, Sets DEF Safe, Linked, Heads
  <2> QED  BY <1>1, <1>2, <1>4, <1>5, <2>1 DEF Safe, Linked, Heads
<1>13. (\E N \in Nat : \E r \in [Block -> 0 .. N] : Rises(r, N))'
  <2>1. PICK N \in Nat : \E r \in [Block -> 0 .. N] : Rises(r, N)
    BY Rising
  <2>2. PICK r \in [Block -> 0 .. N] : Rises(r, N)
    BY <2>1
  <2>3. Rises(r, N)'
    BY <1>1, <1>4, <2>2 DEF Rises
  <2> QED  BY <2>3
<1> QED  BY <1>7, <1>8, <1>9, <1>10, <1>11, <1>12, <1>13 DEF Linked

\* real_free() destroys words no list needs.
LEMMA ReleaseKeeps ==
  ASSUME Safe, NEW t \in Thread, Release(t) PROVE Linked'
<1> DEFINE x == user_ptr[t]
<1>1. /\ pc[t] = "release" /\ pc' = [pc EXCEPT ![t] = "idle"]
      /\ user_ptr' = [user_ptr EXCEPT ![t] = NULL]
      /\ next_ptr' = [next_ptr EXCEPT ![t] = NULL] /\ prev_ptr' = [prev_ptr EXCEPT ![t] = NULL]
      /\ live' = live \ {x} /\ next' = Store(next, x, JUNK) /\ prev' = Store(prev, x, JUNK)
      /\ wild' = ~Valid(x)
      /\ UNCHANGED <<g_last_alloc, g_sandboxed, last_alloc_>>
  BY DEF Release, Return, At, Goto, sandbox
<1>2. pc[t] /= "idle" /\ x \in live
  BY <1>1, Basics
<1>3. /\ New' = New \ {x} /\ Gone' = Gone \ {x} /\ Skipped' = Skipped \ {x}
      /\ Passed' = Passed \ {x} /\ Filling' = Filling \ {x}
      /\ Joining' = Joining \ {x} /\ Wired' = Wired \ {x}
  BY <1>1, <1>2, Basics, Returns
<1>4. /\ x \notin New /\ x \in Gone /\ x \notin Skipped /\ x \notin Passed /\ x \notin Filling
      /\ x \notin Joining /\ x \notin Wired
  BY <1>1, <1>2, Basics, Places DEF Wiring
<1>5. /\ New' = New /\ Skipped' = Skipped /\ Passed' = Passed /\ Filling' = Filling
      /\ Joining' = Joining /\ Wired' = Wired /\ x \notin Listed
  BY <1>3, <1>4, Sets
<1>6. Listed' = Listed
  BY <1>1, <1>3, <1>4, <1>5 DEF Listed
<1>7. \A b \in Block \ {x} : next'[b] = next[b] /\ prev'[b] = prev[b]
  BY <1>1, Stored, Basics
<1>8. \A b \in Listed : /\ next'[b] = next[b] /\ prev'[b] = prev[b]
                        /\ prev[b] \in Listed \union {NULL}
  BY <1>5, <1>7, Sets DEF Safe, Linked, Into
<1>9. Skipped \subseteq Listed /\ g_last_alloc \in Listed \union {NULL}
  BY Sets DEF Safe, Linked, Heads
<1>10. Owned'
  <2>1. (~Valid(x)) = FALSE
    BY <1>2 DEF Valid
  <2>2. wild' = FALSE
    BY <1>1, <2>1, Zenon
  <2> QED  BY <1>1, <2>2, Basics DEF Owned, Stages
<1>11. ASSUME NEW u \in Thread PROVE Local(u)'
  <2>1. CASE u = t
    BY <1>1, <2>1, Basics DEF Local
  <2>2. CASE u /= t
    <3>1. pc[u] \in Unlinking \union {"head"} => user_ptr[u] \in Block /\ user_ptr[u] /= x
      BY <1>2, <2>2, Basics, Sets DEF Unlinking
    <3> QED  BY <1>1, <1>7, <1>8, <1>9, <2>2, <3>1, Basics, LocalStays
  <2> QED  BY <2>1, <2>2
<1>12. Into'
  BY <1>1, <1>5, <1>6, <1>8 DEF Safe, Linked, Into
<1>13. Back'
  <2>1. \A b \in Listed : prev[b] /= NULL => next'[prev[b]] = next[prev[b]]
    BY <1>8
  <2> QED  BY <1>1, <1>5, <1>6, <1>8, <1>9, <2>1 DEF Safe, Linked, Back
<1>14. Forth'
  BY <1>5, <1>6, <1>8, <1>9 DEF Safe, Linked, Forth
<1>15. Heads'
  BY <1>1, <1>5, <1>6, <1>8 DEF Safe, Linked, Heads
<1>16. (\E N \in Nat : \E r \in [Block -> 0 .. N] : Rises(r, N))'
  <2>1. PICK N \in Nat : \E r \in [Block -> 0 .. N] : Rises(r, N)
    BY Rising
  <2>2. PICK r \in [Block -> 0 .. N] : Rises(r, N)
    BY <2>1
  <2>3. Rises(r, N)'
    BY <1>6, <1>8, <2>2 DEF Rises
  <2> QED  BY <2>3
<1> QED  BY <1>10, <1>11, <1>12, <1>13, <1>14, <1>15, <1>16 DEF Linked

--------------------------------------------------------------------------------
\* Outside the call nobody frees.
LEMMA NoneFrees ==
  ASSUME Safe, ~g_sandboxed
  PROVE  /\ \A u \in Thread : pc[u] \notin Freeing
         /\ Leaving = {} /\ Skipped = {} /\ Passed = {} /\ Gone = {}
<1>1. \A u \in Thread : pc[u] \notin Freeing
  BY Apart
<1> QED  BY <1>1 DEF Leaving, Skipped, Passed, Gone, Of, Freeing, Unlinking

\* No thread moves.
LEMMA SamePlaces ==
  ASSUME UNCHANGED <<pc, user_ptr>>
  PROVE  /\ New' = New /\ Gone' = Gone /\ Skipped' = Skipped /\ Passed' = Passed
         /\ Filling' = Filling /\ Joining' = Joining /\ Wired' = Wired
BY DEF New, Gone, Skipped, Passed, Filling, Joining, Wired, Of

\* The kept list is the applied one.
LEMMA PrepareKeeps ==
  ASSUME Safe, Prepare PROVE Linked'
<1>1. /\ ~g_sandboxed /\ mutex = NULL /\ g_last_alloc' = last_alloc_ /\ g_sandboxed' = TRUE
      /\ UNCHANGED <<next, prev, live, last_alloc_, pc, user_ptr, next_ptr, prev_ptr, wild>>
  BY DEF Prepare, locals
<1>2. /\ New' = New /\ Gone' = Gone /\ Skipped' = {} /\ Skipped = {} /\ Passed' = {} /\ Passed = {}
      /\ Filling' = {} /\ Filling = {} /\ Joining' = {} /\ Joining = {} /\ Wired' = {}
      /\ \A u \in Thread : pc[u] \notin Wiring
  BY <1>1, NoneFrees, NoneWires, SamePlaces
<1>3. Listed' = Listed
  BY <1>1, <1>2, SamePlaces DEF Listed
<1>4. Owned'
  BY <1>1, Basics DEF Owned
<1>5. ASSUME NEW u \in Thread PROVE Local(u)'
  BY <1>1, <1>2, Basics, LocalStays DEF Wiring
<1>6. Into' /\ Back' /\ Forth' /\ Heads'
  BY <1>1, <1>2, <1>3 DEF Safe, Linked, Into, Back, Forth, Heads
<1>7. (\E N \in Nat : \E r \in [Block -> 0 .. N] : Rises(r, N))'
  <2>1. PICK N \in Nat : \E r \in [Block -> 0 .. N] : Rises(r, N)
    BY Rising
  <2>2. PICK r \in [Block -> 0 .. N] : Rises(r, N)
    BY <2>1
  <2>3. Rises(r, N)'
    BY <1>1, <1>3, <2>2 DEF Rises
  <2> QED  BY <2>3
<1> QED  BY <1>4, <1>5, <1>6, <1>7 DEF Linked

\* The applied list is kept, with whatever threads are still about to wire to NULL.
LEMMA CleanupKeeps ==
  ASSUME Safe, Cleanup PROVE Linked'
<1>1. /\ g_sandboxed /\ mutex = NULL /\ last_alloc_' = g_last_alloc /\ g_last_alloc' = NULL
      /\ g_sandboxed' = FALSE
      /\ UNCHANGED <<next, prev, live, pc, user_ptr, next_ptr, prev_ptr, wild>>
  BY DEF Cleanup, locals
<1>2. /\ New' = New /\ Gone' = Gone /\ Skipped' = Skipped /\ Passed' = Passed
      /\ Filling' = {} /\ Filling = {} /\ Joining' = {} /\ Joining = {} /\ Wired' = {}
      /\ \A u \in Thread : pc[u] \notin Wiring
  BY <1>1, NoneWires, SamePlaces
<1>3. Listed' = Listed
  BY <1>1, <1>2 DEF Listed
<1>4. Owned'
  BY <1>1, Basics DEF Owned
<1>5. ASSUME NEW u \in Thread PROVE Local(u)'
  BY <1>1, <1>2, Basics, LocalStays DEF Wiring
<1>6. Into' /\ Back' /\ Forth' /\ Heads'
  BY <1>1, <1>2, <1>3, Sets DEF Safe, Linked, Into, Back, Forth, Heads
<1>7. (\E N \in Nat : \E r \in [Block -> 0 .. N] : Rises(r, N))'
  <2>1. PICK N \in Nat : \E r \in [Block -> 0 .. N] : Rises(r, N)
    BY Rising
  <2>2. PICK r \in [Block -> 0 .. N] : Rises(r, N)
    BY <2>1
  <2>3. Rises(r, N)'
    BY <1>1, <1>3, <2>2 DEF Rises
  <2> QED  BY <2>3
<1> QED  BY <1>4, <1>5, <1>6, <1>7 DEF Linked

\* The list of a sandbox that is not applied holds listed blocks only, no block
\* points into it from outside, and it is not the list that is being wired to.
LEMMA FreedApart ==
  ASSUME Safe, ~g_sandboxed, last_alloc_ /= NULL
  PROVE  LET freed == ListFrom(last_alloc_)
         IN  /\ freed \subseteq Listed /\ last_alloc_ \in Listed
             /\ \A b \in Listed \ freed : prev[b] \notin freed /\ next[b] \notin freed
             /\ g_last_alloc \notin freed /\ Joining \intersect freed = {}
             /\ Filling \intersect freed = {}
<1> DEFINE F == ListFrom(last_alloc_)
<1>1. Skipped = {} /\ Passed = {}
  BY NoneFrees
<1>2. /\ last_alloc_ \in Listed /\ next[last_alloc_] = NULL
      /\ last_alloc_ /= g_last_alloc /\ last_alloc_ \notin Joining
  BY DEF Safe, Linked, Heads
<1>3. \A c \in Listed : prev[c] \in Listed \union {NULL}
  BY DEF Safe, Linked, Into
<1>4. F \subseteq Listed
  BY <1>2, <1>3, Sets, ListIsLeast
<1>5. \A b \in Listed : prev[b] /= NULL => next[prev[b]] = b
  BY <1>1 DEF Safe, Linked, Back
<1>6. \A c \in F : c /= last_alloc_ => \E d \in F : prev[d] = c /\ next[c] = d /\ d /= NULL
  <2> SUFFICES ASSUME NEW c \in F, c /= last_alloc_
               PROVE  \E d \in F : prev[d] = c /\ next[c] = d /\ d /= NULL
    OBVIOUS
  <2>1. PICK d \in F : prev[d] = c
    BY ListBefore
  <2> QED  BY <1>4, <1>5, <2>1, Sets
<1>7. ASSUME NEW b \in Listed \ F PROVE prev[b] \notin F /\ next[b] \notin F
  <2>1. prev[b] \in F => FALSE
    <3> SUFFICES ASSUME prev[b] \in F PROVE FALSE
      OBVIOUS
    <3>1. next[prev[b]] = b
      BY <1>4, <1>5, Sets
    <3> QED  BY <1>2, <1>6, <1>7, <3>1, Sets
  <2>2. next[b] \in F => FALSE
    <3> SUFFICES ASSUME next[b] \in F PROVE FALSE
      OBVIOUS
    <3>1. prev[next[b]] = b
      BY <1>1, <1>4 DEF Safe, Linked, Forth
    <3> QED  BY <1>4, <1>7, <3>1, Sets, ListCloses
  <2> QED  BY <2>1, <2>2
<1>8. Joining \intersect F = {} /\ Filling \intersect F = {}
  <2>1. \A w \in Joining : next[w] = NULL
    BY Basics DEF Joining, Of, Local
  <2> QED  BY <1>2, <1>4, <1>6, <2>1, Sets
<1>9. g_last_alloc \notin F
  <2> SUFFICES ASSUME g_last_alloc \in F PROVE FALSE
    OBVIOUS
  <2>1. next[g_last_alloc] \in {NULL} \union Filling \union Joining
    BY <1>4, Sets DEF Safe, Linked, Heads
  <2> QED  BY <1>2, <1>6, <1>8, <2>1
<1> QED  BY <1>2, <1>4, <1>7, <1>8, <1>9

\* Freeing the kept list leaves the others whole.
LEMMA FreeAllKeeps ==
  ASSUME Safe, FreeAll PROVE Linked'
<1> DEFINE F == ListFrom(last_alloc_)
<1>1. /\ ~g_sandboxed /\ last_alloc_ /= NULL
      /\ live' = live \ F
      /\ next' = [b \in Block |-> IF b \in F THEN JUNK ELSE next[b]]
      /\ prev' = [b \in Block |-> IF b \in F THEN JUNK ELSE prev[b]]
      /\ wild' = ~(last_alloc_ \in Block /\ F \subseteq live)
      /\ last_alloc_' = NULL
      /\ UNCHANGED <<g_last_alloc, g_sandboxed, pc, user_ptr, next_ptr, prev_ptr>>
  BY DEF FreeAll, locals
<1>2. /\ F \subseteq Listed /\ last_alloc_ \in Listed
      /\ \A b \in Listed \ F : prev[b] \notin F /\ next[b] \notin F
      /\ g_last_alloc \notin F /\ Joining \intersect F = {} /\ Filling \intersect F = {}
  BY <1>1, FreedApart
<1> HIDE DEF F
<1>3. /\ New' = New /\ Gone' = Gone /\ Skipped' = {} /\ Skipped = {} /\ Passed' = {} /\ Passed = {}
      /\ Filling' = Filling /\ Joining' = Joining /\ Wired' = Wired
      /\ \A u \in Thread : pc[u] \notin Freeing
  BY <1>1, NoneFrees, SamePlaces
<1>4. Listed' = Listed \ F
  BY <1>1, <1>3 DEF Listed
<1>5. \A b \in Block \ F : next'[b] = next[b] /\ prev'[b] = prev[b]
  BY <1>1
<1>6. \A b \in Listed \ F : /\ next'[b] = next[b] /\ prev'[b] = prev[b]
                            /\ prev[b] \in (Listed \ F) \union {NULL}
                            /\ \/ next[b] \in (Listed \ F) \union {NULL}
                               \/ b = g_last_alloc /\ next[b] \in Filling
  BY <1>2, <1>5, Sets DEF Safe, Linked, Into
<1>7. Owned'
  <2>1. (~(last_alloc_ \in Block /\ F \subseteq live)) = FALSE
    BY <1>2, Sets DEF Listed
  <2>2. wild' = FALSE
    BY <1>1, <2>1, Zenon
  <2>3. \A u \in Thread : pc[u] /= "idle" => user_ptr[u] \notin F
    <3> SUFFICES ASSUME NEW u \in Thread, pc[u] /= "idle", user_ptr[u] \in F PROVE FALSE
      OBVIOUS
    <3>1. user_ptr[u] \notin New /\ user_ptr[u] \notin Joining
      BY <1>2, Sets
    <3>2. pc[u] \notin {"lock", "link", "fill", "head"}
      BY <3>1, Basics, Places
    <3> QED  BY <1>3, <3>2, Basics DEF Stages, Mallocing, Wiring
  <2> QED  BY <1>1, <2>2, <2>3, Basics DEF Owned
<1>8. ASSUME NEW u \in Thread PROVE Local(u)'
  <2>1. pc[u] \notin Unlinking
    BY <1>3 DEF Freeing
  <2>2. pc[u] = "head" => user_ptr[u] \in Block \ F
    BY <1>2, Sets DEF Joining, Of
  <2>3. g_last_alloc /= NULL => g_last_alloc \in Block \ F
    BY <1>2, Sets DEF Safe, Linked, Heads
  <2> QED  BY <1>1, <1>5, <2>1, <2>2, <2>3, Basics, LocalStays
<1>9. Into'
  BY <1>1, <1>3, <1>4, <1>6 DEF Into
<1>10. Back'
  BY <1>3, <1>4, <1>6 DEF Safe, Linked, Back
<1>11. Forth'
  BY <1>3, <1>4, <1>6 DEF Safe, Linked, Forth
<1>12. Heads'
  BY <1>1, <1>2, <1>3, <1>4, <1>6 DEF Safe, Linked, Heads
<1>13. (\E N \in Nat : \E r \in [Block -> 0 .. N] : Rises(r, N))'
  <2>1. PICK N \in Nat : \E r \in [Block -> 0 .. N] : Rises(r, N)
    BY Rising
  <2>2. PICK r \in [Block -> 0 .. N] : Rises(r, N)
    BY <2>1
  <2>3. Rises(r, N)'
    BY <1>4, <1>6, <2>2 DEF Rises
  <2> QED  BY <2>3
<1> QED  BY <1>7, <1>8, <1>9, <1>10, <1>11, <1>12, <1>13 DEF Linked

--------------------------------------------------------------------------------
\* Nothing has overlapped: every call is within the sandboxed call.
Plain == Safe /\ OneHead /\ overlaps = {}

\* No call is under way outside the sandboxed call.
LEMMA Within ==
  ASSUME Plain
  PROVE  \A t \in Thread : pc[t] \in Mallocing \union Freeing => g_sandboxed
<1>1. "late_malloc" \notin Overlapping
  BY DEF Plain, Safe, Seen
<1>2. \A t \in Thread : pc[t] \in Mallocing => g_sandboxed
  BY <1>1 DEF Overlapping
<1> QED  BY <1>2, Apart DEF Plain

\* Nothing changes for the head.
LEMMA HeadStays ==
  ASSUME OneHead, UNCHANGED <<next, prev, g_last_alloc, g_sandboxed, last_alloc_>>,
         Listed' = Listed, Joining' = Joining, Skipped' = Skipped
  PROVE  OneHead'
BY DEF OneHead, Head

\* A call begins.
LEMMA BeginsOneHead ==
  ASSUME Plain, NEW t \in Thread, NEW b \in Block, MallocBegin(t, b) \/ FreeBegin(t, b)
  PROVE  OneHead'
<1>1. CASE MallocBegin(t, b)
  <2>1. /\ pc[t] = "idle" /\ pc' = [pc EXCEPT ![t] = "lock"] /\ b \notin live
        /\ live' = live \union {b} /\ user_ptr' = [user_ptr EXCEPT ![t] = b]
        /\ UNCHANGED <<next, prev, g_last_alloc, g_sandboxed, last_alloc_>>
    BY <1>1 DEF MallocBegin, At, Goto, sandbox
  <2>2. /\ New' = New \union (IF "lock" = "lock" THEN {b} ELSE {})
        /\ Gone' = Gone /\ Skipped' = Skipped /\ Passed' = Passed
        /\ Filling' = Filling /\ Joining' = Joining /\ Wired' = Wired
    BY <2>1, Basics, Begins DEF Plain
  <2>3. Listed' = Listed
    BY <2>1, <2>2 DEF Listed
  <2> QED  BY <2>1, <2>2, <2>3, HeadStays DEF Plain
<1>2. CASE FreeBegin(t, b)
  <2>1. /\ pc[t] = "idle" /\ pc' = [pc EXCEPT ![t] = "read_next"]
        /\ live' = live /\ user_ptr' = [user_ptr EXCEPT ![t] = b]
        /\ UNCHANGED <<next, prev, g_last_alloc, g_sandboxed, last_alloc_>>
    BY <1>2 DEF FreeBegin, InNoCall, At, Goto, sandbox
  <2>2. /\ New' = New \union (IF "read_next" = "lock" THEN {b} ELSE {})
        /\ Gone' = Gone /\ Skipped' = Skipped /\ Passed' = Passed
        /\ Filling' = Filling /\ Joining' = Joining /\ Wired' = Wired
    BY <2>1, Basics, Begins DEF Plain
  <2>3. Listed' = Listed
    BY <2>1, <2>2 DEF Listed
  <2> QED  BY <2>1, <2>2, <2>3, HeadStays DEF Plain
<1> QED  BY <1>1, <1>2

\* While a block is wired the head is not being unlinked, so that it is the only
\* block without a next one.
LEMMA WiringOneHead ==
  ASSUME Plain, NEW t \in Thread, pc[t] \in Wiring
  PROVE  /\ Head = g_last_alloc /\ g_last_alloc \notin Skipped /\ g_sandboxed
         /\ \A b \in Listed : next[b] = NULL => b = g_last_alloc \/ b = user_ptr[t]
         /\ pc[t] /= "head" => \A b \in Listed : next[b] = NULL => b = g_last_alloc
<1>1. g_sandboxed
  BY Within DEF Mallocing
<1>2. g_last_alloc \notin Leaving /\ (Joining = IF pc[t] = "head" THEN {user_ptr[t]} ELSE {})
  BY OneWires DEF Plain
<1> QED  BY <1>1, <1>2, Sets DEF Plain, OneHead, Head

\* The mutex is taken.
LEMMA LockOneHead ==
  ASSUME Plain, NEW t \in Thread, Lock(t) PROVE OneHead'
<1> DEFINE y == user_ptr[t]
<1>1. /\ pc[t] = "lock" /\ pc' = [pc EXCEPT ![t] = "link"] /\ user_ptr' = user_ptr
      /\ UNCHANGED <<next, prev, live, g_last_alloc, g_sandboxed, last_alloc_>>
  BY DEF Lock, At, Goto, locals
<1>2. pc[t] \in {"lock", "link", "fill"} /\ "link" \in Wiring /\ Safe
  BY <1>1 DEF Wiring, Plain
<1>3. /\ Listed' = IF "link" = "head" THEN Listed \union {y} ELSE Listed
      /\ Skipped' = Skipped /\ Passed' = Passed
      /\ Filling' = IF "link" = "fill" THEN Filling \union {y} ELSE Filling \ {y}
      /\ Joining' = IF "link" = "head" THEN Joining \union {y} ELSE Joining \ {y}
      /\ Wired' = Wired \union {y} /\ y \notin Listed /\ y \notin Joining
  BY <1>1, <1>2, Wires
<1>4. Listed' = Listed /\ Skipped' = Skipped /\ Joining' = Joining
  BY <1>3
<1> QED  BY <1>1, <1>4, HeadStays DEF Plain

\* The head has a next block, and no block is without one.
LEMMA LinkOneHead ==
  ASSUME Plain, NEW t \in Thread, Link(t) PROVE OneHead'
<1> DEFINE y == user_ptr[t]
           g == g_last_alloc
<1>1. /\ pc[t] = "link" /\ pc' = [pc EXCEPT ![t] = "fill"] /\ user_ptr' = user_ptr
      /\ next' = Store(next, g, y)
      /\ UNCHANGED <<prev, live, g_last_alloc, g_sandboxed, last_alloc_>>
  BY DEF Link, At, Goto, sandbox, locals
<1>2. /\ pc[t] \in {"lock", "link", "fill"} /\ pc[t] \in Wiring /\ "fill" \in Wiring
      /\ Safe
  BY <1>1 DEF Wiring, Plain
<1>3. y \in Block
  BY <1>2, OneWires
<1>4. /\ Listed' = IF "fill" = "head" THEN Listed \union {y} ELSE Listed
      /\ Skipped' = Skipped /\ Passed' = Passed
      /\ Filling' = IF "fill" = "fill" THEN Filling \union {y} ELSE Filling \ {y}
      /\ Joining' = IF "fill" = "head" THEN Joining \union {y} ELSE Joining \ {y}
      /\ Wired' = Wired \union {y} /\ y \notin Listed /\ y \notin Joining
  BY <1>1, <1>2, Wires
<1>5. Listed' = Listed
  BY <1>4
<1>7. \A b \in Block : next'[b] = IF b = g THEN y ELSE next[b]
  BY <1>1, <1>2, <1>3, Basics, Stored
<1>8. g_sandboxed /\ \A b \in Listed : next[b] = NULL => b = g
  BY <1>1, <1>2, WiringOneHead
<1>9. \A b \in Listed : next'[b] /= NULL
  BY <1>2, <1>3, <1>7, <1>8, Sets
<1> QED  BY <1>1, <1>5, <1>8, <1>9 DEF OneHead

\* The block that is about to be the head has none.
LEMMA FillOneHead ==
  ASSUME Plain, NEW t \in Thread, Fill(t) PROVE OneHead'
<1> DEFINE y == user_ptr[t]
           g == g_last_alloc
<1>1. /\ pc[t] = "fill" /\ pc' = [pc EXCEPT ![t] = "head"] /\ user_ptr' = user_ptr
      /\ next' = Store(next, y, NULL)
      /\ UNCHANGED <<live, g_last_alloc, g_sandboxed, last_alloc_>>
  BY DEF Fill, At, Goto, sandbox, locals
<1>2. /\ pc[t] \in {"lock", "link", "fill"} /\ pc[t] \in Wiring /\ "head" \in Wiring
      /\ Safe
  BY <1>1 DEF Wiring, Plain
<1>3. y \in Block /\ Joining = {}
  BY <1>1, <1>2, OneWires
<1>4. /\ Listed' = IF "head" = "head" THEN Listed \union {y} ELSE Listed
      /\ Skipped' = Skipped /\ Passed' = Passed
      /\ Filling' = IF "head" = "fill" THEN Filling \union {y} ELSE Filling \ {y}
      /\ Joining' = IF "head" = "head" THEN Joining \union {y} ELSE Joining \ {y}
      /\ Wired' = Wired \union {y} /\ y \notin Listed /\ y \notin Joining
  BY <1>1, <1>2, Wires
<1>5. Joining' = {y} /\ Listed' = Listed \union {y}
  BY <1>3, <1>4
<1>7. \A b \in Block \ {y} : next'[b] = next[b]
  BY <1>1, <1>2, Basics, Stored
<1>8. g_sandboxed /\ \A b \in Listed : next[b] = NULL => b = g
  BY <1>1, <1>2, WiringOneHead
<1>9. \A b \in Listed' : next'[b] = NULL => b = g \/ b \in Joining'
  BY <1>2, <1>5, <1>7, <1>8, Sets
<1> QED  BY <1>1, <1>8, <1>9 DEF OneHead, Head

\* It is the head, and the one before it has a next block.
LEMMA NewHeadOneHead ==
  ASSUME Plain, NEW t \in Thread, NewHead(t) PROVE OneHead'
<1> DEFINE y == user_ptr[t]
           g == g_last_alloc
<1>1. /\ pc[t] = "head" /\ pc' = [pc EXCEPT ![t] = "idle"]
      /\ user_ptr' = [user_ptr EXCEPT ![t] = NULL] /\ g_last_alloc' = y
      /\ UNCHANGED <<next, prev, live, g_sandboxed, last_alloc_>>
  BY DEF NewHead, Return, At, Goto
<1>2. pc[t] /= "idle" /\ pc[t] \in Wiring /\ Safe
  BY <1>1 DEF Wiring, Plain
<1>3. /\ New' = New \ {y} /\ Gone' = Gone \ {y} /\ Skipped' = Skipped \ {y}
      /\ Passed' = Passed \ {y} /\ Filling' = Filling \ {y}
      /\ Joining' = Joining \ {y} /\ Wired' = Wired \ {y}
  BY <1>1, <1>2, Basics, Returns
<1>4. y \notin New /\ y \notin Gone /\ y \notin Skipped /\ y \in Joining
  BY <1>1, <1>2, Basics, Places
<1>5. Listed' = Listed /\ y \in Listed /\ y /= NULL
  BY <1>1, <1>2, <1>3, <1>4, Sets DEF Listed
<1>6. g_sandboxed /\ \A b \in Listed : next[b] = NULL => b = g \/ b = y
  BY <1>1, <1>2, WiringOneHead
<1>7. g \in Listed => next[g] /= NULL
  <2>1. prev[y] = g
    BY <1>1, <1>2, Basics DEF Local
  <2> QED  BY <1>2, <1>4, <1>5, <2>1, Sets DEF Safe, Linked, Back
<1> QED  BY <1>1, <1>5, <1>6, <1>7 DEF OneHead, Head


\* A thread in sandbox_free() goes on: what Unlinks says, for each of its steps.
LEMMA ReadOneHead ==
  ASSUME Plain, NEW t \in Thread, ReadNext(t) \/ ReadPrev(t) PROVE OneHead'
<1> DEFINE x == user_ptr[t]
<1>1. PICK l \in {"read_prev", "patch_prev"} :
        /\ pc[t] \in {"read_next", "read_prev"}
        /\ pc' = [pc EXCEPT ![t] = l] /\ user_ptr' = user_ptr
        /\ UNCHANGED <<next, prev, live, g_last_alloc, g_sandboxed, last_alloc_>>
  BY DEF ReadNext, ReadPrev, At, Goto, sandbox
<1>2. pc[t] \in Unlinking /\ l \in Freeing /\ Safe
  BY <1>1 DEF Unlinking, Freeing, Plain
<1>3. /\ Listed' = IF l = "release" THEN Listed \ {x} ELSE Listed
      /\ Joining' = Joining
      /\ Skipped' = IF l \in {"patch_next", "update_head"} THEN Skipped \union {x} ELSE Skipped \ {x}
      /\ x \in Skipped <=> pc[t] \in {"patch_next", "update_head"}
  BY <1>1, <1>2, Unlinks
<1>4. Listed' = Listed /\ Joining' = Joining /\ Skipped' = Skipped
  BY <1>1, <1>3
<1> QED  BY <1>1, <1>4, HeadStays DEF Plain

\* If the head is skipped, the one before it has no next block.
LEMMA PatchPrevOneHead ==
  ASSUME Plain, NEW t \in Thread, PatchPrev(t) PROVE OneHead'
<1> DEFINE x == user_ptr[t]
           n == next[x]
           p == prev[x]
<1>1. /\ pc[t] = "patch_prev" /\ pc' = [pc EXCEPT ![t] = "patch_next"] /\ user_ptr' = user_ptr
      /\ next_ptr[t] = n /\ prev_ptr[t] = p /\ next' = Store(next, p, n)
      /\ UNCHANGED <<prev, live, g_last_alloc, g_sandboxed, last_alloc_>>
  BY Basics DEF PatchPrev, At, Goto, locals, sandbox, Local, Plain
<1>2. pc[t] \in Unlinking /\ "patch_next" \in Freeing /\ Safe
  BY <1>1 DEF Unlinking, Freeing, Plain
<1>3. /\ x \in Listed /\ n \in Listed \union {NULL} /\ p \in Listed \union {NULL} /\ x /= p
      /\ \A z \in Leaving \ {x} : prev[z] /= x
  BY <1>2, Neighbourhood
<1>4. /\ Listed' = IF "patch_next" = "release" THEN Listed \ {x} ELSE Listed
      /\ Joining' = Joining
      /\ Skipped' = IF "patch_next" \in {"patch_next", "update_head"} THEN Skipped \union {x}
                    ELSE Skipped \ {x}
  BY <1>1, <1>2, Unlinks
<1>5. Listed' = Listed /\ Joining' = Joining /\ Skipped' = Skipped \union {x}
  BY <1>4
<1>6. \A b \in Block : next'[b] = IF b = p THEN n ELSE next[b]
  BY <1>1, <1>2, <1>3, Basics, Stored, Sets
<1>7. n = NULL => x = Head
  <2>1. x \in Leaving /\ x \notin Joining
    BY <1>1, <1>2, Basics, Places
  <2>2. Head \in Skipped /\ prev[Head] = x => FALSE
    BY <1>2, <1>3, Sets
  <2> QED  BY <1>3, <2>1, <2>2 DEF Plain, OneHead
<1>8. ASSUME NEW b \in Listed, next'[b] = NULL
      PROVE  b = Head \/ b \in Joining \/ (Head \in Skipped' /\ prev[Head] = b)
  <2>1. CASE b = p
    BY <1>2, <1>3, <1>5, <1>6, <1>7, <1>8, <2>1, Sets
  <2>2. CASE b /= p
    BY <1>2, <1>5, <1>6, <1>8, <2>2, Sets DEF Plain, OneHead
  <2> QED  BY <2>1, <2>2
<1>9. Head' = Head
  BY <1>1 DEF Head
<1> QED  BY <1>1, <1>5, <1>8, <1>9 DEF Plain, OneHead

\* The words of Skipped blocks stay.
LEMMA PatchNextOneHead ==
  ASSUME Plain, NEW t \in Thread, PatchNext(t) PROVE OneHead'
<1> DEFINE x == user_ptr[t]
           n == next[x]
           p == prev[x]
<1>1. /\ pc[t] = "patch_next" /\ pc' = [pc EXCEPT ![t] = "update_head"] /\ user_ptr' = user_ptr
      /\ next_ptr[t] = n /\ prev_ptr[t] = p /\ prev' = Store(prev, n, p)
      /\ UNCHANGED <<next, live, g_last_alloc, g_sandboxed, last_alloc_>>
  BY Basics DEF PatchNext, At, Goto, locals, sandbox, Local, Plain
<1>2. pc[t] \in Unlinking /\ "update_head" \in Freeing /\ Safe
  BY <1>1 DEF Unlinking, Freeing, Plain
<1>3. /\ n \in Listed \union {NULL} /\ p \in Listed \union {NULL} /\ x /= n
      /\ \A z \in Leaving \ {x} : z /= n
  BY <1>2, Neighbourhood
<1>4. /\ Listed' = IF "update_head" = "release" THEN Listed \ {x} ELSE Listed
      /\ Joining' = Joining
      /\ Skipped' = IF "update_head" \in {"patch_next", "update_head"} THEN Skipped \union {x}
                    ELSE Skipped \ {x}
      /\ x \in Skipped <=> pc[t] \in {"patch_next", "update_head"}
  BY <1>1, <1>2, Unlinks
<1>5. Listed' = Listed /\ Joining' = Joining /\ Skipped' = Skipped
  BY <1>1, <1>4
<1>6. \A b \in Block \ {n} : prev'[b] = prev[b]
  BY <1>1, <1>2, <1>3, Basics, Stored, Sets
<1>7. \A b \in Skipped : prev'[b] = prev[b]
  BY <1>2, <1>3, <1>6, Sets
<1>8. Head' = Head
  BY <1>1 DEF Head
<1> QED  BY <1>1, <1>5, <1>7, <1>8 DEF Plain, OneHead

\* The one before the head takes its place.
LEMMA UpdateHeadOneHead ==
  ASSUME Plain, NEW t \in Thread, UpdateHead(t) PROVE OneHead'
<1> DEFINE x == user_ptr[t]
           p == prev[x]
<1>1. /\ pc[t] = "update_head" /\ pc' = [pc EXCEPT ![t] = "release"] /\ user_ptr' = user_ptr
      /\ prev_ptr[t] = p
      /\ g_last_alloc' = IF g_last_alloc = x THEN p ELSE g_last_alloc
      /\ UNCHANGED <<next, prev, live, g_sandboxed, last_alloc_>>
  BY Basics DEF UpdateHead, At, Goto, locals, Local, Plain
<1>2. pc[t] \in Unlinking /\ "release" \in Freeing /\ Safe
  BY <1>1 DEF Unlinking, Freeing, Plain
<1>3. g_sandboxed
  BY <1>2, Neighbourhood
<1>4. /\ Listed' = IF "release" = "release" THEN Listed \ {x} ELSE Listed
      /\ Joining' = Joining
      /\ Skipped' = IF "release" \in {"patch_next", "update_head"} THEN Skipped \union {x}
                    ELSE Skipped \ {x}
  BY <1>1, <1>2, Unlinks
<1>5. Listed' = Listed \ {x} /\ Joining' = Joining /\ Skipped' = Skipped \ {x}
  BY <1>4
<1>6. Head = g_last_alloc /\ Head' = g_last_alloc'
  BY <1>1, <1>3 DEF Head
<1> QED  BY <1>1, <1>3, <1>5, <1>6 DEF Plain, OneHead

\* A block that is not listed is given back.
LEMMA ReleaseOneHead ==
  ASSUME Plain, NEW t \in Thread, Release(t) PROVE OneHead'
<1> DEFINE x == user_ptr[t]
<1>1. /\ pc[t] = "release" /\ pc' = [pc EXCEPT ![t] = "idle"]
      /\ user_ptr' = [user_ptr EXCEPT ![t] = NULL]
      /\ live' = live \ {x} /\ next' = Store(next, x, JUNK) /\ prev' = Store(prev, x, JUNK)
      /\ UNCHANGED <<g_last_alloc, g_sandboxed, last_alloc_>>
  BY DEF Release, Return, At, Goto, sandbox
<1>2. pc[t] /= "idle" /\ Safe
  BY <1>1 DEF Plain
<1>3. /\ New' = New \ {x} /\ Gone' = Gone \ {x} /\ Skipped' = Skipped \ {x}
      /\ Passed' = Passed \ {x} /\ Filling' = Filling \ {x}
      /\ Joining' = Joining \ {x} /\ Wired' = Wired \ {x}
  BY <1>1, <1>2, Basics, Returns
<1>4. x \notin New /\ x \in Gone /\ x \notin Skipped /\ x \notin Joining
  BY <1>1, <1>2, Basics, Places
<1>5. Listed' = Listed /\ Joining' = Joining /\ Skipped' = Skipped /\ x \notin Listed
  BY <1>1, <1>3, <1>4 DEF Listed
<1>6. \A b \in Listed : next'[b] = next[b] /\ prev'[b] = prev[b]
  BY <1>1, <1>2, <1>5, Stored, Basics, Sets
<1>7. Skipped \subseteq Listed
  BY <1>2, Sets
<1>8. Head' = Head
  BY <1>1 DEF Head
<1> QED  BY <1>1, <1>5, <1>6, <1>7, <1>8 DEF Plain, OneHead

\* The head goes with the sandbox, and FreeAll leaves no list.
LEMMA CallOneHead ==
  ASSUME Plain, Prepare \/ Cleanup \/ FreeAll PROVE OneHead'
<1>1. CASE Prepare
  BY <1>1, SamePlaces DEF Prepare, locals, Plain, OneHead, Head, Listed
<1>2. CASE Cleanup
  BY <1>2, SamePlaces DEF Cleanup, locals, Plain, OneHead, Head, Listed
<1>3. CASE FreeAll
  <2> DEFINE F == ListFrom(last_alloc_)
  <2>1. /\ ~g_sandboxed /\ last_alloc_ /= NULL
        /\ live' = live \ F
        /\ next' = [b \in Block |-> IF b \in F THEN JUNK ELSE next[b]]
        /\ UNCHANGED <<g_last_alloc, g_sandboxed, pc, user_ptr>>
    BY <1>3 DEF FreeAll, locals
  <2>2. last_alloc_ \in F
    BY <2>1, FreedApart, Sets, ListStarts DEF Plain
  <2> HIDE DEF F
  <2>3. Listed' = Listed \ F
    BY <2>1, SamePlaces DEF Listed
  <2>4. Skipped = {} /\ Joining = {}
    <3>1. \A t \in Thread : pc[t] \notin {"head", "patch_next", "update_head"}
      BY <2>1, Within DEF Mallocing, Wiring, Freeing, Unlinking
    <3> QED  BY <3>1 DEF Skipped, Joining, Of
  <2>5. \A b \in Listed \ F : next'[b] /= NULL
    BY <2>1, <2>2, <2>4, Sets DEF Plain, OneHead, Head
  <2> QED  BY <2>1, <2>3, <2>5 DEF Plain, OneHead
<1> QED  BY <1>1, <1>2, <1>3

--------------------------------------------------------------------------------
\* When the threads pause, the list is what is allocated: a block that is not in
\* it has a next one that is not in it either, and they cannot rise for ever.
LEMMA ListIsLive ==
  ASSUME Plain, Quiet PROVE ListFrom(Head) = live
<1> DEFINE T == ListFrom(Head)
<1>1. /\ Listed = live /\ Skipped = {} /\ Passed = {} /\ Filling = {} /\ Joining = {}
      /\ live \subseteq Block /\ NULL \notin Block /\ Safe
  BY Sets DEF Plain, Quiet, Listed, New, Gone, Skipped, Passed, Filling, Joining, Of
<1>2. Head \in live \union {NULL}
  BY <1>1 DEF Head, Safe, Linked, Heads
<1>3. T \subseteq live
  <2>1. \A c \in live : prev[c] \in Block => prev[c] \in live
    BY <1>1 DEF Safe, Linked, Into
  <2> QED  BY <1>1, <1>2, <2>1, ListIsLeast
<1>4. ASSUME NEW b \in live \ T PROVE next[b] \in live \ T
  <2>1. b /= Head
    BY <1>1, <1>4, ListStarts
  <2>2. next[b] \in live
    BY <1>1, <2>1 DEF Plain, OneHead, Safe, Linked, Into
  <2>3. prev[next[b]] = b
    BY <1>1, <2>2 DEF Safe, Linked, Forth
  <2>4. next[b] \notin T
    BY <1>1, <1>4, <2>3, ListCloses
  <2> QED  BY <2>2, <2>4
<1> HIDE DEF T
<1>5. PICK N \in Nat : \E r \in [Block -> 0 .. N] : Rises(r, N)
  BY <1>1, Rising
<1>6. PICK r \in [Block -> 0 .. N] : Rises(r, N)
  BY <1>5
<1>7. \A b \in live \ T : r[b] \in 0 .. N /\ r[b] < r[next[b]]
  BY <1>1, <1>4, <1>6 DEF Rises
<1>8. live \ T = {}
  <2> SUFFICES ASSUME live \ T /= {} PROVE FALSE
    OBVIOUS
  <2> DEFINE D == {N - r[b] : b \in live \ T}
  <2>1. D \in SUBSET Nat /\ D /= {}
    BY <1>5, <1>7
  <2>2. PICK d \in D : \A e \in D : d <= e
    <3> HIDE DEF D
    <3> QED  BY <2>1, Smallest
  <2>3. PICK b \in live \ T : d = N - r[b]
    BY <2>2
  <2>4. N - r[next[b]] \in D
    BY <1>4
  <2>5. r[b] \in Nat /\ r[next[b]] \in Nat /\ r[b] < r[next[b]]
    BY <1>4, <1>5, <1>7
  <2> HIDE DEF D
  <2>6. N - r[b] <= N - r[next[b]]
    BY <2>2, <2>3, <2>4
  <2> QED  BY <1>5, <2>5, <2>6
<1> QED  BY <1>3, <1>8 DEF T

--------------------------------------------------------------------------------
\* What the real malloc() and free() do outside is of no list.
LEMMA PlainKeeps ==
  ASSUME NEW t \in Thread, NEW b \in Block, PlainMalloc(t, b) \/ PlainFree(t, b)
  PROVE  /\ Safe => Linked'
         /\ Plain => OneHead'
<1>1. UNCHANGED <<next, prev, live, g_last_alloc, g_sandboxed, last_alloc_, pc, user_ptr,
                  next_ptr, prev_ptr, wild>>
  BY DEF PlainMalloc, PlainFree, sandbox, locals
<1>2. /\ New' = New /\ Gone' = Gone /\ Skipped' = Skipped /\ Passed' = Passed
      /\ Filling' = Filling /\ Joining' = Joining /\ Wired' = Wired
  BY <1>1, SamePlaces
<1>3. Listed' = Listed
  BY <1>1, <1>2 DEF Listed
<1>4. ASSUME Safe PROVE Linked'
  <2>1. Owned'
    BY <1>1, <1>4, Basics DEF Owned
  <2>2. \A u \in Thread : Local(u)'
    BY <1>1, <1>4, Basics, LocalStays
  <2> QED  BY <1>1, <1>2, <1>3, <1>4, <2>1, <2>2, SameLists
<1>5. ASSUME Plain PROVE OneHead'
  BY <1>1, <1>2, <1>3, <1>5, HeadStays DEF Plain
<1> QED  BY <1>4, <1>5

\* Every step of a thread keeps the lists linked.
LEMMA StepLinked ==
  ASSUME Safe, NEW t \in Thread, Step(t) PROVE Linked'
BY PlainKeeps, MallocBeginKeeps, FreeBeginKeeps, LockKeeps, LinkKeeps, FillKeeps, NewHeadKeeps,
   ReadNextKeeps,
   ReadPrevKeeps, PatchPrevKeeps, PatchNextKeeps, UpdateHeadKeeps, ReleaseKeeps DEF Step

\* And keeps one head, while nothing has overlapped.
LEMMA StepOneHead ==
  ASSUME Plain, NEW t \in Thread, Step(t) PROVE OneHead'
BY PlainKeeps, BeginsOneHead, LockOneHead, LinkOneHead, FillOneHead, NewHeadOneHead, ReadOneHead,
   PatchPrevOneHead, PatchNextOneHead, UpdateHeadOneHead, ReleaseOneHead DEF Step

\* Every step keeps the invariant.
LEMMA CallsKeep ==
  ASSUME IInv, (\E t \in Thread : Step(t)) \/ Prepare \/ Cleanup \/ FreeAll, Observe
  PROVE  IInv'
<1>1. overlaps' = overlaps \union Overlapping'
  BY DEF Observe
<1>2. Typed'
  BY StepTyped, CallTyped DEF IInv
<1>3. Seen'
  BY <1>1 DEF Seen
<1>4. ASSUME overlaps' \subseteq {"late_malloc"} PROVE Linked'
  <2>1. Safe
    BY <1>1, <1>4 DEF IInv, Safe
  <2> QED  BY <2>1, StepLinked, PrepareKeeps, CleanupKeeps, FreeAllKeeps
<1>5. ASSUME overlaps' = {} PROVE OneHead'
  <2>1. Plain
    BY <1>1, <1>5 DEF IInv, Safe, Plain
  <2> QED  BY <2>1, StepOneHead, CallOneHead
<1> QED  BY <1>2, <1>3, <1>4, <1>5 DEF IInv

\* After a free() on the wrong side nothing is claimed but types.
LEMMA AcrossKeeps ==
  ASSUME IInv, NEW t \in Thread, NEW b \in Block, FreeAcross(t, b) PROVE IInv'
<1>1. Typed'
  BY AcrossTyped DEF IInv
<1>2. overlaps' = overlaps \union {"wrong_side"} /\ UNCHANGED <<next, prev, sandbox, pc, locals>>
  BY DEF FreeAcross
<1>3. Seen'
  BY <1>2 DEF IInv, Seen, Overlapping, Adjacent, sandbox, locals
<1>4. ~(overlaps' \subseteq {"late_malloc"}) /\ overlaps' /= {}
  BY <1>2
<1> QED  BY <1>1, <1>3, <1>4 DEF IInv

LEMMA NextKeeps ==
  ASSUME IInv, Next PROVE IInv'
BY CallsKeep, AcrossKeeps DEF Next

\* As does a stutter.
LEMMA IdleKeeps ==
  ASSUME IInv, UNCHANGED vars PROVE IInv'
<1>1. UNCHANGED <<next, prev, live, bare, g_last_alloc, g_sandboxed, last_alloc_, mutex, pc,
                  user_ptr, next_ptr, prev_ptr, overlaps, wild>>
  BY DEF vars, sandbox, locals
<1>2. Typed'
  BY <1>1 DEF IInv, Typed, TypeOK
<1>3. Seen'
  BY <1>1 DEF IInv, Seen, Overlapping, Adjacent
<1>4. /\ New' = New /\ Gone' = Gone /\ Skipped' = Skipped /\ Passed' = Passed
      /\ Filling' = Filling /\ Joining' = Joining /\ Wired' = Wired
  BY <1>1, SamePlaces
<1>5. Listed' = Listed
  BY <1>1, <1>4 DEF Listed
<1>6. ASSUME overlaps' \subseteq {"late_malloc"} PROVE Linked'
  <2>1. Safe
    BY <1>1, <1>6 DEF IInv, Safe
  <2>2. Owned'
    BY <1>1, <2>1, Basics DEF Owned
  <2>3. \A u \in Thread : Local(u)'
    BY <1>1, <2>1, Basics, LocalStays
  <2> QED  BY <1>1, <1>4, <1>5, <2>1, <2>2, <2>3, SameLists
<1>7. ASSUME overlaps' = {} PROVE OneHead'
  BY <1>1, <1>4, <1>5, <1>7, HeadStays DEF IInv
<1> QED  BY <1>2, <1>3, <1>6, <1>7 DEF IInv

\* Nothing is allocated.
LEMMA InvStart == Init => IInv
<1> SUFFICES ASSUME Init PROVE IInv
  OBVIOUS
<1>1. \A t \in Thread : pc[t] = "idle"
  BY DEF Init
<1>2. Typed
  BY <1>1, ThreadsAssumption DEF Init, Typed, TypeOK, Wiring
<1>3. Overlapping = {}
  BY <1>1 DEF Overlapping, Unlinking, Mallocing, Freeing, Wiring
<1>4. Listed = {} /\ Skipped = {}
  BY <1>1 DEF Init, Listed, Skipped, Of
<1>5. \E N \in Nat : \E r \in [Block -> 0 .. N] : Rises(r, N)
  <2>1. [b \in Block |-> 0] \in [Block -> 0 .. 0] /\ 0 \in Nat
    OBVIOUS
  <2>2. Rises([b \in Block |-> 0], 0)
    BY <1>4, <2>1 DEF Rises
  <2> QED  BY <2>1, <2>2
<1>6. Linked
  BY <1>1, <1>4, <1>5 DEF Init, Linked, Owned, Local, Into, Back, Forth, Heads
<1>7. OneHead
  BY <1>4 DEF Init, OneHead
<1> QED  BY <1>2, <1>3, <1>6, <1>7 DEF IInv, Seen

\* The invariant holds throughout.
LEMMA Invariance == Spec => []IInv
<1>1. IInv /\ [Next]_vars => IInv'
  BY NextKeeps, IdleKeeps
<1> QED  BY <1>1, InvStart, PTL DEF Spec

\* Types, and the mutex is held by exactly the thread that wires, for any threads
\* and blocks (Algalloc.cpp:28-41, 67-83).
THEOREM ThreadsTyped == Spec => []TypeOK
<1>1. IInv => TypeOK
  BY DEF IInv, Typed
<1> QED  BY <1>1, Invariance, PTL

\* When the threads pause and no calls have overlapped in a way nothing is promised
\* for, the list is exactly what is allocated (Algalloc.cpp:14).
THEOREM ListIsExactWhenQuiet == Spec => []ListExactWhenQuiet
<1>1. IInv => ListExactWhenQuiet
  <2> SUFFICES ASSUME IInv, overlaps = {}, Quiet PROVE ListFrom(Head) = live
    BY DEF ListExactWhenQuiet
  <2>1. Plain
    BY DEF IInv, Plain, Safe
  <2> QED  BY <2>1, ListIsLive
<1> QED  BY <1>1, Invariance, PTL

\* With allocations overtaken by cleanup() as well, nothing freed is touched or
\* listed and the list can be walked back and forth (Algalloc.cpp:56), for as long
\* as no block is freed on the other side of prepare() or cleanup() than it was
\* malloc'ed on: free() cannot tell (Algalloc.cpp:86, 87).
THEOREM LateMallocIsHarmless == Spec => []LateMallocHarmless
<1>1. IInv => LateMallocHarmless
  <2> SUFFICES ASSUME IInv, overlaps \subseteq {"late_malloc"}
               PROVE  /\ wild = FALSE
                      /\ Quiet => \A b \in ListFrom(Head) :
                                    b \in live /\ (prev[b] \in Block => next[prev[b]] = b)
    BY DEF LateMallocHarmless
  <2>1. Safe
    BY DEF IInv, Safe
  <2>2. wild = FALSE
    BY <2>1 DEF Safe, Linked, Owned
  <2>3. ASSUME Quiet, NEW b \in ListFrom(Head)
        PROVE  b \in live /\ (prev[b] \in Block => next[prev[b]] = b)
    <3>1. Skipped = {}
      BY <2>3 DEF Quiet, Skipped, Of
    <3>2. Head \in Listed \union {NULL}
      BY <2>1 DEF Head, Safe, Linked, Heads
    <3>3. ListFrom(Head) \subseteq Listed
      <4>1. \A c \in Listed : prev[c] \in Block => prev[c] \in Listed
        BY <2>1, Sets DEF Safe, Linked, Into
      <4> QED  BY <2>1, <3>2, <4>1, Sets, ListIsLeast
    <3> QED  BY <2>1, <3>1, <3>3, Sets DEF Safe, Linked, Back, Listed
  <2> QED  BY <2>2, <2>3
<1> QED  BY <1>1, Invariance, PTL

================================================================================
