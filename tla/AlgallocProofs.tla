----------------------------- MODULE AlgallocProofs -----------------------------
(***************************************************************************)
(* Proofs about Algalloc for any blocks and sandboxes, in the plain        *)
(* environment: realloc() stays in place, is not given aligned memory, and *)
(* sandboxed code frees only what its own sandbox allocated.  Each of the  *)
(* three conditions is needed: see Behaviour, and the run MCAlgallocMoves. *)
(*                                                                         *)
(* The argument: each sandbox's list is a Chain over exactly the blocks it *)
(* owns, and each operation maps chains to chains (IInv), until a null     *)
(* pointer is used as a block, after which nothing more happens (Lost).    *)
(***************************************************************************)
EXTENDS Algalloc, TLAPS

Plain == Behaviour = {}

--------------------------------------------------------------------------------
(* Doubly linked lists over a set of nodes. *)

\* nx and pv link the nodes O into one list that starts at h and goes on
\* through pv; nothing of O is off the list, so a set of nodes that nx cannot
\* leave contains the head.
Chain(nx, pv, h, O) ==
  /\ h \in O \union {NULL}
  /\ \A b \in O : b = h \/ (nx[b] \in O /\ pv[nx[b]] = b)
  /\ \A b \in O : pv[b] = NULL \/ (pv[b] \in O /\ nx[pv[b]] = b /\ pv[b] /= h)
  /\ \A T \in SUBSET O : T /= {} => \E b \in T : b = h \/ nx[b] \notin T

\* Between two operations the head's next word is null.
Open(nx, h) == h /= NULL => nx[h] = NULL

\* A chain depends on the words of its own nodes only.
LEMMA ChainFrame ==
  ASSUME NEW nx, NEW pv, NEW nx2, NEW pv2, NEW h, NEW O,
         Chain(nx, pv, h, O),
         \A b \in O : nx2[b] = nx[b] /\ pv2[b] = pv[b]
  PROVE  Chain(nx2, pv2, h, O)
<1>1. \A b \in O : b = h \/ (nx2[b] \in O /\ pv2[nx2[b]] = b)
  BY DEF Chain
<1>2. \A b \in O : pv2[b] = NULL \/ (pv2[b] \in O /\ nx2[pv2[b]] = b /\ pv2[b] /= h)
  BY DEF Chain
<1>3. \A T \in SUBSET O : T /= {} => \E b \in T : b = h \/ nx2[b] \notin T
  BY DEF Chain
<1> QED BY <1>1, <1>2, <1>3 DEF Chain

\* wire_allocation appends a node at the head (Algalloc.cpp:28-38).
LEMMA ChainPush ==
  ASSUME NEW nx \in [Block -> Word], NEW pv \in [Block -> Word],
         NEW h, NEW O \in SUBSET Block, NEW b \in Block \ O,
         Chain(nx, pv, h, O), Open(nx, h)
  PROVE  /\ Chain(Poke(Poke(nx, h, b), b, NULL), Poke(pv, b, h), b, O \union {b})
         /\ Open(Poke(Poke(nx, h, b), b, NULL), b)
<1> DEFINE nx2 == Poke(Poke(nx, h, b), b, NULL)
           pv2 == Poke(pv, b, h)
           P == O \union {b}
<1> NULL \notin Block
  BY ConstantsAssumption
<1>1. \A c \in Block : nx2[c] = IF c = b THEN NULL ELSE IF c = h THEN b ELSE nx[c]
  BY DEF Poke
<1>2. \A c \in Block : pv2[c] = IF c = b THEN h ELSE pv[c]
  BY DEF Poke
<1> HIDE DEF nx2, pv2
<1>3. \A c \in P : c = b \/ (nx2[c] \in P /\ pv2[nx2[c]] = c)
  BY <1>1, <1>2 DEF Chain
<1>4. \A c \in P : pv2[c] = NULL \/ (pv2[c] \in P /\ nx2[pv2[c]] = c /\ pv2[c] /= b)
  BY <1>1, <1>2 DEF Chain
<1>5. ASSUME NEW T \in SUBSET P, T /= {}
      PROVE  \E c \in T : c = b \/ nx2[c] \notin T
  <2>1. CASE b \in T
    BY <2>1
  <2>2. CASE b \notin T
    <3>1. T \in SUBSET O
      BY <2>2
    <3>2. PICK c \in T : c = h \/ nx[c] \notin T
      BY <1>5, <3>1 DEF Chain
    <3>3. nx2[c] \notin T
      BY <1>1, <2>2, <3>1, <3>2
    <3> QED BY <3>3
  <2> QED BY <2>1, <2>2
<1>6. Chain(nx2, pv2, b, P)
  BY <1>3, <1>4, <1>5 DEF Chain
<1>7. Open(nx2, b)
  BY <1>1 DEF Open
<1> QED BY <1>6, <1>7 DEF nx2, pv2

\* sandbox_free unlinks a node from anywhere (Algalloc.cpp:67-80).
LEMMA ChainRemove ==
  ASSUME NEW nx \in [Block -> Word], NEW pv \in [Block -> Word],
         NEW h, NEW O \in SUBSET Block, NEW p \in O,
         Chain(nx, pv, h, O), Open(nx, h),
         NEW h2, h2 = IF h = p THEN pv[p] ELSE h,
         NEW nx2, nx2 = Scribble(Unlink(nx, pv[p], nx[p]), p),
         NEW pv2, pv2 = Scribble(Unlink(pv, nx[p], pv[p]), p)
  PROVE  Chain(nx2, pv2, h2, O \ {p}) /\ Open(nx2, h2)
<1> DEFINE Q == O \ {p}
<1> NULL \notin Block
  BY ConstantsAssumption
<1>1. \A c \in Q : nx2[c] = IF c = pv[p] THEN nx[p] ELSE nx[c]
  BY DEF Poke, Unlink, Scribble
<1>2. \A c \in Q : pv2[c] = IF c = nx[p] THEN pv[p] ELSE pv[c]
  BY DEF Poke, Unlink, Scribble
<1>3. h2 \in Q \union {NULL}
  BY DEF Chain
<1>4. ASSUME NEW b \in Q, b /= h2
      PROVE  nx2[b] \in Q /\ pv2[nx2[b]] = b
  <2>1. CASE b = pv[p]
    BY <1>1, <1>2, <1>4, <2>1 DEF Chain
  <2>2. CASE b /= pv[p]
    <3>1. b /= h /\ nx[b] \in O /\ pv[nx[b]] = b
      BY <1>4 DEF Chain
    <3>2. nx2[b] = nx[b] /\ nx[b] \in Q
      BY <1>1, <2>2, <3>1
    <3>3. nx[b] /= nx[p]
      BY <3>1, <3>2 DEF Chain, Open
    <3> QED BY <1>2, <3>1, <3>2, <3>3
  <2> QED BY <2>1, <2>2
<1>5. ASSUME NEW b \in Q, pv2[b] /= NULL
      PROVE  pv2[b] \in Q /\ nx2[pv2[b]] = b /\ pv2[b] /= h2
  <2>1. CASE b = nx[p]
    BY <1>1, <1>2, <1>5, <2>1 DEF Chain, Open
  <2>2. CASE b /= nx[p]
    BY <1>1, <1>2, <1>5, <2>2 DEF Chain, Open
  <2> QED BY <2>1, <2>2
<1>6. ASSUME NEW T \in SUBSET Q, T /= {}
      PROVE  \E b \in T : b = h2 \/ nx2[b] \notin T
  <2>1. CASE h = p \/ pv[p] \notin T
    <3>1. PICK b \in T : b = h \/ nx[b] \notin T
      BY <1>6 DEF Chain
    <3> QED BY <1>1, <2>1, <3>1
  <2>2. CASE h /= p /\ pv[p] \in T
    <3>1. T \union {p} \in SUBSET O
      OBVIOUS
    <3>2. PICK b \in T \union {p} : b = h \/ nx[b] \notin T \union {p}
      BY <3>1 DEF Chain
    <3>3. nx[pv[p]] = p
      BY <2>2 DEF Chain
    <3>4. CASE b = h
      BY <2>2, <3>2, <3>4
    <3>5. CASE b /= h /\ b = p
      BY <1>1, <2>2, <3>2, <3>5
    <3>6. CASE b /= h /\ b /= p
      BY <1>1, <2>2, <3>2, <3>3, <3>6
    <3> QED BY <3>4, <3>5, <3>6
  <2> QED BY <2>1, <2>2
<1>7. Chain(nx2, pv2, h2, Q)
  BY <1>3, <1>4, <1>5, <1>6 DEF Chain
<1>8. Open(nx2, h2)
  BY <1>1, <1>3 DEF Chain, Open
<1> QED BY <1>7, <1>8

\* An iteration of free() takes the head off, and leaves the words of the
\* other nodes alone (Algalloc.cpp:338-343).
LEMMA ChainPop ==
  ASSUME NEW nx \in [Block -> Word], NEW pv \in [Block -> Word],
         NEW h, NEW O \in SUBSET Block, Chain(nx, pv, h, O), h /= NULL
  PROVE  Chain(Scribble(nx, h), Scribble(pv, h), pv[h], O \ {h})
<1> DEFINE Q == O \ {h}
<1>1. h \in O /\ NULL \notin Block
  BY ConstantsAssumption DEF Chain
<1>2. pv[h] \in Q \union {NULL}
  BY <1>1 DEF Chain
<1>3. \A b \in Q : b = pv[h] \/ (nx[b] \in Q /\ pv[nx[b]] = b)
  BY <1>1 DEF Chain
<1>4. \A b \in Q : pv[b] = NULL \/ (pv[b] \in Q /\ nx[pv[b]] = b /\ pv[b] /= pv[h])
  BY <1>1 DEF Chain
<1>5. \A T \in SUBSET Q : T /= {} => \E b \in T : b = pv[h] \/ nx[b] \notin T
  BY <1>1 DEF Chain
<1>6. Chain(nx, pv, pv[h], Q)
  BY <1>2, <1>3, <1>4, <1>5 DEF Chain
<1>7. \A b \in Q : Scribble(nx, h)[b] = nx[b] /\ Scribble(pv, h)[b] = pv[b]
  BY DEF Scribble, Poke
<1> QED BY <1>6, <1>7, ChainFrame

--------------------------------------------------------------------------------
(* The inductive invariant. *)

\* The flags agree with each other, and nothing undefined has happened.
Machine ==
  /\ ~wild
  /\ g_sandboxed <=> current /= NULL
  /\ ~g_sandboxed => g_last_alloc = NULL
  /\ g_sandboxed => freeing = NULL
  /\ freeing = NULL => ptr = NULL

Chained(s) == Chain(next, prev, Head(s), Owned(s))

\* free() leaves the next word of the cursor's node pointing at freed memory.
Openly(s) == s = freeing \/ Open(next, Head(s))

IInv ==
  /\ TypeOK
  /\ Machine
  /\ \A s \in Sandbox : Chained(s) /\ Openly(s)
  /\ BaseAddressValid

\* The nodes reached from the head of a chain are exactly its blocks.
LEMMA ChainListed ==
  ASSUME NEW s \in Sandbox, Chained(s)
  PROVE  Listed(s) = Owned(s)
<1> NULL \notin Block
  BY ConstantsAssumption
<1>1. Listed(s) \subseteq Owned(s)
  <2>1. HoldsList(s, Owned(s))
    BY DEF Chained, Chain, HoldsList
  <2> QED BY <2>1 DEF Listed, Owned
<1>2. ASSUME NEW b \in Owned(s), NEW T \in SUBSET Block, HoldsList(s, T), b \notin T
      PROVE  FALSE
  <2> DEFINE Off == Owned(s) \ T
  <2>1. Off \in SUBSET Owned(s) /\ Off /= {}
    BY <1>2
  <2>2. PICK c \in Off : c = Head(s) \/ next[c] \notin Off
    BY <2>1 DEF Chained, Chain
  <2>3. c \in Block
    BY DEF Owned
  <2>4. c /= Head(s)
    BY <1>2, <2>3 DEF HoldsList
  <2>5. next[c] \in T /\ prev[next[c]] = c
    BY <2>2, <2>4 DEF Chained, Chain
  <2> QED BY <1>2, <2>3, <2>5 DEF HoldsList
<1> QED BY <1>1, <1>2 DEF Listed, Owned

\* A null pointer was used as a block.
Lost == TypeOK /\ BaseAddressValid /\ wild /\ nulled

Inv == IInv \/ Lost

\* What the invariant says, in the terms of the properties.
LEMMA InvImplies ==
  Inv => TypeOK /\ ListHoldsNonFreed /\ BaseAddressValid /\ NoWildAccess
BY ChainListed DEF Inv, IInv, Lost, Machine, NoWildAccess, ListHoldsNonFreed

LEMMA InitIInv == Init => IInv
<1> SUFFICES ASSUME Init PROVE IInv
  OBVIOUS
<1>1. TypeOK
  BY DEF Init, TypeOK, Word, Pointer
<1>2. Machine
  BY DEF Init, Machine
<1>3. ASSUME NEW s \in Sandbox PROVE Chained(s) /\ Openly(s)
  <2>1. Owned(s) = {} /\ Head(s) = NULL
    BY ConstantsAssumption DEF Init, Owned, Head
  <2> QED BY <2>1 DEF Chained, Chain, Openly, Open
<1>4. BaseAddressValid
  BY ConstantsAssumption DEF Init, BaseAddressValid
<1> QED BY <1>1, <1>2, <1>3, <1>4 DEF IInv

--------------------------------------------------------------------------------
(* Each operation preserves the invariant. *)

LEMMA PokeType ==
  ASSUME NEW S, NEW f \in [Block -> S], NEW x, NEW v, x \in Block => v \in S
  PROVE  Poke(f, x, v) \in [Block -> S]
BY DEF Poke

\* The applied sandbox, its list, and what it may free.
LEMMA InSandboxFacts ==
  ASSUME Plain, IInv, InSandbox
  PROVE  /\ current \in Sandbox /\ freeing = NULL /\ Nameable = Owned(current)
         /\ Head(current) = g_last_alloc
         /\ Chain(next, prev, g_last_alloc, Owned(current)) /\ Open(next, g_last_alloc)
<1> NULL \notin Sandbox
  BY ConstantsAssumption
<1>1. current \in Sandbox /\ freeing = NULL
  BY DEF IInv, Machine, InSandbox, TypeOK
<1>2. Head(current) = g_last_alloc
  BY <1>1 DEF Head
<1>3. Nameable = Owned(current)
  BY DEF Plain, Nameable
<1> QED BY <1>1, <1>2, <1>3 DEF IInv, Chained, Openly

\* An operation of the applied sandbox changes no word of another's blocks.
LEMMA OtherChain ==
  ASSUME IInv, NEW s \in Sandbox, Owned(s)' = Owned(s), Head(s)' = Head(s),
         freeing' = freeing,
         \A b \in Owned(s) : next'[b] = next[b] /\ prev'[b] = prev[b]
  PROVE  Chained(s)' /\ Openly(s)'
<1>1. Chained(s)'
  <2>1. Chain(next', prev', Head(s), Owned(s))
    BY ChainFrame DEF IInv, Chained
  <2> QED BY <2>1 DEF Chained
<1>2. Openly(s)'
  BY DEF IInv, Chained, Chain, Openly, Open
<1> QED BY <1>1, <1>2

LEMMA AllocateIInv ==
  ASSUME Plain, IInv, NEW b \in Block, Allocate(b), padded' \subseteq Block
  PROVE  IInv'
<1> NULL \notin Block /\ NULL \notin Sandbox /\ HOST \notin Sandbox
  BY ConstantsAssumption
<1>1. /\ current \in Sandbox /\ freeing = NULL /\ Head(current) = g_last_alloc
      /\ Chain(next, prev, g_last_alloc, Owned(current)) /\ Open(next, g_last_alloc)
  BY InSandboxFacts DEF Allocate
<1>2. g_last_alloc \in Owned(current) \union {NULL}
  BY <1>1 DEF Chain
<1>3. TypeOK'
  <2>1. next' \in [Block -> Word] /\ prev' \in [Block -> Word] /\ base' \in [Block -> Word]
    BY PokeType DEF IInv, TypeOK, Allocate, WireAllocation, Word, Pointer
  <2> QED BY <1>1, <2>1 DEF IInv, TypeOK, Allocate, WireAllocation, Word, Pointer
<1>4. Machine'
  <2>1. Neighbour(g_last_alloc)
    BY <1>1, <1>2 DEF Neighbour, Live, Owned
  <2> QED BY <2>1 DEF IInv, Machine, Allocate, InSandbox
<1>5. ASSUME NEW s \in Sandbox PROVE Chained(s)' /\ Openly(s)'
  <2>1. CASE s = current
    <3>1. Owned(s)' = Owned(current) \union {b} /\ b \notin Owned(current)
      BY <1>1, <2>1 DEF Owned, Allocate, Live, IInv, TypeOK
    <3>2. Head(s)' = b
      BY <1>1, <2>1 DEF Head, Allocate, WireAllocation
    <3>3. Chain(next', prev', b, Owned(current) \union {b}) /\ Open(next', b)
      BY <1>1, <3>1, ChainPush DEF Owned, Allocate, WireAllocation, IInv, TypeOK
    <3> QED BY <3>1, <3>2, <3>3 DEF Chained, Openly
  <2>2. CASE s /= current
    <3>1. Owned(s)' = Owned(s) /\ b \notin Owned(s)
      BY <1>1, <2>2 DEF Owned, Allocate, Live, IInv, TypeOK
    <3>2. Head(s)' = Head(s)
      BY <1>1, <2>2 DEF Head, Allocate
    <3>3. \A c \in Owned(s) : next'[c] = next[c] /\ prev'[c] = prev[c]
      BY <1>2, <2>2, <3>1 DEF Owned, Allocate, WireAllocation, Poke
    <3> QED BY <3>1, <3>2, <3>3, OtherChain DEF Allocate
  <2> QED BY <2>1, <2>2
<1>6. BaseAddressValid'
  BY DEF IInv, BaseAddressValid, Allocate, WireAllocation, Poke, TypeOK
<1> QED BY <1>3, <1>4, <1>5, <1>6 DEF IInv

LEMMA SandboxFreeIInv ==
  ASSUME Plain, IInv, NEW p \in Block, SandboxFree(p)
  PROVE  IInv'
<1> NULL \notin Block /\ NULL \notin Sandbox /\ HOST \notin Sandbox
  BY ConstantsAssumption
<1>1. /\ current \in Sandbox /\ freeing = NULL /\ Head(current) = g_last_alloc
      /\ Chain(next, prev, g_last_alloc, Owned(current)) /\ Open(next, g_last_alloc)
      /\ p \in Owned(current)
  BY InSandboxFacts DEF SandboxFree
<1>2. base[p] = p
  BY <1>1 DEF IInv, BaseAddressValid, Owned
<1>3. prev[p] \in Owned(current) \union {NULL} /\ next[p] \in Owned(current) \union {NULL}
  BY <1>1 DEF Chain, Open
<1>4. owner' = [owner EXCEPT ![p] = NULL]
  BY <1>2 DEF SandboxFree, Poke, IInv, TypeOK
<1>5. TypeOK'
  <2>1. next' \in [Block -> Word] /\ prev' \in [Block -> Word] /\ base' \in [Block -> Word]
    BY <1>3, PokeType DEF IInv, TypeOK, SandboxFree, Scribble, Unlink, Word, Pointer
  <2>2. g_last_alloc' \in Pointer
    BY <1>3 DEF IInv, TypeOK, SandboxFree, HeadAfterFree, Pointer, Owned
  <2> QED BY <1>4, <2>1, <2>2 DEF IInv, TypeOK, SandboxFree
<1>6. Machine'
  <2>1. Neighbour(prev[p]) /\ Neighbour(next[p]) /\ base[p] \in Live
    BY <1>1, <1>2, <1>3 DEF Neighbour, Live, Owned
  <2> QED BY <2>1 DEF IInv, Machine, SandboxFree, InSandbox
<1>7. ASSUME NEW s \in Sandbox PROVE Chained(s)' /\ Openly(s)'
  <2>1. CASE s = current
    <3>1. Owned(s)' = Owned(current) \ {p}
      BY <1>1, <1>4, <2>1 DEF Owned, IInv, TypeOK
    <3>2. Head(s)' = HeadAfterFree(p)
      BY <1>1, <2>1 DEF Head, SandboxFree
    <3>3. Chain(next', prev', HeadAfterFree(p), Owned(current) \ {p})
          /\ Open(next', HeadAfterFree(p))
      <4>1. next \in [Block -> Word] /\ prev \in [Block -> Word]
            /\ Owned(current) \in SUBSET Block
        BY DEF IInv, TypeOK, Owned
      <4>2. HeadAfterFree(p) = IF g_last_alloc = p THEN prev[p] ELSE g_last_alloc
        BY DEF HeadAfterFree
      <4>3. /\ next' = Scribble(Unlink(next, prev[p], next[p]), p)
            /\ prev' = Scribble(Unlink(prev, next[p], prev[p]), p)
        BY <1>2 DEF SandboxFree
      <4> QED BY <1>1, <4>1, <4>2, <4>3, ChainRemove
    <3> QED BY <3>1, <3>2, <3>3 DEF Chained, Openly
  <2>2. CASE s /= current
    <3>1. Owned(s)' = Owned(s) /\ p \notin Owned(s)
      BY <1>1, <1>4, <2>2 DEF Owned, IInv, TypeOK
    <3>2. Head(s)' = Head(s)
      BY <1>1, <2>2 DEF Head, SandboxFree
    <3>3. \A c \in Owned(s) : next'[c] = next[c] /\ prev'[c] = prev[c]
      BY <1>2, <1>3, <2>2, <3>1 DEF Owned, SandboxFree, Scribble, Unlink, Poke
    <3> QED BY <3>1, <3>2, <3>3, OtherChain DEF SandboxFree
  <2> QED BY <2>1, <2>2
<1>8. BaseAddressValid'
  BY <1>2, <1>4 DEF IInv, BaseAddressValid, SandboxFree, Scribble, Poke, TypeOK
<1> QED BY <1>5, <1>6, <1>7, <1>8 DEF IInv

\* In place, a realloc rewrites every word with the value it had.
LEMMA SandboxReallocStutters ==
  ASSUME Plain, IInv, NEW p \in Block, NEW q \in Block, SandboxRealloc(p, q)
  PROVE  UNCHANGED vars
<1> NULL \notin Block /\ NULL \notin Sandbox /\ HOST \notin Sandbox
  BY ConstantsAssumption
<1>1. /\ current \in Sandbox
      /\ Chain(next, prev, g_last_alloc, Owned(current)) /\ Open(next, g_last_alloc)
      /\ p \in Owned(current)
  BY InSandboxFacts DEF SandboxRealloc
<1>2. q = p /\ p \notin padded
  BY DEF Plain, SandboxRealloc
<1>3. base[p] = p
  BY <1>1 DEF IInv, BaseAddressValid, Owned
<1>4. \/ prev[p] = NULL
      \/ prev[p] \in Owned(current) /\ next[prev[p]] = p
  BY <1>1 DEF Chain
<1>5. \/ next[p] = NULL
      \/ next[p] \in Owned(current) /\ prev[next[p]] = p
  BY <1>1 DEF Chain, Open
<1>6. next' = next
  BY <1>2, <1>4 DEF SandboxRealloc, Carried, Scribble, Poke, IInv, TypeOK
<1>7. prev' = prev
  BY <1>2, <1>5 DEF SandboxRealloc, Carried, Scribble, Poke, IInv, TypeOK
<1>8. base' = base
  BY <1>2 DEF SandboxRealloc, Carried, Scribble, Poke, IInv, TypeOK
<1>9. owner' = owner /\ padded' = padded
  BY <1>2 DEF SandboxRealloc, IInv, TypeOK
<1>10. wild' = wild
  <2>1. Neighbour(prev[p]) /\ Neighbour(next[p])
    BY <1>1, <1>4, <1>5 DEF Neighbour, Live, Owned
  <2>2. ~wild' /\ ~wild
    BY <1>3, <2>1 DEF SandboxRealloc, IInv, Machine
  <2>3. wild' \in BOOLEAN /\ wild \in BOOLEAN
    BY DEF SandboxRealloc, IInv, TypeOK
  <2> QED BY <2>2, <2>3
<1> QED BY <1>6, <1>7, <1>8, <1>9, <1>10 DEF SandboxRealloc, vars

\* Steps that change which sandbox is applied or freed, or what the main
\* program holds, leave every list alone.
LEMMA SameLists ==
  ASSUME IInv, UNCHANGED <<next, prev>>, NEW s \in Sandbox,
         Owned(s)' = Owned(s), Head(s)' = Head(s),
         freeing = s => freeing' = s \/ Head(s) = NULL
  PROVE  Chained(s)' /\ Openly(s)'
<1>1. Chained(s)'
  BY DEF IInv, Chained
<1>2. Openly(s)'
  BY DEF IInv, Openly, Open
<1> QED BY <1>1, <1>2

LEMMA HostIInv ==
  ASSUME IInv, NEW b \in Block, HostMalloc(b) \/ HostFree(b)
  PROVE  IInv'
<1> NULL \notin Sandbox /\ HOST \notin Sandbox
  BY ConstantsAssumption
<1>1. TypeOK' /\ Machine'
  BY DEF IInv, TypeOK, Machine, HostMalloc, HostFree, Outside
<1>2. ASSUME NEW s \in Sandbox PROVE Chained(s)' /\ Openly(s)'
  <2>1. Owned(s)' = Owned(s)
    BY DEF Owned, HostMalloc, HostFree, Live, IInv, TypeOK
  <2>2. Head(s)' = Head(s)
    BY DEF Head, HostMalloc, HostFree
  <2> QED BY <2>1, <2>2, SameLists DEF HostMalloc, HostFree
<1>3. BaseAddressValid'
  BY DEF IInv, BaseAddressValid, HostMalloc, HostFree, TypeOK
<1> QED BY <1>1, <1>2, <1>3 DEF IInv

LEMMA PrepareIInv ==
  ASSUME IInv, NEW s \in Sandbox, Prepare(s)
  PROVE  IInv'
<1> NULL \notin Sandbox
  BY ConstantsAssumption
<1>1. TypeOK' /\ Machine'
  BY DEF IInv, TypeOK, Machine, Prepare, Outside
<1>2. ASSUME NEW t \in Sandbox PROVE Chained(t)' /\ Openly(t)'
  <2>1. Owned(t)' = Owned(t) /\ Head(t)' = Head(t)
    BY DEF Owned, Head, Prepare, Outside, IInv, Machine
  <2> QED BY <2>1, SameLists DEF Prepare
<1>3. BaseAddressValid'
  BY DEF IInv, BaseAddressValid, Prepare
<1> QED BY <1>1, <1>2, <1>3 DEF IInv

LEMMA CleanupIInv ==
  ASSUME IInv, Cleanup
  PROVE  IInv'
<1> NULL \notin Sandbox
  BY ConstantsAssumption
<1>1. current \in Sandbox /\ freeing = NULL
  BY DEF IInv, TypeOK, Machine, Cleanup, InSandbox
<1>2. TypeOK' /\ Machine'
  BY <1>1 DEF IInv, TypeOK, Machine, Cleanup, InSandbox, Word, Pointer
<1>3. ASSUME NEW t \in Sandbox PROVE Chained(t)' /\ Openly(t)'
  <2>1. Owned(t)' = Owned(t)
    BY DEF Owned, Cleanup
  <2>2. Head(t)' = Head(t)
    BY <1>1 DEF Head, Cleanup, IInv, TypeOK
  <2> QED BY <2>1, <2>2, SameLists DEF Cleanup
<1>4. BaseAddressValid'
  BY DEF IInv, BaseAddressValid, Cleanup
<1> QED BY <1>2, <1>3, <1>4 DEF IInv

LEMMA FreeBeginIInv ==
  ASSUME IInv, NEW s \in Sandbox, FreeBegin(s)
  PROVE  IInv'
<1> NULL \notin Sandbox
  BY ConstantsAssumption
<1>1. TypeOK' /\ Machine'
  BY DEF IInv, TypeOK, Machine, FreeBegin, Outside
<1>2. ASSUME NEW t \in Sandbox PROVE Chained(t)' /\ Openly(t)'
  <2>1. Owned(t)' = Owned(t) /\ Head(t)' = Head(t)
    BY DEF Owned, Head, FreeBegin, Outside, IInv, Machine
  <2> QED BY <2>1, SameLists DEF FreeBegin, Outside
<1>3. BaseAddressValid'
  BY DEF IInv, BaseAddressValid, FreeBegin
<1> QED BY <1>1, <1>2, <1>3 DEF IInv

\* The cursor of the loop is a block of the sandbox being freed.
LEMMA FreeStepFacts ==
  ASSUME IInv, FreeStep
  PROVE  /\ freeing \in Sandbox /\ current = NULL /\ Head(freeing) = ptr
         /\ ptr \in Owned(freeing) /\ base[ptr] = ptr
         /\ owner' = [owner EXCEPT ![ptr] = NULL]
         /\ Owned(freeing)' = Owned(freeing) \ {ptr}
         /\ \A s \in Sandbox \ {freeing} : Owned(s)' = Owned(s)
<1> NULL \notin Block /\ NULL \notin Sandbox
  BY ConstantsAssumption
<1>1. freeing \in Sandbox /\ current = NULL /\ Head(freeing) = ptr
  BY DEF IInv, TypeOK, Machine, FreeStep, Head
<1>2. ptr \in Owned(freeing)
  BY <1>1 DEF IInv, Chained, Chain, FreeStep
<1>3. base[ptr] = ptr
  BY <1>1, <1>2 DEF IInv, BaseAddressValid, Owned
<1>4. owner' = [owner EXCEPT ![ptr] = NULL]
  BY <1>3 DEF FreeStep, Poke, IInv, TypeOK
<1>5. Owned(freeing)' = Owned(freeing) \ {ptr}
      /\ \A s \in Sandbox \ {freeing} : Owned(s)' = Owned(s)
  BY <1>1, <1>2, <1>4 DEF Owned, IInv, TypeOK, FreeStep
<1> QED BY <1>1, <1>2, <1>3, <1>4, <1>5

LEMMA FreeStepIInv ==
  ASSUME IInv, FreeStep
  PROVE  IInv'
<1> NULL \notin Block /\ NULL \notin Sandbox
  BY ConstantsAssumption
<1>1. /\ freeing \in Sandbox /\ current = NULL /\ Head(freeing) = ptr
      /\ ptr \in Owned(freeing) /\ base[ptr] = ptr
      /\ owner' = [owner EXCEPT ![ptr] = NULL]
      /\ Owned(freeing)' = Owned(freeing) \ {ptr}
      /\ \A s \in Sandbox \ {freeing} : Owned(s)' = Owned(s)
  BY FreeStepFacts
<1>2. TypeOK'
  <2>1. next' \in [Block -> Word] /\ prev' \in [Block -> Word] /\ base' \in [Block -> Word]
    BY PokeType DEF IInv, TypeOK, FreeStep, Scribble, Word, Pointer
  <2>2. ptr' \in Pointer
    BY <1>1 DEF IInv, Chained, Chain, FreeStep, NextCursor, Owned, Pointer
  <2> QED BY <1>1, <2>1, <2>2 DEF IInv, TypeOK, FreeStep
<1>3. Machine'
  BY <1>1 DEF IInv, Machine, FreeStep, Live, Owned
<1>4. ASSUME NEW s \in Sandbox PROVE Chained(s)' /\ Openly(s)'
  <2>1. CASE s = freeing
    <3>1. Chain(next, prev, ptr, Owned(s)) /\ ptr /= NULL
      BY <1>1, <2>1 DEF IInv, Chained, FreeStep
    <3>2. /\ next \in [Block -> Word] /\ prev \in [Block -> Word]
          /\ Owned(s) \in SUBSET Block
      BY DEF IInv, TypeOK, Owned
    <3>3. next' = Scribble(next, ptr) /\ prev' = Scribble(prev, ptr)
      BY <1>1 DEF FreeStep
    <3>4. Chain(next', prev', prev[ptr], Owned(s) \ {ptr})
      BY <3>1, <3>2, <3>3, ChainPop
    <3>5. Head(s)' = prev[ptr]
      BY <2>1 DEF Head, FreeStep, NextCursor
    <3> QED BY <1>1, <2>1, <3>4, <3>5 DEF Chained, Openly, FreeStep
  <2>2. CASE s /= freeing
    <3>1. Owned(s)' = Owned(s) /\ ptr \notin Owned(s)
      BY <1>1, <2>2 DEF Owned
    <3>2. Head(s)' = Head(s)
      BY <2>2 DEF Head, FreeStep
    <3>3. \A c \in Owned(s) : next'[c] = next[c] /\ prev'[c] = prev[c]
      BY <1>1, <3>1 DEF Owned, FreeStep, Scribble, Poke
    <3> QED BY <3>1, <3>2, <3>3, OtherChain DEF FreeStep
  <2> QED BY <2>1, <2>2
<1>5. BaseAddressValid'
  BY <1>1 DEF IInv, BaseAddressValid, FreeStep, Scribble, Poke, TypeOK
<1> QED BY <1>2, <1>3, <1>4, <1>5 DEF IInv

LEMMA FreeEndIInv ==
  ASSUME IInv, FreeEnd
  PROVE  IInv'
<1> NULL \notin Sandbox
  BY ConstantsAssumption
<1>1. freeing \in Sandbox /\ current = NULL
  BY DEF IInv, TypeOK, Machine, FreeEnd
<1>2. TypeOK' /\ Machine'
  BY <1>1 DEF IInv, TypeOK, Machine, FreeEnd, Word, Pointer
<1>3. ASSUME NEW t \in Sandbox PROVE Chained(t)' /\ Openly(t)'
  <2>1. Owned(t)' = Owned(t)
    BY DEF Owned, FreeEnd
  <2>2. Head(t)' = Head(t)
    BY <1>1 DEF Head, FreeEnd, IInv, TypeOK
  <2>3. freeing = t => Head(t) = NULL
    BY DEF Head, FreeEnd
  <2> QED BY <2>1, <2>2, <2>3, SameLists DEF FreeEnd
<1>4. BaseAddressValid'
  BY DEF IInv, BaseAddressValid, FreeEnd
<1> QED BY <1>2, <1>3, <1>4 DEF IInv

\* A move or swap exchanges two lists, with the blocks on them.
LEMMA ExchangeFacts ==
  ASSUME IInv, NEW s \in Sandbox, NEW t \in Sandbox, Move(s, t) \/ Swap(s, t)
  PROVE  /\ s /= t
         /\ last_alloc_' = [last_alloc_ EXCEPT ![s] = last_alloc_[t], ![t] = last_alloc_[s]]
         /\ \A r \in Sandbox :
              /\ Head(r)' = Head(IF r = s THEN t ELSE IF r = t THEN s ELSE r)
              /\ Owned(r)' = Owned(IF r = s THEN t ELSE IF r = t THEN s ELSE r)
<1> NULL \notin Sandbox
  BY ConstantsAssumption
<1>1. s /= t
  BY DEF Move, Swap
<1>2. last_alloc_' = [last_alloc_ EXCEPT ![s] = last_alloc_[t], ![t] = last_alloc_[s]]
  BY <1>1 DEF IInv, TypeOK, Move, Swap
<1>3. ASSUME NEW r \in Sandbox
      PROVE  Head(r)' = Head(IF r = s THEN t ELSE IF r = t THEN s ELSE r)
  <2>1. freeing = NULL /\ current = NULL /\ UNCHANGED <<freeing, current>>
    BY DEF IInv, Machine, Move, Swap, Outside
  <2> QED BY <1>1, <1>2, <2>1 DEF Head, IInv, TypeOK
<1>4. ASSUME NEW r \in Sandbox
      PROVE  Owned(r)' = Owned(IF r = s THEN t ELSE IF r = t THEN s ELSE r)
  <2>1. \A b \in Block : owner'[b] = IF owner[b] = s THEN t
                                     ELSE IF owner[b] = t THEN s ELSE owner[b]
    BY DEF Move, Swap, Exchanged
  <2> QED BY <1>1, <2>1 DEF Owned
<1> QED BY <1>1, <1>2, <1>3, <1>4

LEMMA ExchangeIInv ==
  ASSUME IInv, NEW s \in Sandbox, NEW t \in Sandbox, Move(s, t) \/ Swap(s, t)
  PROVE  IInv'
<1> NULL \notin Sandbox
  BY ConstantsAssumption
<1>1. \A b \in Block : owner'[b] = IF owner[b] = s THEN t
                                   ELSE IF owner[b] = t THEN s ELSE owner[b]
  BY DEF Move, Swap, Exchanged
<1>2. TypeOK'
  <2>1. owner' \in [Block -> Sandbox \union {HOST, NULL}]
    BY <1>1 DEF IInv, TypeOK, Move, Swap, Exchanged
  <2>2. last_alloc_' \in [Sandbox -> Pointer]
    BY ExchangeFacts DEF IInv, TypeOK
  <2> QED BY <2>1, <2>2 DEF IInv, TypeOK, Move, Swap
<1>3. Machine'
  BY DEF IInv, Machine, Move, Swap, Outside
<1>4. ASSUME NEW r \in Sandbox PROVE Chained(r)' /\ Openly(r)'
  <2> DEFINE u == IF r = s THEN t ELSE IF r = t THEN s ELSE r
  <2>1. u \in Sandbox /\ Head(r)' = Head(u) /\ Owned(r)' = Owned(u)
    BY ExchangeFacts
  <2>2. next' = next /\ prev' = prev /\ freeing = NULL
    BY DEF Move, Swap, Outside
  <2> HIDE DEF u
  <2>3. Chained(u) /\ Openly(u)
    BY <2>1 DEF IInv
  <2> QED BY <2>1, <2>2, <2>3 DEF Chained, Openly, Open
<1>5. BaseAddressValid'
  BY <1>1 DEF IInv, BaseAddressValid, Move, Swap
<1> QED BY <1>2, <1>3, <1>4, <1>5 DEF IInv

LEMMA StutterIInv == ASSUME IInv, UNCHANGED vars PROVE IInv'
BY DEF IInv, TypeOK, Machine, Chained, Openly, Head, Owned, BaseAddressValid, Open, vars

\* The steps that use a null pointer, which the code does not test.
NullUse == AllocateFails \/ FreeNull \/ \E p \in Block : ReallocFails(p)

LEMMA NullUseFacts ==
  ASSUME IInv, NullUse
  PROVE  /\ Lost'
         /\ UNCHANGED <<owner, current, freeing>>
<1>1. /\ wild' /\ nulled'
      /\ UNCHANGED <<base, owner, padded, g_last_alloc, g_sandboxed, last_alloc_, current,
                     freeing, ptr>>
  BY DEF NullUse, AllocateFails, FreeNull, ReallocFails, UseNull
<1>2. \A x : /\ Poke(next, x, JUNK) \in [Block -> Word]
            /\ Poke(prev, x, JUNK) \in [Block -> Word]
  BY PokeType DEF IInv, TypeOK, Word
<1>3. next' \in [Block -> Word] /\ prev' \in [Block -> Word]
  BY <1>2 DEF IInv, TypeOK, NullUse, AllocateFails, FreeNull, ReallocFails
<1> QED BY <1>1, <1>3 DEF Lost, IInv, TypeOK, BaseAddressValid

\* Nothing happens after it.
LEMMA LostStays == ASSUME Lost, [Next]_vars PROVE UNCHANGED vars
BY DEF Lost, Next, SandboxMalloc, SandboxMemalign, Allocate, SandboxFree, SandboxRealloc,
       ReallocFails, AllocateFails, FreeNull, PosixMemalignReturns, InSandbox, HostMalloc,
       HostFree, Prepare, FreeBegin, Move, Swap, Outside, Cleanup, FreeStep, FreeEnd

LEMMA NextIInv ==
  ASSUME Plain, IInv, [Next]_vars, ~NullUse
  PROVE  IInv'
<1>1. ASSUME NEW b \in Block, SandboxMalloc(b) \/ SandboxMemalign(b) PROVE IInv'
  BY <1>1, AllocateIInv DEF SandboxMalloc, SandboxMemalign, IInv, TypeOK
<1>2. ASSUME NEW b \in Block, SandboxFree(b) PROVE IInv'
  BY <1>2, SandboxFreeIInv
<1>3. ASSUME NEW p \in Block, NEW q \in Block, SandboxRealloc(p, q) PROVE IInv'
  BY <1>3, SandboxReallocStutters, StutterIInv
<1>4. ASSUME NEW b \in Block, HostMalloc(b) \/ HostFree(b) PROVE IInv'
  BY <1>4, HostIInv
<1>5. ASSUME NEW s \in Sandbox, Prepare(s) \/ FreeBegin(s) PROVE IInv'
  BY <1>5, PrepareIInv, FreeBeginIInv
<1>6. ASSUME NEW s \in Sandbox, NEW t \in Sandbox, Move(s, t) \/ Swap(s, t) PROVE IInv'
  BY <1>6, ExchangeIInv
<1>7. CASE Cleanup
  BY <1>7, CleanupIInv
<1>8. CASE FreeStep
  BY <1>8, FreeStepIInv
<1>9. CASE FreeEnd
  BY <1>9, FreeEndIInv
<1>10. CASE PosixMemalignReturns \/ UNCHANGED vars
  BY <1>10, StutterIInv DEF PosixMemalignReturns
<1> QED
  BY <1>1, <1>2, <1>3, <1>4, <1>5, <1>6, <1>7, <1>8, <1>9, <1>10 DEF Next, NullUse

LEMMA Invariance == ASSUME Plain PROVE Spec => []Inv
<1>1. Init => Inv
  BY InitIInv DEF Inv
<1>2. ASSUME Inv, [Next]_vars PROVE Inv'
  <2>1. CASE Lost
    BY <1>2, <2>1, LostStays DEF Lost, Inv, TypeOK, BaseAddressValid, vars
  <2>2. CASE IInv /\ NullUse
    BY <2>2, NullUseFacts DEF Inv
  <2>3. CASE IInv /\ ~NullUse
    BY <1>2, <2>3, NextIInv DEF Inv
  <2> QED BY <1>2, <2>1, <2>2, <2>3 DEF Inv
<1>3. Inv /\ [Next]_vars => Inv'
  BY <1>2
<1> QED BY <1>1, <1>3, PTL DEF Spec

--------------------------------------------------------------------------------
(* The theorems. *)

\* Every variable keeps its type: no list ever points outside the heap.
THEOREM TypeCorrect == ASSUME Plain PROVE Spec => []TypeOK
BY Invariance, InvImplies, PTL

\* The list of every sandbox is exactly what was allocated under it and not
\* freed (the comment at Algalloc.cpp:14).
THEOREM ListsAreExact == ASSUME Plain PROVE Spec => []ListHoldsNonFreed
BY Invariance, InvImplies, PTL

\* The base word of every sandboxed block is what real_free() must be given
\* (the comment at Algalloc.cpp:22).
THEOREM BasesAreValid == ASSUME Plain PROVE Spec => []BaseAddressValid
BY Invariance, InvImplies, PTL

\* Of the accesses to memory that is not allocated, the allocation functions
\* and free() make only those through a null pointer, which they do not test
\* when the real allocator has no memory left and in free(nullptr)
\* (Algalloc.cpp:49, 70, 99, 130, 152): no freed block is touched or given back
\* a second time.
THEOREM NoUndefinedAccess == ASSUME Plain PROVE Spec => []NoWildAccess
BY Invariance, InvImplies, PTL

--------------------------------------------------------------------------------
(* Algalloc implements SandboxSpec. *)

\* The mapping's held, whose value at s is Owned(s).
Held == [s \in Sandbox |-> Owned(s)]

LEMMA InitAbstract == Init => Abstract!Init
BY ConstantsAssumption DEF Init, Abstract!Init, Owned

LEMMA NotLiveUnheld ==
  ASSUME NEW b \in Block, b \notin Live
  PROVE  Abstract!Unheld(b)
BY ConstantsAssumption DEF Live, Abstract!Unheld, Owned

\* When the blocks of one sandbox change.
LEMMA HeldChange ==
  ASSUME NEW s \in Sandbox, \A t \in Sandbox \ {s} : Owned(t)' = Owned(t)
  PROVE  Held' = [Held EXCEPT ![s] = Owned(s)']
<1>1. \A t \in Sandbox : Held'[t] = IF t = s THEN Owned(s)' ELSE Held[t]
  BY DEF Held
<1>2. Held = [t \in Sandbox |-> Held[t]] /\ Held' = [t \in Sandbox |-> Held'[t]]
  BY DEF Held
<1> HIDE DEF Held
<1> QED BY <1>1, <1>2

LEMMA AllocateAbstract ==
  ASSUME Plain, IInv, NEW b \in Block, Allocate(b)
  PROVE  Abstract!Obtain(b)
<1>1. current \in Sandbox
  BY InSandboxFacts DEF Allocate
<1>2. Abstract!Unheld(b)
  BY NotLiveUnheld DEF Allocate
<1>3. Held' = [Held EXCEPT ![current] = @ \union {b}]
  <2>1. PICK c \in Sandbox : c = current
    BY <1>1
  <2>2. Owned(c)' = Held[c] \union {b}
    BY <2>1 DEF Held, Owned, Allocate, IInv, TypeOK
  <2>3. \A t \in Sandbox \ {c} : Owned(t)' = Owned(t)
    BY <2>1, ConstantsAssumption DEF Owned, Allocate, Live, IInv, TypeOK
  <2>4. Held' = [Held EXCEPT ![c] = Owned(c)']
    BY <2>3, HeldChange
  <2> QED BY <2>1, <2>2, <2>4
<1> QED BY <1>1, <1>2, <1>3 DEF Abstract!Obtain, Held, Allocate

LEMMA SandboxFreeAbstract ==
  ASSUME Plain, IInv, NEW p \in Block, SandboxFree(p)
  PROVE  Abstract!GiveBack(p)
<1>1. current \in Sandbox /\ p \in Owned(current)
  BY InSandboxFacts DEF SandboxFree
<1>2. owner' = [owner EXCEPT ![p] = NULL]
  BY <1>1 DEF SandboxFree, Poke, Owned, IInv, TypeOK, BaseAddressValid
<1>3. Held' = [Held EXCEPT ![current] = @ \ {p}]
  <2>1. PICK c \in Sandbox : c = current
    BY <1>1
  <2>2. Owned(c)' = Held[c] \ {p}
    BY <1>1, <1>2, <2>1, ConstantsAssumption DEF Held, Owned, IInv, TypeOK
  <2>3. \A t \in Sandbox \ {c} : Owned(t)' = Owned(t)
    BY <1>1, <1>2, <2>1, ConstantsAssumption DEF Owned, IInv, TypeOK
  <2>4. Held' = [Held EXCEPT ![c] = Owned(c)']
    BY <2>3, HeldChange
  <2> QED BY <2>1, <2>2, <2>4
<1> QED BY <1>1, <1>3 DEF Abstract!GiveBack, Held, SandboxFree

LEMMA FreeStepAbstract ==
  ASSUME IInv, FreeStep
  PROVE  Abstract!Release(ptr)
<1>1. Held' = [Held EXCEPT ![freeing] = @ \ {ptr}]
  <2>1. PICK f \in Sandbox : f = freeing
    BY FreeStepFacts
  <2>2. Owned(f)' = Held[f] \ {ptr}
    BY <2>1, FreeStepFacts DEF Held, Owned, FreeStep
  <2>3. \A s \in Sandbox \ {f} : Owned(s)' = Owned(s)
    BY <2>1, FreeStepFacts
  <2>4. Held' = [Held EXCEPT ![f] = Owned(f)']
    BY <2>3, HeldChange
  <2> QED BY <2>1, <2>2, <2>4
<1> QED BY <1>1, FreeStepFacts DEF Abstract!Release, Held, FreeStep

\* The loop of free() ends only when the sandbox holds nothing.
LEMMA FreeEndAbstract ==
  ASSUME IInv, FreeEnd
  PROVE  Abstract!EndRelease
<1>1. freeing \in Sandbox /\ Head(freeing) = NULL /\ Chained(freeing)
  BY DEF IInv, TypeOK, FreeEnd, Head
<1>2. Owned(freeing) = {}
  <2>1. Owned(freeing) /= {} =>
          \E b \in Owned(freeing) : b = NULL \/ next[b] \notin Owned(freeing)
    BY <1>1 DEF Chained, Chain
  <2>2. \A b \in Owned(freeing) : b /= NULL
    BY ConstantsAssumption DEF Owned
  <2> QED BY <1>1, <2>1, <2>2 DEF Chained, Chain
<1> QED BY <1>1, <1>2 DEF Abstract!EndRelease, FreeEnd, Owned

LEMMA ExchangeAbstract ==
  ASSUME IInv, NEW s \in Sandbox, NEW t \in Sandbox, Move(s, t) \/ Swap(s, t)
  PROVE  Abstract!Exchange(s, t)
<1>1. Held' = [Held EXCEPT ![s] = Held[t], ![t] = Held[s]]
  <2>1. s /= t /\ \A r \in Sandbox :
          Held'[r] = Held[IF r = s THEN t ELSE IF r = t THEN s ELSE r]
    BY ExchangeFacts DEF Held
  <2>2. Held = [r \in Sandbox |-> Held[r]] /\ Held' = [r \in Sandbox |-> Held'[r]]
    BY DEF Held
  <2> HIDE DEF Held
  <2> QED BY <2>1, <2>2
<1>2. Abstract!Idle
  BY DEF Abstract!Idle, Move, Swap, Outside, IInv, Machine
<1> QED BY <1>1, <1>2 DEF Abstract!Exchange, Held, Move, Swap

\* Steps after which every sandbox holds what it held.
LEMMA SameHeld ==
  ASSUME IInv
  PROVE  /\ \A b \in Block : HostMalloc(b) \/ HostFree(b) => Held' = Held
         /\ Cleanup => Held' = Held
         /\ \A s \in Sandbox : Prepare(s) \/ FreeBegin(s) => Held' = Held
         /\ UNCHANGED vars => Held' = Held
<1>1. ASSUME NEW b \in Block, HostMalloc(b) \/ HostFree(b) PROVE Held' = Held
  BY <1>1, ConstantsAssumption DEF Held, Owned, HostMalloc, HostFree, Live, IInv, TypeOK
<1> QED BY <1>1 DEF Held, Owned, Cleanup, Prepare, FreeBegin, vars

LEMMA NextAbstract ==
  ASSUME Plain, IInv, [Next]_vars, ~NullUse
  PROVE  [Abstract!Next]_(Abstract!vars)
<1> USE DEF Abstract!Next
<1>1. ASSUME NEW b \in Block, SandboxMalloc(b) \/ SandboxMemalign(b)
      PROVE  Abstract!Next
  BY <1>1, AllocateAbstract DEF SandboxMalloc, SandboxMemalign
<1>2. ASSUME NEW b \in Block, SandboxFree(b) PROVE Abstract!Next
  BY <1>2, SandboxFreeAbstract
<1>3. ASSUME NEW p \in Block, NEW q \in Block, SandboxRealloc(p, q)
      PROVE  UNCHANGED Abstract!vars
  <2>1. UNCHANGED vars
    BY <1>3, SandboxReallocStutters
  <2>2. Held' = Held
    BY <2>1, SameHeld
  <2> QED BY <2>1, <2>2 DEF Abstract!vars, Held, vars
<1>4. ASSUME NEW b \in Block, HostMalloc(b) \/ HostFree(b)
      PROVE  UNCHANGED Abstract!vars
  <2>1. Held' = Held
    BY <1>4, SameHeld
  <2> QED BY <1>4, <2>1 DEF Abstract!vars, Held, HostMalloc, HostFree
<1>5. ASSUME NEW s \in Sandbox, Prepare(s) PROVE Abstract!Next
  <2>1. Held' = Held
    BY <1>5, SameHeld
  <2>2. Abstract!Enter(s)
    BY <1>5, <2>1 DEF Abstract!Enter, Abstract!Idle, Held, Prepare, Outside, IInv, Machine
  <2> QED BY <2>2
<1>6. ASSUME NEW s \in Sandbox, FreeBegin(s) PROVE Abstract!Next
  <2>1. Held' = Held
    BY <1>6, SameHeld
  <2>2. Abstract!StartRelease(s)
    BY <1>6, <2>1 DEF Abstract!StartRelease, Abstract!Idle, Held, FreeBegin, Outside, IInv, Machine
  <2> QED BY <2>2
<1>7. ASSUME NEW s \in Sandbox, NEW t \in Sandbox, Move(s, t) \/ Swap(s, t)
      PROVE  Abstract!Next
  BY <1>7, ExchangeAbstract
<1>8. CASE Cleanup
  <2>1. Held' = Held
    BY <1>8, SameHeld
  <2>2. Abstract!Leave
    BY <1>8, <2>1 DEF Abstract!Leave, Held, Cleanup, InSandbox, IInv, Machine
  <2> QED BY <2>2
<1>9. CASE FreeStep
  <2>1. ptr \in Block
    BY <1>9, FreeStepFacts DEF Owned
  <2> QED BY <1>9, <2>1, FreeStepAbstract
<1>10. CASE FreeEnd
  BY <1>10, FreeEndAbstract
<1>11. CASE PosixMemalignReturns \/ UNCHANGED vars
  <2>1. Held' = Held
    BY <1>11, SameHeld DEF PosixMemalignReturns
  <2> QED BY <1>11, <2>1 DEF Abstract!vars, Held, PosixMemalignReturns, vars
<1> QED
  BY <1>1, <1>2, <1>3, <1>4, <1>5, <1>6, <1>7, <1>8, <1>9, <1>10, <1>11 DEF Next, NullUse

\* Sandboxes keep their promise: only the applied one obtains and gives back
\* blocks, free() returns all of its sandbox's blocks and no other's.
THEOREM SandboxesImplementSpec == ASSUME Plain PROVE Spec => ImplementsSandboxSpec
<1>1. ASSUME Inv, [Next]_vars PROVE [Abstract!Next]_(Abstract!vars)
  <2>1. CASE Lost
    BY <1>1, <2>1, LostStays DEF Abstract!vars, Owned, vars
  <2>2. CASE IInv /\ NullUse
    BY <2>2, NullUseFacts DEF Abstract!vars, Owned
  <2>3. CASE IInv /\ ~NullUse
    BY <1>1, <2>3, NextAbstract
  <2> QED BY <1>1, <2>1, <2>2, <2>3 DEF Inv
<1>2. Inv /\ [Next]_vars => [Abstract!Next]_(Abstract!vars)
  BY <1>1
<1> QED BY <1>2, InitAbstract, Invariance, PTL DEF Spec, Abstract!Spec, ImplementsSandboxSpec

================================================================================
