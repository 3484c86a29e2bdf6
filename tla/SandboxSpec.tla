------------------------------ MODULE SandboxSpec ------------------------------
(***************************************************************************)
(* What a set of memory sandboxes promises its client, without the linked  *)
(* lists ALGAlloc keeps to honour it.  Each sandbox holds a set of blocks. *)
(* Only the sandbox whose context is active obtains or gives back blocks;  *)
(* a sandbox that is released gives back every block it holds, one after   *)
(* the other, and no block of any other sandbox.                           *)
(***************************************************************************)
CONSTANTS
  Block,    \* the blocks the real allocator can hand out
  Sandbox,  \* the MemorySandbox objects of the process
  NULL      \* no sandbox

VARIABLES
  held,      \* held[s]: the blocks allocated under s and not freed since
  active,    \* the sandbox whose apply() is running, or NULL
  releasing  \* the sandbox whose free() is running, or NULL

vars == <<held, active, releasing>>

Init ==
  /\ held = [s \in Sandbox |-> {}]
  /\ active = NULL
  /\ releasing = NULL

Unheld(b) == \A s \in Sandbox : b \notin held[s]

Idle == active = NULL /\ releasing = NULL

Enter(s) ==
  /\ Idle
  /\ active' = s
  /\ UNCHANGED <<held, releasing>>

Leave ==
  /\ active /= NULL
  /\ active' = NULL
  /\ UNCHANGED <<held, releasing>>

Obtain(b) ==
  /\ active \in Sandbox
  /\ Unheld(b)
  /\ held' = [held EXCEPT ![active] = @ \union {b}]
  /\ UNCHANGED <<active, releasing>>

GiveBack(b) ==
  /\ active \in Sandbox
  /\ b \in held[active]
  /\ held' = [held EXCEPT ![active] = @ \ {b}]
  /\ UNCHANGED <<active, releasing>>

StartRelease(s) ==
  /\ Idle
  /\ releasing' = s
  /\ UNCHANGED <<held, active>>

Release(b) ==
  /\ releasing \in Sandbox
  /\ b \in held[releasing]
  /\ held' = [held EXCEPT ![releasing] = @ \ {b}]
  /\ UNCHANGED <<active, releasing>>

\* A release ends only when nothing is left.
EndRelease ==
  /\ releasing \in Sandbox
  /\ held[releasing] = {}
  /\ releasing' = NULL
  /\ UNCHANGED <<held, active>>

\* swap(first, second); a move is an exchange with an empty sandbox.
Exchange(s, t) ==
  /\ Idle
  /\ held' = [held EXCEPT ![s] = held[t], ![t] = held[s]]
  /\ UNCHANGED <<active, releasing>>

Next ==
  \/ Leave
  \/ EndRelease
  \/ \E b \in Block : Obtain(b) \/ GiveBack(b) \/ Release(b)
  \/ \E s \in Sandbox : Enter(s) \/ StartRelease(s)
  \/ \E s, t \in Sandbox : Exchange(s, t)

Spec == Init /\ [][Next]_vars

================================================================================
