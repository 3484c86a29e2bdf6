------------------------------ MODULE GuardProofs ------------------------------
(***************************************************************************)
(* What holds of guarded calls, with any number of stray user threads, of  *)
(* calls, and whether or not a fault may happen with the mutex held.  The  *)
(* inductive invariant says where the main thread and the worker may be at *)
(* the same time, and what each flag of the process must be there; what a  *)
(* stray thread can disturb is said together with escaped.                 *)
(***************************************************************************)
EXTENDS Guard, TLAPS

MainPlaces ==
  {"idle", "intercept", "join", "fault", "intercepted", "collect", "reset", "err", "erring",
   "clear", "clearing", "has_error", "decide", "start", "internal", "disable", "handler", "on_failure"}
WorkerPlaces ==
  {"none", "start", "prepare", "user", "wire", "cleanup", "handler", "on_failure", "done"}
HelperPlaces == {"none", "run", "wiring", "wire", "exiting", "abort", "handler", "raised"}

\* The worker is there exactly while main() waits for it.
Places ==
  /\ pc[Main] \in MainPlaces /\ pc[Worker] \in WorkerPlaces
  /\ \A h \in Helper : pc[h] \in HelperPlaces
  /\ pc[Main] = "join" <=> pc[Worker] /= "none"

\* What is installed, intercepted and sandboxed follows from the places.
Flags ==
  /\ g_intercept <=> pc[Main] \in {"join", "fault", "intercepted"}
  /\ g_sandboxed <=> \/ pc[Main] \in {"erring", "clearing"}
                     \/ pc[Worker] \in {"user", "wire", "cleanup", "handler", "on_failure"}
  /\ pc[Main] = "idle" => ~recovery
  /\ pc[Main] /= "idle" => recovery \/ escaped

Contexts ==
  /\ Worker \in context => pc[Worker] \in {"prepare", "user", "wire", "cleanup", "handler", "done"}
  /\ Main \in context => pc[Main] \in {"internal", "disable", "handler"}
  /\ pc[Worker] \notin {"none", "start"} => made \/ escaped
  /\ pc[Main] = "fault" => escaped

\* How the code ended, and the error that says so, from the worker to main().
Endings ==
  /\ proc = "running" /\ pc[Main] \in {"intercept", "start", "internal"} => ended = "none"
  /\ proc = "running" /\ pc[Worker] \in {"start", "prepare", "user", "wire"} => ended = "none"
  /\ pc[Worker] = "cleanup" => ended \in {"returned", "threw"}
  /\ pc[Worker] \in {"handler", "on_failure"} => ended \in {"crashed", "exited"}
  /\ pc[Worker] = "done" \/ pc[Main] \in {"fault", "intercepted", "collect", "reset", "err",
                                          "erring", "clear", "clearing", "has_error", "decide"} =>
       ended \in IF succeeded THEN {"returned", "threw"} ELSE {"crashed", "exited"}
  /\ pc[Main] = "disable" => ended = "returned"
  /\ pc[Main] \in {"handler", "on_failure"} => ended = "damaged"

Errors ==
  /\ err_var => \/ pc[Worker] \in {"cleanup", "done"}
                \/ pc[Main] \in {"fault", "intercepted", "collect", "reset", "err", "erring",
                                 "clear", "clearing"}
  /\ pc[Worker] \in {"cleanup", "done"}
       \/ pc[Main] \in {"fault", "intercepted", "collect", "reset", "err", "erring"} =>
       (err_var <=> ended = "threw")
  /\ pc[Main] \in {"clear", "clearing", "has_error"} => ended = "threw"
  /\ pc[Main] = "decide" => ended /= "threw"

\* The same of an attempt to exit.
Attempts ==
  /\ g_attempted => ended = "exited" \/ escaped
  /\ pc[Main] \in {"join", "fault", "intercepted", "collect"} /\ ended = "exited" => g_attempted
  /\ pc[Main] \in {"reset", "err", "erring", "clear", "clearing", "has_error", "decide"} =>
       /\ ended = "exited" => terminated
       /\ terminated => ended = "exited" \/ escaped

\* A thread that left the call; an attempt that is noted and not reset is of such
\* a thread, which is still at it, unless it is of the call.
Stray ==
  /\ \A h \in Helper : pc[h] \in {"exiting", "abort", "handler", "raised"} => escaped
  /\ g_attempted => \/ pc[Main] \in {"join", "fault", "intercepted", "collect", "reset"}
                    \/ \E h \in Helper : pc[h] \in {"abort", "handler", "raised"}

IInv == TypeOK /\ Places /\ Flags /\ Contexts /\ Endings /\ Errors /\ Attempts /\ Stray

--------------------------------------------------------------------------------
(* The steps. *)

\* guardVoid() begins: enable(), and nothing of the last call is left to mistake.
LEMMA CallKeeps == ASSUME IInv, Call PROVE IInv'
<1>1. TypeOK'
  <2>1. calls' \in 0 .. MaxCalls
    BY GuardAssumption DEF IInv, TypeOK, Call
  <2>2. pc' \in [Thread -> MainPlaces \union WorkerPlaces \union HelperPlaces]
    BY DEF IInv, TypeOK, Call, Goto, Thread, MainPlaces, WorkerPlaces, HelperPlaces
  <2> QED
    BY <2>1, <2>2 DEF IInv, TypeOK, Call, At, exiting, sandbox, outcome, MainPlaces,
       WorkerPlaces, HelperPlaces
<1>2. Places' /\ Flags' /\ Contexts' /\ Stray'
  BY DEF IInv, Call, At, Goto, exiting, sandbox, TypeOK, Thread, Places, MainPlaces,
     HelperPlaces, Flags, Contexts, Stray
<1>3. Endings' /\ Errors' /\ Attempts'
  <2>1. pc'[Main] = "intercept" /\ pc'[Worker] = "none"
    BY DEF IInv, Call, At, Goto, TypeOK, Thread, Places
  <2>2. g_attempted => escaped
    BY GuardAssumption DEF IInv, Call, At, Places, Stray
  <2>3. ~err_var
    BY DEF IInv, Call, At, Places, Errors
  <2> QED
    BY <2>1, <2>2, <2>3 DEF IInv, Call, At, exiting, Endings, Errors, Attempts
<1> QED  BY <1>1, <1>2, <1>3 DEF IInv

\* The interceptor goes up before the worker exists.
LEMMA InterceptKeeps == ASSUME IInv, Intercept PROVE IInv'
<1>1. TypeOK'
  BY DEF IInv, Intercept, At, Goto, guarded, sandbox, outcome, history, TypeOK
<1>2. Places' /\ Flags' /\ Contexts' /\ Stray'
  BY GuardAssumption DEF IInv, Intercept, At, Goto, guarded, sandbox, history, TypeOK,
     Thread, Places, MainPlaces, WorkerPlaces, Flags, Contexts, Stray
<1>3. Endings' /\ Errors' /\ Attempts'
  BY DEF IInv, Intercept, At, Goto, history, TypeOK, Thread, Endings, Errors, Attempts
<1> QED  BY <1>1, <1>2, <1>3 DEF IInv

\* The worker is joined, so that its context goes with it.
LEMMA JoinKeeps == ASSUME IInv, Join PROVE IInv'
<1>1. TypeOK'
  BY DEF IInv, Join, At, Goto, exiting, sandbox, outcome, history, TypeOK
<1>2. Places' /\ Flags' /\ Contexts' /\ Stray'
  BY DEF IInv, Join, At, Goto, exiting, sandbox, history, TypeOK, Thread, Places,
     MainPlaces, WorkerPlaces, HelperPlaces, Flags, Contexts, Stray
<1>3. Endings' /\ Errors' /\ Attempts'
  BY DEF IInv, Join, At, Goto, exiting, history, TypeOK, Thread, Endings, Errors, Attempts
<1> QED  BY <1>1, <1>2, <1>3 DEF IInv

\* The null impl_ kills the process: no thread goes on.
LEMMA MainFaultKeeps == ASSUME IInv, MainFault PROVE IInv'
<1>1. TypeOK'
  BY DEF IInv, MainFault, At, Goto, guarded, exiting, sandbox, history, TypeOK
<1>2. Places' /\ Flags' /\ Contexts' /\ Stray'
  BY DEF IInv, MainFault, At, Goto, guarded, exiting, sandbox, history, Places, Flags,
     Contexts, Stray
<1>3. Endings' /\ Errors' /\ Attempts'
  BY DEF IInv, MainFault, At, Goto, guarded, exiting, history, Endings, Errors, Attempts
<1> QED  BY <1>1, <1>2, <1>3 DEF IInv

\* The interceptor goes down after the worker is gone.
LEMMA EndInterceptKeeps == ASSUME IInv, EndIntercept PROVE IInv'
<1>1. TypeOK'
  BY DEF IInv, EndIntercept, At, Goto, guarded, sandbox, outcome, history, TypeOK
<1>2. Places' /\ Flags' /\ Contexts' /\ Stray'
  BY DEF IInv, EndIntercept, At, Goto, guarded, sandbox, history, TypeOK, Thread, Places,
     MainPlaces, HelperPlaces, Flags, Contexts, Stray
<1>3. Endings' /\ Errors' /\ Attempts'
  BY DEF IInv, EndIntercept, At, Goto, guarded, history, Endings, Errors, Attempts
<1> QED  BY <1>1, <1>2, <1>3 DEF IInv

\* The attempt to exit is copied out before it is reset.
LEMMA CollectKeeps == ASSUME IInv, Collect PROVE IInv'
<1>1. TypeOK'
  BY DEF IInv, Collect, At, Goto, guarded, sandbox, outcome, history, TypeOK
<1>2. Places' /\ Flags' /\ Contexts' /\ Stray'
  BY DEF IInv, Collect, At, Goto, guarded, sandbox, history, Places, MainPlaces,
     HelperPlaces, Flags, Contexts, Stray
<1>3. Endings' /\ Errors' /\ Attempts'
  BY DEF IInv, Collect, At, Goto, guarded, history, TypeOK, Thread, Endings, Errors,
     Attempts
<1> QED  BY <1>1, <1>2, <1>3 DEF IInv

\* What was copied out is reset.
LEMMA ResetKeeps == ASSUME IInv, Reset PROVE IInv'
<1>1. TypeOK'
  BY DEF IInv, Reset, At, Goto, guarded, sandbox, outcome, history, TypeOK
<1>2. Places' /\ Flags' /\ Contexts' /\ Stray'
  BY DEF IInv, Reset, At, Goto, guarded, sandbox, history, TypeOK, Thread, Places,
     MainPlaces, HelperPlaces, Flags, Contexts, Stray
<1>3. Endings' /\ Errors' /\ Attempts'
  BY DEF IInv, Reset, At, Goto, guarded, history, TypeOK, Thread, Endings, Errors, Attempts
<1> QED  BY <1>1, <1>2, <1>3 DEF IInv

\* No other sandbox is applied when the main thread asks for the error.
LEMMA ErrPrepareKeeps == ASSUME IInv, ErrPrepare PROVE IInv'
<1>1. TypeOK'
  BY DEF IInv, ErrPrepare, At, Goto, guarded, exiting, history, Apply, TypeOK
<1>2. Places' /\ Flags' /\ Contexts' /\ Stray'
  BY DEF IInv, ErrPrepare, At, Goto, guarded, exiting, history, Apply, TypeOK, Thread,
     Places, MainPlaces, HelperPlaces, Flags, Contexts, Stray
<1>3. Endings' /\ Errors' /\ Attempts'
  BY DEF IInv, ErrPrepare, At, Goto, guarded, exiting, history, Apply, TypeOK, Thread,
     Endings, Errors, Attempts
<1> QED  BY <1>1, <1>2, <1>3 DEF IInv

\* The error decides whether it is cleared next.
LEMMA ErrCleanupKeeps == ASSUME IInv, ErrCleanup PROVE IInv'
<1>1. TypeOK'
  BY DEF IInv, ErrCleanup, At, Goto, guarded, exiting, outcome, history, TypeOK
<1>2. Places' /\ Flags' /\ Contexts' /\ Stray'
  BY DEF IInv, ErrCleanup, At, Goto, guarded, exiting, history, TypeOK, Thread, Places,
     MainPlaces, HelperPlaces, Flags, Contexts, Stray
<1>3. Endings' /\ Errors' /\ Attempts'
  BY DEF IInv, ErrCleanup, At, Goto, guarded, exiting, history, Endings, Errors, Attempts
<1> QED  BY <1>1, <1>2, <1>3 DEF IInv

\* Nor when it clears it.
LEMMA ClearPrepareKeeps == ASSUME IInv, ClearPrepare PROVE IInv'
<1>1. TypeOK'
  BY DEF IInv, ClearPrepare, At, Goto, guarded, exiting, history, Apply, TypeOK
<1>2. Places' /\ Flags' /\ Contexts' /\ Stray'
  BY DEF IInv, ClearPrepare, At, Goto, guarded, exiting, history, Apply, TypeOK, Thread,
     Places, MainPlaces, HelperPlaces, Flags, Contexts, Stray
<1>3. Endings' /\ Errors' /\ Attempts'
  BY DEF IInv, ClearPrepare, At, Goto, guarded, exiting, history, Apply, TypeOK, Thread,
     Endings, Errors, Attempts
<1> QED  BY <1>1, <1>2, <1>3 DEF IInv

\* The error is gone before the run reports it.
LEMMA ClearCleanupKeeps == ASSUME IInv, ClearCleanup PROVE IInv'
<1>1. TypeOK'
  BY DEF IInv, ClearCleanup, At, Goto, guarded, exiting, outcome, history, TypeOK
<1>2. Places' /\ Flags' /\ Contexts' /\ Stray'
  BY DEF IInv, ClearCleanup, At, Goto, guarded, exiting, history, TypeOK, Thread, Places,
     MainPlaces, HelperPlaces, Flags, Contexts, Stray
<1>3. Endings' /\ Errors' /\ Attempts'
  BY DEF IInv, ClearCleanup, At, Goto, guarded, exiting, history, Places, Endings, Errors,
     Attempts
<1> QED  BY <1>1, <1>2, <1>3 DEF IInv

\* error() ends the process.
LEMMA FailKeeps == ASSUME IInv, Fail PROVE IInv'
<1>1. TypeOK'
  BY DEF IInv, Fail, At, Goto, guarded, exiting, sandbox, history, Message, TypeOK
<1>2. Places' /\ Flags' /\ Contexts' /\ Stray'
  BY DEF IInv, Fail, At, Goto, guarded, exiting, sandbox, history, Places, Flags, Contexts,
     Stray
<1>3. Endings' /\ Errors' /\ Attempts'
  BY DEF IInv, Fail, At, Goto, guarded, exiting, history, Endings, Errors, Attempts
<1> QED  BY <1>1, <1>2, <1>3 DEF IInv

\* disable() comes last: the next call finds nothing installed.
LEMMA ReturnKeeps == ASSUME IInv, Return PROVE IInv'
<1>1. TypeOK'
  BY DEF IInv, Return, At, Goto, exiting, sandbox, outcome, history, TypeOK
<1>2. Places' /\ Flags' /\ Contexts' /\ Stray'
  BY DEF IInv, Return, At, Goto, exiting, sandbox, history, TypeOK, Thread, Places,
     MainPlaces, HelperPlaces, Flags, Contexts, Stray
<1>3. Endings' /\ Errors' /\ Attempts'
  <2>1. pc'[Main] = "idle" /\ pc'[Worker] = "none" /\ pc[Worker] = "none"
    BY DEF IInv, Return, At, Goto, TypeOK, Thread, Places
  <2> QED
    BY <2>1 DEF IInv, Return, At, exiting, history, outcome, Endings, Errors, Attempts
<1> QED  BY <1>1, <1>2, <1>3 DEF IInv

\* guardInternal() begins: enable(), and no worker.
LEMMA InternalKeeps == ASSUME IInv, Internal PROVE IInv'
<1>1. TypeOK'
  <2>1. calls' \in 0 .. MaxCalls
    BY GuardAssumption DEF IInv, TypeOK, Internal
  <2>2. pc' \in [Thread -> MainPlaces \union WorkerPlaces \union HelperPlaces]
    BY DEF IInv, TypeOK, Internal, Goto, Thread, MainPlaces, WorkerPlaces, HelperPlaces
  <2> QED
    BY <2>1, <2>2 DEF IInv, TypeOK, Internal, At, exiting, sandbox, outcome, MainPlaces,
       WorkerPlaces, HelperPlaces
<1>2. Places' /\ Flags' /\ Contexts' /\ Stray'
  BY DEF IInv, Internal, At, Goto, exiting, sandbox, TypeOK, Thread, Places, MainPlaces,
     HelperPlaces, Flags, Contexts, Stray
<1>3. Endings' /\ Errors' /\ Attempts'
  <2>1. pc'[Main] = "start" /\ pc'[Worker] = "none"
    BY DEF IInv, Internal, At, Goto, TypeOK, Thread, Places
  <2>2. g_attempted => escaped
    BY GuardAssumption DEF IInv, Internal, At, Places, Stray
  <2>3. ~err_var
    BY DEF IInv, Internal, At, Places, Errors
  <2> QED
    BY <2>1, <2>2, <2>3 DEF IInv, Internal, At, exiting, Endings, Errors, Attempts
<1> QED  BY <1>1, <1>2, <1>3 DEF IInv

\* The main thread has a context only here.
LEMMA InternalStartKeeps == ASSUME IInv, InternalStart PROVE IInv'
<1>1. TypeOK'
  BY DEF IInv, InternalStart, At, Goto, exiting, sandbox, outcome, history, TypeOK
<1>2. Places' /\ Flags' /\ Contexts' /\ Stray'
  BY DEF IInv, InternalStart, At, Goto, exiting, sandbox, history, TypeOK, Thread, Places,
     MainPlaces, HelperPlaces, Flags, Contexts, Stray
<1>3. Endings' /\ Errors' /\ Attempts'
  BY DEF IInv, InternalStart, At, Goto, exiting, history, Endings, Errors, Attempts
<1> QED  BY <1>1, <1>2, <1>3 DEF IInv

\* The code of the program itself returns.
LEMMA InternalEndsKeeps == ASSUME IInv, InternalEnds PROVE IInv'
<1>1. TypeOK'
  BY DEF IInv, InternalEnds, At, Goto, guarded, exiting, sandbox, outcome, TypeOK
<1>2. Places' /\ Flags' /\ Contexts' /\ Stray'
  BY DEF IInv, InternalEnds, At, Goto, guarded, exiting, sandbox, Places, MainPlaces,
     HelperPlaces, Flags, Contexts, Stray
<1>3. Endings' /\ Errors' /\ Attempts'
  BY DEF IInv, InternalEnds, At, Goto, exiting, TypeOK, Thread, Places, Endings, Errors,
     Attempts
<1> QED  BY <1>1, <1>2, <1>3 DEF IInv

\* disable(), and the context of the main thread goes.
LEMMA InternalReturnKeeps == ASSUME IInv, InternalReturn PROVE IInv'
<1>1. TypeOK'
  BY DEF IInv, InternalReturn, At, Goto, exiting, sandbox, outcome, history, TypeOK
<1>2. Places' /\ Flags' /\ Contexts' /\ Stray'
  BY DEF IInv, InternalReturn, At, Goto, exiting, sandbox, history, TypeOK, Thread, Places,
     MainPlaces, HelperPlaces, Flags, Contexts, Stray
<1>3. Endings' /\ Errors' /\ Attempts'
  <2>1. pc'[Main] = "idle" /\ pc'[Worker] = "none" /\ pc[Worker] = "none"
    BY DEF IInv, InternalReturn, At, Goto, TypeOK, Thread, Places
  <2> QED
    BY <2>1 DEF IInv, InternalReturn, At, exiting, history, outcome, Endings, Errors, Attempts
<1> QED  BY <1>1, <1>2, <1>3 DEF IInv

\* A fault of the main thread: to its handler, or the end.
LEMMA InternalFaultsKeeps == ASSUME IInv, InternalFaults PROVE IInv'
<1>1. TypeOK'
  BY DEF IInv, InternalFaults, At, Goto, guarded, exiting, sandbox, Signal, TypeOK
<1>2. Places' /\ Flags' /\ Contexts' /\ Stray'
  BY DEF IInv, InternalFaults, At, Goto, guarded, exiting, sandbox, Signal, TypeOK, Thread,
     Places, MainPlaces, HelperPlaces, Flags, Contexts, Stray
<1>3. Endings' /\ Errors' /\ Attempts'
  BY DEF IInv, InternalFaults, At, Goto, exiting, Signal, TypeOK, Thread, Places, Endings,
     Errors, Attempts
<1> QED  BY <1>1, <1>2, <1>3 DEF IInv

\* The handler on the main thread finds its context.
LEMMA MainHandlesKeeps == ASSUME IInv, Handle(Main) PROVE IInv'
<1>1. TypeOK'
  BY DEF IInv, Handle, At, Goto, exiting, sandbox, outcome, history, TypeOK
<1>2. Places' /\ Flags' /\ Contexts' /\ Stray'
  BY GuardAssumption DEF IInv, Handle, At, Goto, exiting, sandbox, history, Places,
     MainPlaces, Flags, Contexts, Stray
<1>3. Endings' /\ Errors' /\ Attempts'
  BY DEF IInv, Handle, At, Goto, exiting, history, Endings, Errors, Attempts
<1> QED  BY <1>1, <1>2, <1>3 DEF IInv

\* The longjmp came back to guardInternal().
LEMMA InternalFailKeeps == ASSUME IInv, InternalFail PROVE IInv'
<1>1. TypeOK'
  BY DEF IInv, InternalFail, At, Goto, guarded, exiting, sandbox, history, TypeOK
<1>2. Places' /\ Flags' /\ Contexts' /\ Stray'
  BY DEF IInv, InternalFail, At, Goto, guarded, exiting, sandbox, history, Places, Flags,
     Contexts, Stray
<1>3. Endings' /\ Errors' /\ Attempts'
  BY DEF IInv, InternalFail, At, Goto, exiting, history, Endings, Errors, Attempts
<1> QED  BY <1>1, <1>2, <1>3 DEF IInv

\* runSafely() makes a context, unless a stray thread has disabled recovery.
LEMMA StartKeeps == ASSUME IInv, Start PROVE IInv'
<1>1. TypeOK'
  BY DEF IInv, Start, At, Goto, exiting, sandbox, outcome, history, TypeOK
<1>2. Places' /\ Flags' /\ Contexts' /\ Stray'
  BY DEF IInv, Start, At, Goto, exiting, sandbox, history, TypeOK, Thread, Places,
     WorkerPlaces, HelperPlaces, Flags, Contexts, Stray
<1>3. Endings' /\ Errors' /\ Attempts'
  BY DEF IInv, Start, At, Goto, exiting, history, Endings, Errors, Attempts
<1> QED  BY <1>1, <1>2, <1>3 DEF IInv

\* The worker is the only one to apply a sandbox.
LEMMA PrepareKeeps == ASSUME IInv, Prepare PROVE IInv'
<1>1. TypeOK'
  BY DEF IInv, Prepare, At, Goto, guarded, exiting, history, Apply, TypeOK
<1>2. Places' /\ Flags' /\ Contexts' /\ Stray'
  BY DEF IInv, Prepare, At, Goto, guarded, exiting, history, Apply, TypeOK, Thread, Places,
     WorkerPlaces, HelperPlaces, Flags, Contexts, Stray
<1>3. Endings' /\ Errors' /\ Attempts'
  BY DEF IInv, Prepare, At, Goto, exiting, history, Apply, TypeOK, Thread, Endings, Errors,
     Attempts
<1> QED  BY <1>1, <1>2, <1>3 DEF IInv

\* The worker takes the mutex inside the allocator.
LEMMA WorkerWireKeeps == ASSUME IInv, WorkerWire PROVE IInv'
<1>1. TypeOK'
  BY DEF IInv, WorkerWire, At, Goto, guarded, exiting, outcome, history, Lock, TypeOK,
     Thread
<1>2. Places' /\ Flags' /\ Contexts' /\ Stray'
  BY DEF IInv, WorkerWire, At, Goto, guarded, exiting, history, Lock, Places, WorkerPlaces,
     HelperPlaces, Flags, Contexts, Stray
<1>3. Endings' /\ Errors' /\ Attempts'
  BY DEF IInv, WorkerWire, At, Goto, exiting, history, Lock, Endings, Errors, Attempts
<1> QED  BY <1>1, <1>2, <1>3 DEF IInv

\* And gives it back.
LEMMA WorkerWiredKeeps == ASSUME IInv, WorkerWired PROVE IInv'
<1>1. TypeOK'
  BY DEF IInv, WorkerWired, At, Goto, guarded, exiting, outcome, history, Unlock, TypeOK
<1>2. Places' /\ Flags' /\ Contexts' /\ Stray'
  BY GuardAssumption DEF IInv, WorkerWired, At, Goto, guarded, exiting, history, Unlock,
     Places, WorkerPlaces, Flags, Contexts, Stray
<1>3. Endings' /\ Errors' /\ Attempts'
  BY DEF IInv, WorkerWired, At, Goto, exiting, history, Unlock, Endings, Errors, Attempts
<1> QED  BY <1>1, <1>2, <1>3 DEF IInv

\* The user's function returns, or its wrapper notes an exception.
LEMMA UserReturnsKeeps == ASSUME IInv, NEW threw \in BOOLEAN, UserReturns(threw) PROVE IInv'
<1>1. TypeOK'
  BY DEF IInv, UserReturns, At, Goto, guarded, exiting, sandbox, outcome, TypeOK
<1>2. Places' /\ Flags' /\ Contexts' /\ Stray'
  BY DEF IInv, UserReturns, At, Goto, guarded, exiting, sandbox, Places, WorkerPlaces,
     HelperPlaces, Flags, Contexts, Stray
<1>3. Endings' /\ Errors' /\ Attempts'
  BY DEF IInv, UserReturns, At, Goto, exiting, TypeOK, Thread, Places, Endings, Errors,
     Attempts
<1> QED  BY <1>1, <1>2, <1>3 DEF IInv

\* A fault of user code: to its handler, or the end.
LEMMA UserCrashesKeeps == ASSUME IInv, UserCrashes PROVE IInv'
<1>1. TypeOK'
  BY DEF IInv, UserCrashes, At, Goto, guarded, exiting, sandbox, Signal, TypeOK
<1>2. Places' /\ Flags' /\ Contexts' /\ Stray'
  BY GuardAssumption DEF IInv, UserCrashes, At, Goto, guarded, exiting, sandbox, Signal,
     TypeOK, Thread, Places, WorkerPlaces, Flags, Contexts, Stray
<1>3. Endings' /\ Errors' /\ Attempts'
  BY GuardAssumption DEF IInv, UserCrashes, At, Goto, exiting, Signal, TypeOK, Thread,
     Places, Endings, Errors, Attempts
<1> QED  BY <1>1, <1>2, <1>3 DEF IInv

\* exit() notes the attempt and raises SIGABRT.
LEMMA UserExitsKeeps == ASSUME IInv, UserExits PROVE IInv'
<1>1. TypeOK'
  BY DEF IInv, UserExits, At, Goto, guarded, sandbox, Signal, TypeOK
<1>2. Places' /\ Flags' /\ Contexts' /\ Stray'
  BY DEF IInv, UserExits, At, Goto, guarded, sandbox, Signal, TypeOK, Thread, Places,
     WorkerPlaces, HelperPlaces, Flags, Contexts, Stray
<1>3. Endings' /\ Errors' /\ Attempts'
  BY DEF IInv, UserExits, At, Goto, Signal, TypeOK, Thread, Flags, Endings, Errors, Attempts
<1> QED  BY <1>1, <1>2, <1>3 DEF IInv

\* The handler on the worker finds its context.
LEMMA WorkerHandlesKeeps == ASSUME IInv, Handle(Worker) PROVE IInv'
<1>1. TypeOK'
  BY DEF IInv, Handle, At, Goto, exiting, sandbox, outcome, history, TypeOK
<1>2. Places' /\ Flags' /\ Contexts' /\ Stray'
  BY GuardAssumption DEF IInv, Handle, At, Goto, exiting, sandbox, history, Places,
     WorkerPlaces, Flags, Contexts, Stray
<1>3. Endings' /\ Errors' /\ Attempts'
  BY DEF IInv, Handle, At, Goto, exiting, history, Endings, Errors, Attempts
<1> QED  BY <1>1, <1>2, <1>3 DEF IInv

\* The sandbox is left after a return.
LEMMA CleanupKeeps == ASSUME IInv, Cleanup PROVE IInv'
<1>1. TypeOK'
  BY DEF IInv, Cleanup, At, Goto, exiting, outcome, history, WorkerCleanup, SandboxedAfter,
     TypeOK
<1>2. Places' /\ Flags' /\ Contexts' /\ Stray'
  BY DEF IInv, Cleanup, At, Goto, exiting, history, WorkerCleanup, SandboxedAfter, TypeOK,
     Thread, Places, WorkerPlaces, HelperPlaces, Flags, Contexts, Stray
<1>3. Endings' /\ Errors' /\ Attempts'
  BY DEF IInv, Cleanup, At, Goto, exiting, history, WorkerCleanup, TypeOK, Places, Flags,
     Endings, Errors, Attempts
<1> QED  BY <1>1, <1>2, <1>3 DEF IInv

\* And after a crash.
LEMMA OnFailureKeeps == ASSUME IInv, OnFailure PROVE IInv'
<1>1. TypeOK'
  BY DEF IInv, OnFailure, At, Goto, exiting, outcome, history, WorkerCleanup,
     SandboxedAfter, TypeOK
<1>2. Places' /\ Flags' /\ Contexts' /\ Stray'
  BY DEF IInv, OnFailure, At, Goto, exiting, history, WorkerCleanup, SandboxedAfter,
     TypeOK, Thread, Places, WorkerPlaces, HelperPlaces, Flags, Contexts, Stray
<1>3. Endings' /\ Errors' /\ Attempts'
  BY DEF IInv, OnFailure, At, Goto, exiting, history, WorkerCleanup, TypeOK, Endings,
     Errors, Attempts
<1> QED  BY <1>1, <1>2, <1>3 DEF IInv

\* A stray thread starts.
LEMMA SpawnKeeps == ASSUME IInv, NEW h \in Helper, Spawn(h) PROVE IInv'
<1>1. TypeOK'
  BY DEF IInv, Spawn, At, Goto, guarded, exiting, sandbox, outcome, history, TypeOK
<1>2. Places' /\ Flags' /\ Contexts' /\ Stray'
  BY DEF IInv, Spawn, At, Goto, guarded, exiting, sandbox, history, Places, HelperPlaces,
     Flags, Contexts, Stray
<1>3. Endings' /\ Errors' /\ Attempts'
  BY DEF IInv, Spawn, At, Goto, exiting, history, Endings, Errors, Attempts
<1> QED  BY <1>1, <1>2, <1>3 DEF IInv

\* A stray thread has seen g_sandboxed true.
LEMMA HelperMallocKeeps == ASSUME IInv, NEW h \in Helper, HelperMalloc(h) PROVE IInv'
<1>1. TypeOK'
  BY DEF IInv, HelperMalloc, At, Goto, guarded, exiting, sandbox, outcome, history, TypeOK
<1>2. Places' /\ Flags' /\ Contexts' /\ Stray'
  BY DEF IInv, HelperMalloc, At, Goto, guarded, exiting, sandbox, history, Places,
     HelperPlaces, Flags, Contexts, Stray
<1>3. Endings' /\ Errors' /\ Attempts'
  BY DEF IInv, HelperMalloc, At, Goto, guarded, exiting, history, Endings, Errors, Attempts
<1> QED  BY <1>1, <1>2, <1>3 DEF IInv

\* It takes the mutex, perhaps in a later call.
LEMMA HelperWireKeeps == ASSUME IInv, NEW h \in Helper, HelperWire(h) PROVE IInv'
<1>1. TypeOK'
  BY DEF IInv, HelperWire, At, Goto, guarded, exiting, outcome, history, Lock, TypeOK,
     Thread
<1>2. Places' /\ Flags' /\ Contexts' /\ Stray'
  BY DEF IInv, HelperWire, At, Goto, guarded, exiting, history, Lock, Places, MainPlaces,
     WorkerPlaces, HelperPlaces, Flags, Contexts, Stray
<1>3. Endings' /\ Errors' /\ Attempts'
  BY DEF IInv, HelperWire, At, Goto, guarded, exiting, history, Lock, Places, WorkerPlaces,
     Endings, Errors, Attempts
<1> QED  BY <1>1, <1>2, <1>3 DEF IInv

\* And gives it back.
LEMMA HelperWiredKeeps == ASSUME IInv, NEW h \in Helper, HelperWired(h) PROVE IInv'
<1>1. TypeOK'
  BY DEF IInv, HelperWired, At, Goto, guarded, exiting, outcome, history, Unlock, TypeOK
<1>2. Places' /\ Flags' /\ Contexts' /\ Stray'
  BY GuardAssumption DEF IInv, HelperWired, At, Goto, guarded, exiting, history, Unlock,
     Places, HelperPlaces, Flags, Contexts, Stray
<1>3. Endings' /\ Errors' /\ Attempts'
  BY DEF IInv, HelperWired, At, Goto, guarded, exiting, history, Unlock, Endings, Errors,
     Attempts
<1> QED  BY <1>1, <1>2, <1>3 DEF IInv

\* It ends.
LEMMA HelperEndsKeeps == ASSUME IInv, NEW h \in Helper, HelperEnds(h) PROVE IInv'
<1>1. TypeOK'
  BY DEF IInv, HelperEnds, At, Goto, guarded, exiting, sandbox, outcome, history, TypeOK
<1>2. Places' /\ Flags' /\ Contexts' /\ Stray'
  BY DEF IInv, HelperEnds, At, Goto, guarded, exiting, sandbox, history, Places,
     MainPlaces, WorkerPlaces, HelperPlaces, Flags, Contexts, Stray
<1>3. Endings' /\ Errors' /\ Attempts'
  BY DEF IInv, HelperEnds, At, Goto, guarded, exiting, history, Endings, Errors, Attempts
<1> QED  BY <1>1, <1>2, <1>3 DEF IInv

\* It faults: whatever follows, it has escaped the call.
LEMMA HelperCrashesKeeps == ASSUME IInv, NEW h \in Helper, HelperCrashes(h) PROVE IInv'
<1>1. TypeOK'
  BY DEF IInv, HelperCrashes, At, Goto, guarded, exiting, sandbox, Signal, TypeOK
<1>2. Places' /\ Flags' /\ Contexts' /\ Stray'
  BY DEF IInv, HelperCrashes, At, Goto, guarded, exiting, sandbox, Signal, TypeOK, Thread,
     Places, MainPlaces, WorkerPlaces, HelperPlaces, Flags, Contexts, Stray
<1>3. Endings' /\ Errors' /\ Attempts'
  BY DEF IInv, HelperCrashes, At, Goto, guarded, exiting, Signal, TypeOK, Thread, Places,
     MainPlaces, WorkerPlaces, Endings, Errors, Attempts
<1> QED  BY <1>1, <1>2, <1>3 DEF IInv

\* It calls exit() while that is intercepted.
LEMMA HelperExitsKeeps == ASSUME IInv, NEW h \in Helper, HelperExits(h) PROVE IInv'
<1>1. TypeOK'
  BY DEF IInv, HelperExits, At, Goto, guarded, exiting, sandbox, outcome, TypeOK
<1>2. Places' /\ Flags' /\ Contexts' /\ Stray'
  BY GuardAssumption DEF IInv, HelperExits, At, Goto, guarded, exiting, sandbox, TypeOK,
     Thread, Places, MainPlaces, WorkerPlaces, HelperPlaces, Flags, Contexts, Stray
<1>3. Endings' /\ Errors' /\ Attempts'
  BY GuardAssumption DEF IInv, HelperExits, At, Goto, guarded, exiting, TypeOK, Thread,
     Places, MainPlaces, WorkerPlaces, Endings, Errors, Attempts
<1> QED  BY <1>1, <1>2, <1>3 DEF IInv

\* And notes it, whichever call it is by then.
LEMMA HelperAttemptsKeeps == ASSUME IInv, NEW h \in Helper, HelperAttempts(h) PROVE IInv'
<1>1. TypeOK'
  BY DEF IInv, HelperAttempts, At, Goto, guarded, sandbox, outcome, history, TypeOK
<1>2. Places' /\ Flags' /\ Contexts' /\ Stray'
  BY GuardAssumption DEF IInv, HelperAttempts, At, Goto, guarded, sandbox, history, TypeOK,
     Thread, Places, MainPlaces, WorkerPlaces, HelperPlaces, Flags, Contexts, Stray
<1>3. Endings' /\ Errors' /\ Attempts'
  BY GuardAssumption DEF IInv, HelperAttempts, At, Goto, guarded, history, TypeOK, Thread,
     Places, MainPlaces, WorkerPlaces, Endings, Errors, Attempts, Stray
<1> QED  BY <1>1, <1>2, <1>3 DEF IInv

\* Its SIGABRT arrives.
LEMMA HelperAbortsKeeps == ASSUME IInv, NEW h \in Helper, HelperAborts(h) PROVE IInv'
<1>1. TypeOK'
  BY DEF IInv, HelperAborts, At, Goto, guarded, exiting, sandbox, history, Signal, TypeOK
<1>2. Places' /\ Flags' /\ Contexts' /\ Stray'
  BY DEF IInv, HelperAborts, At, Goto, guarded, exiting, sandbox, history, Signal, TypeOK,
     Thread, Places, MainPlaces, WorkerPlaces, HelperPlaces, Flags, Contexts, Stray
<1>3. Endings' /\ Errors' /\ Attempts'
  BY DEF IInv, HelperAborts, At, Goto, guarded, exiting, history, Signal, TypeOK, Thread,
     Places, MainPlaces, WorkerPlaces, Endings, Errors, Attempts
<1> QED  BY <1>1, <1>2, <1>3 DEF IInv

\* It calls exit() while that is not intercepted.
LEMMA HelperRealExitKeeps == ASSUME IInv, NEW h \in Helper, HelperRealExit(h) PROVE IInv'
<1>1. TypeOK'
  BY DEF IInv, HelperRealExit, At, Goto, guarded, exiting, sandbox, TypeOK
<1>2. Places' /\ Flags' /\ Contexts' /\ Stray'
  BY DEF IInv, HelperRealExit, At, Goto, guarded, exiting, sandbox, Places, Flags,
     Contexts, Stray
<1>3. Endings' /\ Errors' /\ Attempts'
  BY DEF IInv, HelperRealExit, At, Goto, guarded, exiting, Endings, Errors, Attempts
<1> QED  BY <1>1, <1>2, <1>3 DEF IInv

\* Its handler finds no context and takes the handlers away.
LEMMA HandleNoContextKeeps == ASSUME IInv, NEW h \in Helper, HandleNoContext(h) PROVE IInv'
<1>1. TypeOK'
  BY DEF IInv, HandleNoContext, At, Goto, exiting, sandbox, outcome, history, TypeOK
<1>2. Places' /\ Flags' /\ Contexts' /\ Stray'
  BY GuardAssumption DEF IInv, HandleNoContext, At, Goto, exiting, sandbox, history,
     Places, HelperPlaces, Flags, Contexts, Stray
<1>3. Endings' /\ Errors' /\ Attempts'
  BY DEF IInv, HandleNoContext, At, Goto, exiting, history, Endings, Errors, Attempts
<1> QED  BY <1>1, <1>2, <1>3 DEF IInv

\* And the signal kills the process.
LEMMA RedeliverKeeps == ASSUME IInv, NEW h \in Helper, Redeliver(h) PROVE IInv'
<1>1. TypeOK'
  BY DEF IInv, Redeliver, At, Goto, guarded, exiting, sandbox, history, Signal, TypeOK
<1>2. Places' /\ Flags' /\ Contexts' /\ Stray'
  BY DEF IInv, Redeliver, At, Goto, guarded, exiting, sandbox, history, Signal, TypeOK,
     Thread, Places, MainPlaces, WorkerPlaces, HelperPlaces, Flags, Contexts, Stray
<1>3. Endings' /\ Errors' /\ Attempts'
  BY DEF IInv, Redeliver, At, Goto, guarded, exiting, history, Signal, TypeOK, Thread,
     Places, MainPlaces, WorkerPlaces, Endings, Errors, Attempts
<1> QED  BY <1>1, <1>2, <1>3 DEF IInv

--------------------------------------------------------------------------------
(* The invariant, and what it says of the properties. *)

\* Steps that change nothing here.
LEMMA StutterKeeps == ASSUME IInv, UNCHANGED vars PROVE IInv'
BY DEF IInv, vars, guarded, exiting, sandbox, outcome, history, TypeOK, Places, Flags,
   Contexts,
   Endings, Errors, Attempts, Stray

\* Every step keeps the invariant.
LEMMA NextKeeps == IInv /\ [Next]_vars => IInv'
<1>1. ASSUME IInv, MainStep PROVE IInv'
  BY <1>1, InterceptKeeps, JoinKeeps, MainFaultKeeps, EndInterceptKeeps, CollectKeeps,
     ResetKeeps, ErrPrepareKeeps, ErrCleanupKeeps, ClearPrepareKeeps, ClearCleanupKeeps, FailKeeps,
     ReturnKeeps, InternalStartKeeps, InternalEndsKeeps, InternalReturnKeeps, MainHandlesKeeps,
     InternalFailKeeps DEF MainStep
<1>2. ASSUME IInv, WorkerStep \/ WorkerWire PROVE IInv'
  BY <1>2, StartKeeps, PrepareKeeps, WorkerWireKeeps, WorkerWiredKeeps, WorkerHandlesKeeps,
     CleanupKeeps, OnFailureKeeps DEF WorkerStep
<1>3. ASSUME IInv, UserEnds PROVE IInv'
  BY <1>3, UserReturnsKeeps, UserCrashesKeeps, UserExitsKeeps DEF UserEnds
<1>4. ASSUME IInv, NEW h \in Helper,
             \/ Spawn(h) \/ HelperStep(h) \/ HelperMalloc(h) \/ HelperWire(h) \/ HelperEnds(h)
             \/ HelperCrashes(h) \/ HelperExits(h) \/ HelperRealExit(h)
      PROVE  IInv'
  BY <1>4, SpawnKeeps, HelperMallocKeeps, HelperWireKeeps, HelperWiredKeeps,
     HelperEndsKeeps,
     HelperCrashesKeeps, HelperExitsKeeps, HelperAttemptsKeeps, HelperAbortsKeeps,
     HelperRealExitKeeps,
     HandleNoContextKeeps, RedeliverKeeps DEF HelperStep
<1> QED
  BY <1>1, <1>2, <1>3, <1>4, CallKeeps, InternalKeeps, InternalFaultsKeeps,
     StutterKeeps DEF Next

\* A process starts with nothing installed.
LEMMA InvStart == Init => IInv
<1> SUFFICES ASSUME Init PROVE IInv
  OBVIOUS
<1>1. pc[Main] = "idle" /\ pc[Worker] = "none" /\ \A h \in Helper : pc[h] = "none"
  BY GuardAssumption DEF Init, Thread
<1>2. calls \in 0 .. MaxCalls
  BY GuardAssumption DEF Init
<1>3. TypeOK
  BY <1>2, GuardAssumption DEF Init, TypeOK, Thread
<1>4. Places /\ Flags /\ Contexts /\ Stray
  BY <1>1 DEF Init, Places, MainPlaces, WorkerPlaces, HelperPlaces, Flags, Contexts, Stray
<1>5. Endings /\ Errors /\ Attempts
  BY <1>1 DEF Init, Endings, Errors, Attempts
<1> QED  BY <1>3, <1>4, <1>5 DEF IInv

\* The invariant holds throughout.
LEMMA Invariance == Spec => []IInv
BY InvStart, NextKeeps, PTL DEF Spec

\* Types, for any number of stray threads.
THEOREM GuardTyped == Spec => []TypeOK
<1>1. IInv => TypeOK
  BY DEF IInv
<1> QED  BY <1>1, Invariance, PTL

\* A call that has returned leaves nothing behind (guardVoid and guardInternal,
\* whatever user code and its threads did).
THEOREM CallsRestore == Spec => []CallRestores
<1>1. IInv => CallRestores
  BY GuardAssumption DEF IInv, TypeOK, Places, Flags, Contexts, Errors, Stray, CallRestores, At
<1> QED  BY <1>1, Invariance, PTL

\* No second sandbox and no second interceptor ends the process.
THEOREM CallsNeverNest == Spec => []NeverNested
<1>1. IInv => NeverNested
  BY DEF IInv, Places, Flags, NeverNested, At
<1> QED  BY <1>1, Invariance, PTL

--------------------------------------------------------------------------------
(* The refinement. *)

\* A process starts between two calls.
LEMMA PromiseStart == Init => Abstract!Init
BY GuardAssumption DEF Init, Abstract!Init, Thread

\* A step main() does not see.
LEMMA Unseen ==
  ASSUME (pc[Main] = "idle")' <=> (pc[Main] = "idle"), UNCHANGED <<ended, outcome, escaped>>
  PROVE  UNCHANGED Abstract!vars
BY DEF Abstract!vars, outcome

\* The process dies, and a stray thread is to blame.
LEMMA Death ==
  ASSUME proc = "running", proc' \notin {"running", "reported"}, escaped', report' = report,
         \/ ended' = ended
         \/ /\ escaped /\ ended = "none"
            /\ ended' \in {"threw", "exited", "crashed", "damaged"}
  PROVE  Abstract!Next
BY DEF Abstract!Next, Abstract!Die, Abstract!ReportFor

\* Going on, the code of the call has ended.
LEMMA CodeEnds ==
  ASSUME proc = "running", proc' = "running", pc[Main] /= "idle", pc'[Main] /= "idle",
         ended = "none", ended' \in {"returned", "threw", "exited", "crashed", "damaged"},
         UNCHANGED <<report, escaped>>
  PROVE  Abstract!Next
BY DEF Abstract!Next, Abstract!End, Abstract!ReportFor

\* The steps of the main thread: only Fail and InternalFail report, and only
\* Return and InternalReturn end a call.
LEMMA MainAllowed == ASSUME IInv, MainStep PROVE [Abstract!Next]_(Abstract!vars)
<1>1. CASE Intercept \/ Join \/ EndIntercept \/ Collect \/ Reset \/ ErrCleanup \/ ClearCleanup
           \/ InternalStart \/ Handle(Main)
  BY <1>1, GuardAssumption, Unseen DEF Intercept, Join, EndIntercept, Collect, Reset, ErrCleanup,
     ClearCleanup, InternalStart, Handle, At, Goto, history, IInv, TypeOK, Thread
<1>2. CASE ErrPrepare \/ ClearPrepare
  <2>1. ~g_sandboxed
    BY <1>2 DEF ErrPrepare, ClearPrepare, Apply, At, IInv, Places, Flags
  <2> QED
    BY <1>2, <2>1, GuardAssumption, Unseen DEF ErrPrepare, ClearPrepare, Apply, At, Goto,
       outcome, history, IInv, TypeOK, Thread
<1>3. CASE MainFault
  BY <1>3, Death DEF MainFault, At, history, IInv, Contexts
<1>4. CASE Fail
  <2>1. /\ proc = "running" /\ proc' = "reported" /\ pc[Main] \in {"decide", "has_error"}
        /\ report' = Message /\ Message /= "none" /\ UNCHANGED <<ended, escaped>>
    BY <1>4 DEF Fail, At, history
  <2>2. \/ ended \in {"threw", "exited", "crashed", "damaged"}
             /\ Message = Abstract!ReportFor[ended]
        \/ ended \in {"returned", "crashed"} /\ escaped /\ Message = "termination"
    BY <2>1 DEF Message, IInv, TypeOK, Endings, Errors, Attempts, Abstract!ReportFor
  <2> QED  BY <2>1, <2>2 DEF Abstract!Next, Abstract!Report, Abstract!ReportFor
<1>5. CASE Return
  <2>1. ended = "returned"
    BY <1>5 DEF Return, Message, At, IInv, TypeOK, Endings, Errors, Attempts
  <2> QED
    BY <1>5, <2>1, GuardAssumption DEF Return, At, Goto, outcome, history, IInv, TypeOK,
       Thread,
       Abstract!Next, Abstract!Accept
<1>6. CASE InternalEnds
  BY <1>6, GuardAssumption, CodeEnds DEF InternalEnds, At, Goto, outcome, IInv, TypeOK,
     Thread,
     Endings
<1>7. CASE InternalReturn
  BY <1>7, GuardAssumption DEF InternalReturn, At, Goto, outcome, history, IInv, TypeOK,
     Thread,
     Endings, Abstract!Next, Abstract!Accept
<1>8. CASE InternalFail
  BY <1>8 DEF InternalFail, At, history, IInv, Endings, Abstract!Next, Abstract!Report,
     Abstract!ReportFor
<1> QED  BY <1>1, <1>2, <1>3, <1>4, <1>5, <1>6, <1>7, <1>8 DEF MainStep

\* The steps of the worker that are not the end of user code.
LEMMA WorkerAllowed ==
  ASSUME IInv, WorkerStep \/ WorkerWire PROVE [Abstract!Next]_(Abstract!vars)
<1>1. CASE Start \/ WorkerWire \/ WorkerWired \/ Handle(Worker) \/ Cleanup \/ OnFailure
  BY <1>1, GuardAssumption, Unseen DEF Start, WorkerWire, WorkerWired, Lock, Unlock, Handle,
     Cleanup, OnFailure, WorkerCleanup, At, Goto, history, IInv, TypeOK, Thread
<1>2. CASE Prepare
  <2>1. ~g_sandboxed
    BY <1>2 DEF Prepare, Apply, At, IInv, Places, Flags
  <2> QED
    BY <1>2, <2>1, GuardAssumption, Unseen DEF Prepare, Apply, At, Goto, outcome, history,
       IInv,
       TypeOK, Thread
<1> QED  BY <1>1, <1>2 DEF WorkerStep

\* User code ends once, and may take the process with it only after a thread
\* of its own has disabled recovery.
LEMMA UserAllowed == ASSUME IInv, UserEnds PROVE [Abstract!Next]_(Abstract!vars)
<1>1. ASSUME pc[Worker] \in {"user", "wire"}, proc = "running"
      PROVE  /\ ended = "none" /\ pc[Main] /= "idle"
             /\ recovery \/ escaped
  BY <1>1 DEF IInv, Places, Flags, Endings
<1>2. ASSUME NEW threw \in BOOLEAN, UserReturns(threw) PROVE Abstract!Next
  BY <1>1, <1>2, GuardAssumption, CodeEnds DEF UserReturns, At, Goto, outcome, IInv,
     TypeOK, Thread
<1>3. ASSUME UserCrashes \/ UserExits PROVE Abstract!Next
  <2>1. /\ pc[Worker] \in {"user", "wire"} /\ proc = "running"
        /\ ended' \in {"crashed", "exited"} /\ UNCHANGED <<report, escaped>> /\ Signal(Worker)
    BY <1>3, GuardAssumption DEF UserCrashes, UserExits, At
  <2>2. CASE recovery
    BY <1>1, <2>1, <2>2, GuardAssumption, CodeEnds DEF Signal, Goto, IInv, TypeOK, Thread
  <2>3. CASE ~recovery
    BY <1>1, <2>1, <2>3, Death DEF Signal
  <2> QED  BY <2>2, <2>3
<1> QED  BY <1>2, <1>3 DEF UserEnds

\* The steps of stray threads.
LEMMA HelperAllowed ==
  ASSUME IInv, NEW h \in Helper,
         \/ Spawn(h) \/ HelperStep(h) \/ HelperMalloc(h) \/ HelperWire(h) \/ HelperEnds(h)
         \/ HelperCrashes(h) \/ HelperExits(h) \/ HelperRealExit(h)
  PROVE  [Abstract!Next]_(Abstract!vars)
<1>1. CASE Spawn(h) \/ HelperMalloc(h) \/ HelperWire(h) \/ HelperWired(h) \/ HelperEnds(h)
           \/ HandleNoContext(h) \/ HelperAttempts(h)
  BY <1>1, GuardAssumption, Unseen DEF Spawn, HelperMalloc, HelperWire, HelperWired, Lock,
     Unlock,
     HelperEnds, HandleNoContext, HelperAttempts, At, Goto, history, IInv, TypeOK, Thread
<1>2. CASE HelperCrashes(h) \/ HelperAborts(h) \/ Redeliver(h)
  <2>1. /\ proc = "running" /\ escaped' /\ UNCHANGED <<report, ended>> /\ Signal(h)
    BY <1>2 DEF HelperCrashes, HelperAborts, Redeliver, At, history, IInv, Stray
  <2>2. CASE recovery
    <3>1. proc' = proc /\ pc'[Main] = pc[Main]
      BY <2>1, <2>2, GuardAssumption DEF Signal, Goto, IInv, TypeOK, Thread
    <3> QED  BY <2>1, <3>1 DEF Abstract!Next, Abstract!Escape
  <2>3. CASE ~recovery
    BY <2>1, <2>3, Death DEF Signal
  <2> QED  BY <2>2, <2>3
<1>3. CASE HelperExits(h)
  BY <1>3, GuardAssumption DEF HelperExits, At, Goto, outcome, IInv, TypeOK, Thread,
     Abstract!Next,
     Abstract!Escape
<1>4. CASE HelperRealExit(h)
  BY <1>4, Death DEF HelperRealExit, At
<1> QED  BY <1>1, <1>2, <1>3, <1>4 DEF HelperStep

\* The verdict of every call is how its code really ended, and the process dies
\* without one only by a stray thread.
THEOREM GuardImplementsSpec == Spec => ImplementsGuardSpec
<1>1. IInv /\ [Next]_vars => [Abstract!Next]_(Abstract!vars)
  <2>1. ASSUME IInv, Call \/ Internal PROVE Abstract!Next
    BY <2>1, GuardAssumption DEF Call, Internal, At, Goto, outcome, IInv, TypeOK, Thread,
       Abstract!Next, Abstract!Call
  <2>2. ASSUME IInv, InternalFaults PROVE Abstract!Next
    <3>1. /\ pc[Main] = "internal" /\ proc = "running" /\ ended = "none" /\ ended' = "damaged"
          /\ UNCHANGED <<report, escaped>> /\ Signal(Main) /\ (recovery \/ escaped)
      BY <2>2 DEF InternalFaults, At, IInv, Endings, Flags
    <3>2. CASE recovery
      <4>1. proc' = "running" /\ pc'[Main] = "handler"
        BY <2>2, <3>1, <3>2 DEF Signal, Goto, IInv, TypeOK, Thread
      <4> QED  BY <3>1, <4>1, CodeEnds
    <3>3. CASE ~recovery
      BY <3>1, <3>3, Death DEF Signal
    <3> QED  BY <3>2, <3>3
  <2>3. ASSUME UNCHANGED vars PROVE UNCHANGED Abstract!vars
    BY <2>3, Unseen DEF vars, history
  <2> QED
    BY <2>1, <2>2, <2>3, MainAllowed, WorkerAllowed, UserAllowed, HelperAllowed DEF Next
<1> QED  BY <1>1, PromiseStart, Invariance, PTL DEF Spec, Abstract!Spec, ImplementsGuardSpec

================================================================================
