--------------------------------- MODULE Guard ---------------------------------
(***************************************************************************)
(* src/Support/Guard.cpp with src/ALGExit: how main() calls a function of  *)
(* a user library.  guardVoid() runs it on a thread of its own, inside the *)
(* library's memory sandbox, with signal handlers that bring a crash back  *)
(* to that thread and with exit() intercepted, joins the thread, asks the  *)
(* library for its error, and either returns or reports and exits.         *)
(*                                                                         *)
(* Threads are Main, the Worker of the current call, and the Helper        *)
(* threads user code starts and does not join.  A step is what a thread    *)
(* does between two points where another one can observe it; taking        *)
(* g_last_alloc_mutex is where they wait for each other.                   *)
(***************************************************************************)
EXTENDS Naturals

CONSTANTS
  Main, Worker,  \* the two threads of a call
  Helper,        \* the threads user code may leave running
  NULL,          \* the owner of a free mutex
  MaxCalls,      \* bound: guarded calls of one process
  Fault          \* how user code may crash besides the plain case: "wire", inside
                 \* wire_allocation (malloc failed, or the list head is a block
                 \* that realloc moved)

ASSUME GuardAssumption ==
  /\ Main /= Worker /\ Main \notin Helper /\ Worker \notin Helper
  /\ NULL \notin {Main, Worker} \union Helper
  /\ MaxCalls \in Nat
  /\ Fault \subseteq {"wire"}

Thread == {Main, Worker} \union Helper

VARIABLES
  pc,           \* where each thread is
  recovery,     \* g_crash_recovery_enabled: the handlers are installed
  context,      \* the threads with a g_current_context
  made,         \* impl_ /= nullptr in the GuardContext of the call
  succeeded,    \* what runSafely returned on the worker
  g_intercept, g_attempted,
  terminated,   \* termination_attempted: main's copy of g_attempted
  g_sandboxed,
  mutex,        \* the owner of g_last_alloc_mutex, or NULL
  err_var,      \* the library's __error_var is set
  proc,         \* the process: "running", "reported", "killed" or "exited"
  report,       \* the kind of failure written to the status file, or "none"
  calls,        \* calls begun
  ended,        \* ghost: how the user code of the call ended
  escaped       \* ghost: a helper crashed or exited

guarded == <<recovery, context, made, succeeded>>
exiting == <<g_intercept, g_attempted, terminated>>
sandbox == <<g_sandboxed, mutex>>
outcome == <<proc, report>>
history == <<calls, ended, escaped>>
vars == <<pc, err_var, guarded, exiting, sandbox, outcome, history>>

Init ==
  /\ pc = [t \in Thread |-> IF t = Main THEN "idle" ELSE "none"]
  /\ recovery = FALSE /\ context = {} /\ made = FALSE /\ succeeded = FALSE
  /\ g_intercept = FALSE /\ g_attempted = FALSE /\ terminated = FALSE
  /\ g_sandboxed = FALSE /\ mutex = NULL /\ err_var = FALSE
  /\ proc = "running" /\ report = "none"
  /\ calls = 0 /\ ended = "none" /\ escaped = FALSE

At(t, l) == proc = "running" /\ pc[t] = l
Goto(t, l) == pc' = [pc EXCEPT ![t] = l]

--------------------------------------------------------------------------------
(* Signals. *)

\* A signal reaches a thread: its handler, or the default action, which kills.
Signal(t) ==
  IF recovery THEN Goto(t, "handler") /\ proc' = proc
              ELSE proc' = "killed" /\ pc' = pc

\* crashRecoverySignalHandler on a thread that has a context.
Handle(t) ==
  /\ At(t, "handler") /\ t \in context
  /\ Goto(t, "on_failure")
  /\ context' = context \ {t}
  /\ UNCHANGED <<err_var, recovery, made, succeeded, exiting, sandbox, outcome, history>>

--------------------------------------------------------------------------------
(* main(): guardVoid(). *)

\* GuardContext ctx; GuardContext::enable().
Call ==
  /\ At(Main, "idle") /\ calls < MaxCalls
  /\ Goto(Main, "intercept") /\ recovery' = TRUE /\ made' = FALSE
  /\ calls' = calls + 1 /\ ended' = "none"
  /\ UNCHANGED <<err_var, context, succeeded, exiting, sandbox, outcome, escaped>>

\* terminationInterceptorApply sets g_intercept and runSafelyOnThread starts
\* the worker.
Intercept ==
  /\ At(Main, "intercept")
  /\ pc' = [pc EXCEPT ![Main] = "join", ![Worker] = "start"]
  /\ g_intercept' = TRUE
  /\ UNCHANGED <<err_var, guarded, g_attempted, terminated, sandbox, outcome, history>>

\* thread.join(), then impl_->setSwitchedThread() through a pointer that is
\* null if runSafely found crash recovery disabled: that fault has no context.
Join ==
  /\ At(Main, "join") /\ pc[Worker] = "done"
  /\ pc' = [pc EXCEPT ![Main] = IF made THEN "intercepted" ELSE "fault", ![Worker] = "none"]
  /\ context' = context \ {Worker}
  /\ UNCHANGED <<err_var, recovery, made, succeeded, exiting, sandbox, outcome, history>>

MainFault ==
  /\ At(Main, "fault")
  /\ proc' = "killed"
  /\ UNCHANGED <<pc, err_var, guarded, exiting, sandbox, report, history>>

EndIntercept ==
  /\ At(Main, "intercepted")
  /\ Goto(Main, "collect") /\ g_intercept' = FALSE
  /\ UNCHANGED <<err_var, guarded, g_attempted, terminated, sandbox, outcome, history>>

\* The end of terminationInterceptorApply: copy the flag out, and reset it.
Collect ==
  /\ At(Main, "collect")
  /\ Goto(Main, "reset") /\ terminated' = g_attempted
  /\ UNCHANGED <<err_var, guarded, g_intercept, g_attempted, sandbox, outcome, history>>

Reset ==
  /\ At(Main, "reset")
  /\ Goto(Main, "err") /\ g_attempted' = FALSE
  /\ UNCHANGED <<err_var, guarded, g_intercept, terminated, sandbox, outcome, history>>

\* applyVoid() by thread t: a second application exits the process, otherwise
\* prepare() takes the mutex; from and to are where t is before and after.
Apply(t, from, to) ==
  /\ At(t, from)
  /\ mutex = NULL
  /\ IF g_sandboxed
     THEN proc' = "exited" /\ UNCHANGED <<pc, g_sandboxed>>
     ELSE Goto(t, to) /\ g_sandboxed' = TRUE /\ proc' = proc
  /\ UNCHANGED <<err_var, guarded, exiting, mutex, report, history>>

\* err() and clear_err() run on the main thread, each in the sandbox.
ErrPrepare == Apply(Main, "err", "erring")

\* err() returns, and cleanup() ends its sandbox.
ErrCleanup ==
  /\ At(Main, "erring") /\ mutex = NULL
  /\ Goto(Main, IF err_var THEN "clear" ELSE "decide") /\ g_sandboxed' = FALSE
  /\ UNCHANGED <<err_var, guarded, exiting, mutex, outcome, history>>

ClearPrepare == Apply(Main, "clear", "clearing")

ClearCleanup ==
  /\ At(Main, "clearing") /\ mutex = NULL
  /\ Goto(Main, "has_error") /\ err_var' = FALSE /\ g_sandboxed' = FALSE
  /\ UNCHANGED <<guarded, exiting, mutex, outcome, history>>

\* The message guardVoid() composes: the library's error, else an exit
\* attempt, else the signal (mutant: the signal is looked at first).
MessageSignalFirst ==
  IF ~succeeded THEN "signal"
  ELSE IF pc[Main] = "has_error" THEN "error"
  ELSE IF terminated THEN "termination" ELSE "none"
Message ==
  IF pc[Main] = "has_error" THEN "error"
  ELSE IF terminated THEN "termination"
  ELSE IF ~succeeded THEN "signal" ELSE "none"

\* error(User) writes the status file and exits the process (mutant: it only
\* exits).
FailSilently ==
  /\ At(Main, "decide") \/ At(Main, "has_error")
  /\ Message /= "none"
  /\ proc' = "reported"
  /\ UNCHANGED <<pc, err_var, guarded, exiting, sandbox, report, history>>
Fail ==
  /\ At(Main, "decide") \/ At(Main, "has_error")
  /\ Message /= "none"
  /\ report' = Message /\ proc' = "reported"
  /\ UNCHANGED <<pc, err_var, guarded, exiting, sandbox, history>>

\* GuardContext::disable(), and the call returns (mutant: disable() is left out).
ReturnEnabled ==
  /\ At(Main, "decide")
  /\ Message = "none"
  /\ Goto(Main, "idle")
  /\ UNCHANGED <<err_var, guarded, exiting, sandbox, outcome, history>>
Return ==
  /\ At(Main, "decide")
  /\ Message = "none"
  /\ Goto(Main, "idle") /\ recovery' = FALSE
  /\ UNCHANGED <<err_var, context, made, succeeded, exiting, sandbox, outcome, history>>

--------------------------------------------------------------------------------
(* main(): guardInternal(), which runs the program's own code on memory *)
(* user code may have damaged, on the main thread and in no sandbox.     *)

Internal ==
  /\ At(Main, "idle") /\ calls < MaxCalls
  /\ Goto(Main, "start") /\ recovery' = TRUE /\ calls' = calls + 1
  /\ ended' = "none"
  /\ UNCHANGED <<err_var, context, made, succeeded, exiting, sandbox, outcome, escaped>>

InternalStart ==
  /\ At(Main, "start")
  /\ Goto(Main, "internal")
  /\ context' = IF recovery THEN context \union {Main} ELSE context
  /\ UNCHANGED <<err_var, recovery, made, succeeded, exiting, sandbox, outcome, history>>

InternalEnds ==
  /\ At(Main, "internal")
  /\ Goto(Main, "disable") /\ ended' = "returned"
  /\ UNCHANGED <<err_var, guarded, exiting, sandbox, outcome, calls, escaped>>

\* disable(), and ~GuardContextImpl clears the context of this thread.
InternalReturn ==
  /\ At(Main, "disable")
  /\ Goto(Main, "idle") /\ recovery' = FALSE
  /\ context' = context \ {Main}
  /\ UNCHANGED <<err_var, made, succeeded, exiting, sandbox, outcome, history>>

InternalFaults ==
  /\ At(Main, "internal")
  /\ Signal(Main)
  /\ ended' = "damaged"
  /\ UNCHANGED <<err_var, guarded, exiting, sandbox, report, calls, escaped>>

\* "Untrusted operation failed": the handler's longjmp came back here.
InternalFail ==
  /\ At(Main, "on_failure")
  /\ report' = "untrusted" /\ proc' = "reported"
  /\ UNCHANGED <<pc, err_var, guarded, exiting, sandbox, history>>

--------------------------------------------------------------------------------
(* The worker: runSafely() around apply() around the user's function. *)

Start ==
  /\ At(Worker, "start")
  /\ Goto(Worker, "prepare")
  /\ IF recovery
     THEN context' = context \union {Worker} /\ made' = TRUE
     ELSE UNCHANGED <<context, made>>
  /\ UNCHANGED <<err_var, recovery, succeeded, exiting, sandbox, outcome, history>>

Prepare == Apply(Worker, "prepare", "user")

\* User code starts a thread.
Spawn(h) ==
  /\ At(Worker, "user") /\ pc[h] = "none"
  /\ Goto(h, "run")
  /\ UNCHANGED <<err_var, guarded, exiting, sandbox, outcome, history>>

\* wire_allocation (and sandbox_free) take the mutex, and release it.
Lock(t, from, to) ==
  /\ At(t, from) /\ mutex = NULL
  /\ mutex' = t /\ Goto(t, to)
  /\ UNCHANGED <<err_var, guarded, exiting, g_sandboxed, outcome, history>>

\* (mutant: it is never released).
UnlockForgotten(t, from, to) ==
  /\ At(t, from) /\ mutex = t
  /\ Goto(t, to)
  /\ UNCHANGED <<err_var, guarded, exiting, sandbox, outcome, history>>
Unlock(t, from, to) ==
  /\ At(t, from) /\ mutex = t
  /\ mutex' = NULL /\ Goto(t, to)
  /\ UNCHANGED <<err_var, guarded, exiting, g_sandboxed, outcome, history>>

WorkerWire == Lock(Worker, "user", "wire")
WorkerWired == Unlock(Worker, "wire", "user")

\* The function returns, or throws: its wrapper then sets __error_var.
UserReturns(threw) ==
  /\ At(Worker, "user")
  /\ Goto(Worker, "cleanup") /\ err_var' = threw
  /\ ended' = IF threw THEN "threw" ELSE "returned"
  /\ UNCHANGED <<guarded, exiting, sandbox, outcome, calls, escaped>>

\* A fault in the user's function, or in wire_allocation with the mutex held.
\* (Not a stack overflow: without an alternate stack no handler can run then.)
UserCrashes ==
  /\ \E f \in {"user"} \union Fault : At(Worker, f)
  /\ Signal(Worker)
  /\ ended' = "crashed"
  /\ UNCHANGED <<err_var, guarded, exiting, sandbox, report, calls, escaped>>

\* exit() or _exit(): intercept_exit notes it and raises SIGABRT.
UserExits ==
  /\ At(Worker, "user") /\ g_intercept
  /\ g_attempted' = TRUE
  /\ Signal(Worker)
  /\ ended' = "exited"
  /\ UNCHANGED <<err_var, guarded, g_intercept, terminated, sandbox, report, calls, escaped>>

\* What MemorySandbox::cleanup() leaves in g_sandboxed (mutant: the crash path
\* forgets it).
SandboxedIfCrashed(l) == l = "on_failure"
SandboxedAfter(l) == FALSE

\* cleanup() under the mutex: at the end of applyVoid(), or from on_failure(),
\* after which longjmp makes runSafely return false.
WorkerCleanup(l) ==
  /\ At(Worker, l) /\ mutex = NULL
  /\ Goto(Worker, "done") /\ g_sandboxed' = SandboxedAfter(l)
  /\ succeeded' = (l = "cleanup")
  /\ UNCHANGED <<err_var, recovery, context, made, exiting, mutex, outcome, history>>

Cleanup == WorkerCleanup("cleanup")
OnFailure == WorkerCleanup("on_failure")

--------------------------------------------------------------------------------
(* Threads user code left running: no context, but the same handlers, the *)
(* same exit() and the same allocator.                                    *)

\* malloc() reads g_sandboxed before it takes the mutex.
HelperMalloc(h) ==
  /\ At(h, "run") /\ g_sandboxed
  /\ Goto(h, "wiring")
  /\ UNCHANGED <<err_var, guarded, exiting, sandbox, outcome, history>>

HelperWire(h) == Lock(h, "wiring", "wire")
HelperWired(h) == Unlock(h, "wire", "run")

HelperEnds(h) ==
  /\ At(h, "run")
  /\ Goto(h, "none")
  /\ UNCHANGED <<err_var, guarded, exiting, sandbox, outcome, history>>

HelperCrashes(h) ==
  /\ At(h, "run")
  /\ Signal(h)
  /\ escaped' = TRUE
  /\ UNCHANGED <<err_var, guarded, exiting, sandbox, report, calls, ended>>

\* exit() tests g_intercept: either intercept_exit is called ...
HelperExits(h) ==
  /\ At(h, "run") /\ g_intercept
  /\ Goto(h, "exiting") /\ escaped' = TRUE
  /\ UNCHANGED <<err_var, guarded, exiting, sandbox, outcome, calls, ended>>

\* ... and notes the attempt, of this call or of a later one ...
HelperAttempts(h) ==
  /\ At(h, "exiting")
  /\ Goto(h, "abort") /\ g_attempted' = TRUE
  /\ UNCHANGED <<err_var, guarded, g_intercept, terminated, sandbox, outcome, history>>

\* ... and raises SIGABRT,
HelperAborts(h) ==
  /\ At(h, "abort")
  /\ Signal(h)
  /\ UNCHANGED <<err_var, guarded, exiting, sandbox, report, history>>

\* ... or it ends the process with the status user code chose.
HelperRealExit(h) ==
  /\ At(h, "run") /\ ~g_intercept
  /\ proc' = "exited" /\ escaped' = TRUE
  /\ UNCHANGED <<pc, err_var, guarded, exiting, sandbox, report, calls, ended>>

\* No context: disable() and raise() again; the signal stays pending until
\* the handler returns (mutant: it is not raised again).
HandleNoContextSwallows(h) ==
  /\ At(h, "handler")
  /\ Goto(h, "run") /\ recovery' = FALSE
  /\ UNCHANGED <<err_var, context, made, succeeded, exiting, sandbox, outcome, history>>
HandleNoContext(h) ==
  /\ At(h, "handler")
  /\ Goto(h, "raised") /\ recovery' = FALSE
  /\ UNCHANGED <<err_var, context, made, succeeded, exiting, sandbox, outcome, history>>

Redeliver(h) ==
  /\ At(h, "raised")
  /\ Signal(h)
  /\ UNCHANGED <<err_var, guarded, exiting, sandbox, report, history>>

--------------------------------------------------------------------------------
MainStep ==
  \/ Intercept \/ Join \/ MainFault \/ EndIntercept \/ Collect \/ Reset
  \/ ErrPrepare \/ ErrCleanup \/ ClearPrepare \/ ClearCleanup \/ Fail \/ Return
  \/ InternalStart \/ InternalEnds \/ InternalReturn \/ Handle(Main) \/ InternalFail

WorkerStep == Start \/ Prepare \/ WorkerWired \/ Handle(Worker) \/ Cleanup \/ OnFailure

UserEnds == \/ \E threw \in BOOLEAN : UserReturns(threw)
            \/ UserCrashes \/ UserExits

HelperStep(h) == \/ HelperAttempts(h) \/ HelperAborts(h) \/ HandleNoContext(h)
                 \/ Redeliver(h) \/ HelperWired(h)

Next ==
  \/ Call \/ Internal \/ InternalFaults \/ MainStep \/ WorkerStep \/ WorkerWire \/ UserEnds
  \/ \E h \in Helper :
       \/ Spawn(h) \/ HelperStep(h) \/ HelperMalloc(h) \/ HelperWire(h) \/ HelperEnds(h)
       \/ HelperCrashes(h) \/ HelperExits(h) \/ HelperRealExit(h)

Spec == Init /\ [][Next]_vars

\* The scheduler runs every thread, and a thread that waits for a mutex which
\* is free again and again gets it.  User code is assumed to end: no timeout
\* cuts it off.
FairSpec ==
  /\ Spec
  /\ SF_vars(MainStep) /\ SF_vars(WorkerStep) /\ SF_vars(UserEnds)
  /\ \A h \in Helper : WF_vars(HelperStep(h))

--------------------------------------------------------------------------------
TypeOK ==
  /\ pc \in [Thread -> {"idle", "intercept", "join", "fault", "intercepted", "collect", "reset",
                        "err", "erring", "clear", "clearing", "has_error", "decide", "none", "start",
                        "prepare", "user", "wire", "cleanup", "handler", "on_failure", "done",
                        "run", "wiring", "exiting", "abort", "raised",
                        "internal", "disable"}]
  /\ {recovery, made, succeeded, g_intercept, g_attempted, terminated, g_sandboxed, err_var,
      escaped} \subseteq BOOLEAN
  /\ context \subseteq {Main, Worker}
  /\ mutex \in Thread \union {NULL}
  /\ proc \in {"running", "reported", "killed", "exited"}
  /\ report \in {"none", "error", "termination", "signal", "untrusted"}
  /\ report = "none" <=> proc /= "reported"
  /\ calls \in 0 .. MaxCalls
  /\ ended \in {"none", "returned", "threw", "crashed", "exited", "damaged"}

\* "control restored to the crashing thread" (Guard.cpp:19-20) and to main():
\* a call that has returned leaves no handler, interception, sandbox, context
\* or error behind for the next one, whatever user code and its threads did.  An
\* attempt to exit it leaves only if a thread of its own is still at it, which
\* wrote g_attempted after main() had reset it (Algexit.cpp:14, 68).
CallRestores ==
  At(Main, "idle") =>
    /\ ~recovery /\ ~g_intercept /\ ~g_sandboxed /\ ~err_var
    /\ context = {} /\ pc[Worker] = "none"
    /\ g_attempted => \E h \in Helper : pc[h] \in {"abort", "handler", "raised"}

\* The checks against a second sandbox (Algalloc.cpp:309) and a second
\* interceptor (Algexit.cpp:51) never end the process: each prepare() and
\* each interception finds the previous one over.
NeverNested ==
  /\ \/ At(Worker, "prepare") \/ At(Main, "err") \/ At(Main, "clear") => ~g_sandboxed
  /\ At(Main, "intercept") => ~g_intercept

\* A guarded call keeps the promise of GuardSpec: the verdict is how the code
\* really ended, and the process dies only by a thread that escaped.
Abstract == INSTANCE GuardSpec
  WITH status <- IF proc = "reported" THEN "reported"
                 ELSE IF proc /= "running" THEN "dead"
                 ELSE IF pc[Main] = "idle" THEN "idle" ELSE "calling",
       ending <- ended

ImplementsGuardSpec == Abstract!Spec

\* A call comes to an end: main() is never left waiting for a worker that
\* crashed, exited or returned ("crashes ... can be detected and control
\* restored", Guard.cpp:18-19).
CallCompletes == pc[Main] /= "idle" ~> pc[Main] = "idle" \/ proc /= "running"

\* "the enclosing application will terminate soon" (Guard.cpp:150-151): a
\* thread that crashes outside a context ends the process.
StrayFaultEnds == escaped ~> proc /= "running"

================================================================================
