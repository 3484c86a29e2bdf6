------------------------------- MODULE Execution -------------------------------
(***************************************************************************)
(* src/Execution: execute() drives a run of an algorithm on one input.     *)
(* The project library deserializes the input, copies it for each call     *)
(* and serializes the output; the algorithm library is called `times`      *)
(* times; each keeps what it allocates in a stack of memory lifetimes      *)
(* (one MemorySandbox each, see Algalloc), and every call into a library   *)
(* goes through the guard (see Guard): it returns, or the process reports  *)
(* and exits, or, rarely, the process is killed.                           *)
(*                                                                         *)
(* An object stands for all the memory one call allocated: <<what, n>> is  *)
(* what the call number n (0 before the loop, n for iteration i = n - 1)   *)
(* produced.  Objects are never reused, so a use after free shows.         *)
(***************************************************************************)
EXTENDS Naturals, Sequences

CONSTANTS
  Times,  \* the possible values of the argument times_to_execute
  NULL    \* nullptr

Object == {"input", "copy", "output", "text"} \X Nat

ASSUME ExecutionAssumption == Times \subseteq Nat /\ NULL \notin Object

VARIABLES
  times, each,       \* times_to_execute and deserialize_each_execute
  status_open,       \* whether the status file can be opened for writing
  pc, i,             \* the statement of execute() ("main": none of it) and
                     \* its loop variable
  phase,             \* Error::phase_
  project,           \* the lifetimes of the project library, top last
  algorithm,         \* the lifetimes of the algorithm library
  buffer,            \* the content of the input file is allocated
  input, iter_input, output, serialized,
  dirty,             \* ghost: inputs an execute() call may have changed
  recorded,          \* times.size()
  output_file,       \* Stale (what was there before), Empty, or an object
  status_file,       \* a Status
  proc               \* "running", "done", "failed", "aborted", "killed" ("helped":
                     \* main() has only printed its help page)

config == <<times, each, status_open>>
pointers == <<input, iter_input, output, serialized>>
files == <<output_file, status_file>>
vars == <<config, pc, i, phase, project, algorithm, buffer, pointers, dirty,
          recorded, files, proc>>

Stale == <<"stale", 0>>
Empty == <<"empty", 0>>

Phases == {"PREPARATION", "COMPILATION", "SETUP", "EXECUTION", "TEARDOWN"}

\* The status file: its verdict ("stale" is what was there before the run),
\* the phase of an ERROR, and the number of times listed below an OK.
Status(v, p, n) == [verdict |-> v, phase |-> p, calls |-> n]

Init ==
  /\ times \in Times /\ each \in BOOLEAN /\ status_open \in BOOLEAN
  /\ pc = "read" /\ i = 0 /\ phase = "SETUP"
  /\ project = <<{}>> /\ algorithm = <<{}>>
  /\ buffer = FALSE
  /\ input = NULL /\ iter_input = NULL /\ output = NULL /\ serialized = NULL
  /\ dirty = {} /\ recorded = 0
  /\ output_file = Stale /\ status_file = Status("stale", phase, 0)
  /\ proc = "running"

--------------------------------------------------------------------------------
(* DynamicLibrary: the stack of sandboxes. *)

PushLifetime(l) == Append(l, {})

\* Everything of the top lifetime is freed with it (mutants: it is freed and
\* not popped; it is popped and its objects stay with the lifetime below).
PopFreeingOnly(l) == [l EXCEPT ![Len(l)] = {}]
PopKeeping(l) == [SubSeq(l, 1, Len(l) - 1) EXCEPT ![Len(l) - 1] = @ \union l[Len(l)]]
PopLifetime(l) == SubSeq(l, 1, Len(l) - 1)

\* Only the default lifetime is left, and nothing in it (mutant: the default
\* one is forgotten).
FreeAllPushed(l) == <<l[1]>>
FreeAll(l) == <<{}>>

\* A call allocates in the sandbox on top of the stack.
Allocated(l, o) == [l EXCEPT ![Len(l)] = @ \union {o}]

Held(l) == UNION {l[k] : k \in 1 .. Len(l)}
Live == Held(project) \union Held(algorithm)

--------------------------------------------------------------------------------
At(l) == proc = "running" /\ pc = l

IsLast == i + 1 = times

\* The call is given the input and no copy of it (mutant: the call before the
\* last one is, too).
InputItselfEarly == i + 2 >= times
InputItself == IsLast

\* The statements that call into a library, under guard().
CallsLibrary ==
  \/ At("deserialize") \/ At("execute") \/ At("serialize")
  \/ At("prepare") /\ (each \/ ~InputItself)

\* Those that run under guardInternal().
CallsInternal == At("write_body") \/ At("delete")

\* Those that open, read or write a file.
UsesFile == At("read") \/ At("write") \/ At("write_body") \/ At("status")

\* What error() leaves in the status file before it exits the process (mutant:
\* nothing).
ErrorStatusLost == status_file
ErrorStatus == IF status_open THEN Status("ERROR", phase, 0) ELSE status_file

\* A guarded call fails, or a file operation does: error() ends the process.
Fail ==
  /\ CallsLibrary \/ CallsInternal \/ UsesFile
  /\ status_file' = ErrorStatus
  /\ proc' = "failed"
  /\ UNCHANGED <<config, pc, i, phase, project, algorithm, buffer, pointers, dirty,
                 recorded, output_file>>

\* The guard's other end: user code takes the process down with it.
Killed ==
  /\ CallsLibrary
  /\ proc' = "killed"
  /\ UNCHANGED <<config, pc, i, phase, project, algorithm, buffer, pointers, dirty,
                 recorded, files>>

--------------------------------------------------------------------------------
(* execute(), one action per statement that may fail or free. *)

\* readBinaryFile(inputFilePath).
ReadInput ==
  /\ At("read")
  /\ buffer' = TRUE
  /\ pc' = IF each THEN "start" ELSE "deserialize"
  /\ UNCHANGED <<config, i, phase, project, algorithm, pointers, dirty, recorded, files, proc>>

\* input = project.deserializeInput(buffer), once.
DeserializeOnce ==
  /\ At("deserialize")
  /\ input' = <<"input", 0>>
  /\ project' = Allocated(project, input')
  /\ pc' = "start"
  /\ UNCHANGED <<config, i, phase, algorithm, buffer, iter_input, output, serialized, dirty,
                 recorded, files, proc>>

\* setPhase(Execution) (mutant: it is left out).
StartLoopInSetup ==
  /\ At("start")
  /\ pc' = "loop"
  /\ UNCHANGED <<config, i, phase, project, algorithm, buffer, pointers, dirty, recorded, files, proc>>
StartLoop ==
  /\ At("start")
  /\ phase' = "EXECUTION"
  /\ pc' = "loop"
  /\ UNCHANGED <<config, i, project, algorithm, buffer, pointers, dirty, recorded, files, proc>>

\* An iteration starts with project.pushMemoryLifetime().
Iterate ==
  /\ At("loop") /\ i < times
  /\ project' = PushLifetime(project)
  /\ pc' = "prepare"
  /\ UNCHANGED <<config, i, phase, algorithm, buffer, pointers, dirty, recorded, files, proc>>

\* The input of this call: deserialized again, the input itself for the last
\* call, or a copy of it; but for the input itself it is allocated in the new lifetime.
PrepareInput ==
  /\ At("prepare")
  /\ \/ each /\ iter_input' = <<"input", i + 1>>
     \/ ~each /\ InputItself /\ iter_input' = input
     \/ ~each /\ ~InputItself /\ iter_input' = <<"copy", i + 1>>
  /\ project' = IF iter_input' = input THEN project ELSE Allocated(project, iter_input')
  /\ pc' = "execute"
  /\ UNCHANGED <<config, i, phase, algorithm, buffer, input, output, serialized, dirty,
                 recorded, files, proc>>

\* output = algorithm.execute(iter_input), timed; it may change its argument.
Execute ==
  /\ At("execute")
  /\ output' = <<"output", i + 1>>
  /\ algorithm' = Allocated(algorithm, output')
  /\ dirty' = dirty \union {iter_input}
  /\ recorded' = recorded + 1
  /\ pc' = "after"
  /\ UNCHANGED <<config, i, phase, project, buffer, input, iter_input, serialized, files, proc>>

\* Unless it was the last call, what it and its input used is freed (mutant:
\* after the last call too).
KeepsLast == FALSE
Keeps == IsLast

EndIteration ==
  /\ At("after")
  /\ algorithm' = IF Keeps THEN algorithm ELSE FreeAll(algorithm)
  /\ project' = IF Keeps THEN project ELSE PopLifetime(project)
  /\ i' = i + 1
  /\ pc' = "loop"
  /\ UNCHANGED <<config, phase, buffer, pointers, dirty, recorded, files, proc>>

EndLoop ==
  /\ At("loop") /\ i >= times
  /\ phase' = "TEARDOWN"
  /\ pc' = "serialize"
  /\ UNCHANGED <<config, i, project, algorithm, buffer, pointers, dirty, recorded, files, proc>>

\* project.serializeOutput(output).
Serialize ==
  /\ At("serialize")
  /\ serialized' = <<"text", i>>
  /\ project' = Allocated(project, serialized')
  /\ pc' = "write"
  /\ UNCHANGED <<config, i, phase, algorithm, buffer, input, iter_input, output, dirty,
                 recorded, files, proc>>

\* writeBinaryFile opens the file, which truncates it, ...
OpenOutput ==
  /\ At("write")
  /\ output_file' = Empty
  /\ pc' = "write_body"
  /\ UNCHANGED <<config, i, phase, project, algorithm, buffer, pointers, dirty, recorded,
                 status_file, proc>>

\* ... and writes the serialized output under guardInternal().
WriteOutput ==
  /\ At("write_body")
  /\ output_file' = serialized
  /\ pc' = "free"
  /\ UNCHANGED <<config, i, phase, project, algorithm, buffer, pointers, dirty, recorded,
                 status_file, proc>>

\* algorithm.freeAll(), project.popMemoryLifetime(), project.freeAll().
FreeMemory ==
  /\ At("free") /\ Len(project) /= 1
  /\ algorithm' = FreeAll(algorithm)
  /\ project' = FreeAll(PopLifetime(project))
  /\ pc' = "delete"
  /\ UNCHANGED <<config, i, phase, buffer, pointers, dirty, recorded, files, proc>>

\* popMemoryLifetime() throws when only the default lifetime is left, and no
\* one catches it: std::terminate.
PopThrows ==
  /\ At("free") /\ Len(project) = 1
  /\ algorithm' = FreeAll(algorithm)
  /\ proc' = "aborted"
  /\ UNCHANGED <<config, pc, i, phase, project, buffer, pointers, dirty, recorded, files>>

\* delete[] buffer, under guardInternal().
DeleteBuffer ==
  /\ At("delete")
  /\ buffer' = FALSE
  /\ pc' = "status"
  /\ UNCHANGED <<config, i, phase, project, algorithm, pointers, dirty, recorded, files, proc>>

\* writeSuccessStatusFile(times); main() returns.
WriteStatus ==
  /\ At("status") /\ status_open
  /\ status_file' = Status("OK", phase, recorded)
  /\ proc' = "done"
  /\ UNCHANGED <<config, pc, i, phase, project, algorithm, buffer, pointers, dirty, recorded,
                 output_file>>

\* The file opens but cannot be written to the end, not even by error().
StatusCutShort ==
  /\ At("status") /\ status_open
  /\ status_file' = Status("partial", phase, 0)
  /\ proc' = "failed"
  /\ UNCHANGED <<config, pc, i, phase, project, algorithm, buffer, pointers, dirty, recorded,
                 output_file>>

Next ==
  \/ ReadInput \/ DeserializeOnce \/ StartLoop \/ Iterate \/ PrepareInput \/ Execute
  \/ EndIteration \/ EndLoop \/ Serialize \/ OpenOutput \/ WriteOutput \/ FreeMemory
  \/ PopThrows \/ DeleteBuffer \/ WriteStatus \/ StatusCutShort \/ Fail \/ Killed

Spec == Init /\ [][Next]_vars

--------------------------------------------------------------------------------
TypeOK ==
  /\ times \in Times /\ each \in BOOLEAN /\ status_open \in BOOLEAN
  /\ pc \in {"main", "read", "deserialize", "start", "loop", "prepare", "execute", "after",
             "serialize", "write", "write_body", "free", "delete", "status"}
  /\ i \in 0 .. times /\ recorded \in 0 .. times
  /\ phase \in Phases
  /\ project \in Seq(SUBSET Object) /\ Len(project) \in 1 .. 2
  /\ algorithm \in Seq(SUBSET Object) /\ Len(algorithm) = 1
  /\ buffer \in BOOLEAN
  /\ {input, iter_input, output, serialized} \subseteq Object \union {NULL}
  /\ dirty \subseteq Object
  /\ output_file \in Object \union {Stale, Empty}
  /\ status_file \in [verdict : {"stale", "partial", "OK", "ERROR"}, phase : Phases,
                      calls : 0 .. times]
  /\ proc \in {"running", "done", "failed", "aborted", "killed", "helped"}

\* Whatever a call is given is still allocated: execute() frees the lifetimes
\* of an iteration after the last use of what they hold (Execution.cpp:25-56).
ArgumentsLive ==
  /\ At("deserialize") \/ (At("prepare") /\ each) => buffer
  /\ At("prepare") /\ ~each => input \in Live
  /\ At("execute") => iter_input \in Live
  /\ At("serialize") /\ times > 0 => output \in Live
  /\ At("write") \/ At("write_body") => serialized \in Live

\* Each timed call works on an input no earlier call has touched, although the
\* last one is given the original (Execution.cpp:31): the times are comparable
\* and the last output is that of a first execution.
Isolation ==
  /\ At("execute") => iter_input \notin dirty
  /\ At("prepare") /\ ~each => input \notin dirty

\* What is allocated at any time belongs to the current call, or is the input
\* itself: the memory in use does not grow with times_to_execute.
NoAccumulation ==
  At("prepare") => Live \subseteq {input}

\* A status file that says OK was written by a run that called execute() as
\* often as asked, wrote the output of its last call, and freed everything
\* ("file .output with serialized representation of last output instance",
\* README.md:39-43).
OKMeansDone ==
  proc = "done" =>
    /\ status_file.verdict = "OK" /\ status_file.calls = times
    /\ output_file = <<"text", times>> /\ output = <<"output", times>>
    /\ Live = {} /\ ~buffer

\* The phase in the status file is the one the run failed in: before execute()
\* the libraries are compiled and loaded, setup goes on until the single
\* deserialization, teardown begins after the last call.
PhaseTruthful ==
  status_file.verdict = "ERROR" =>
    CASE status_file.phase \in {"PREPARATION", "COMPILATION"} -> pc = "main"
      [] status_file.phase = "SETUP" -> recorded = 0 /\ iter_input = NULL
      [] status_file.phase = "EXECUTION" -> output_file = Stale /\ serialized = NULL
      [] status_file.phase = "TEARDOWN" -> recorded = times

================================================================================
