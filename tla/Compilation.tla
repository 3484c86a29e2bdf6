------------------------------ MODULE Compilation ------------------------------
(***************************************************************************)
(* src/Compilation and main(): a run of AlgatorC validates the sources of  *)
(* a project, compiles its library if it is older than they are, loads it, *)
(* does the same for an algorithm of the project, and executes.  What runs *)
(* leave each other is on disk: the libraries with their write times, the  *)
(* generated source files and compilation.out in the project's temporary   *)
(* directory.  A run may be killed between any two steps.                  *)
(*                                                                         *)
(* One project and one language; input.cpp and output.cpp are the source   *)
(* "types", data_converter.cpp is "converter", each algorithm is one       *)
(* source.  Clang and dlopen are modelled from how the code uses them.     *)
(***************************************************************************)
EXTENDS Naturals

CONSTANTS
  Run,         \* processes, each of which runs AlgatorC again and again
  Algorithm,   \* the algorithms of the project
  NULL,        \* no file, no library
  MaxTime,     \* bound: the clock of the file system stops here
  MaxEdits,    \* bound: the number of edits of source files
  Environment  \* what may happen while a run is going on:
               \* "alongside" another run, "meanwhile" an edit of a source

Kind == {"project", "algorithm"}
Library == {"project"} \union Algorithm
Source == {"types", "converter"} \union Algorithm
Faults == {"none", "interface", "undefined", "code"}

\* The generated file and the role of a library.
KindOf(l) == IF l = "project" THEN "project" ELSE "algorithm"

\* inputDependencies(), which are also the files buildInputFile() includes.
Dependencies(l) == {"types"} \union (IF l = "project" THEN {"converter"} ELSE {l})

\* The files validateSourceFiles() parses.
Validated(l) == IF l = "project" THEN {"types", "converter"} ELSE {l}

\* What clang makes of the sources, and a library file with it; without it the
\* file is one the linker has only created.
Build ==
  UNION {[of : {l}, version : [Dependencies(l) -> 0 .. MaxEdits], complete : BOOLEAN] : l \in Library}
File == [build : Build \union {NULL}, time : 0 .. MaxTime]

ASSUME CompilationAssumption ==
  /\ MaxTime \in Nat /\ MaxEdits \in Nat
  /\ Environment \subseteq {"alongside", "meanwhile"}
  /\ "project" \notin Algorithm /\ {"types", "converter"} \cap Algorithm = {}
  /\ NULL \notin Library \union Run \union Build \union File

VARIABLES
  now,        \* the clock write times are taken from
  edits,      \* edits made so far
  source,     \* source files: version, write time and what is wrong with them
  binary,     \* library files: NULL or what they were built from and when
  generated,  \* the generated source file of each kind of library: NULL or whose
  log,        \* compilation.out: NULL or the run whose clang wrote it
  pc,         \* where each run is in main(), "idle" outside
  phase,      \* Error::phase_
  algorithm,  \* the algorithm a run was started for
  force,      \* Configuration::forceRecompile()
  library,    \* the library compileAndLoad() is working on
  recompile,  \* its local variable
  retried,    \* it is past its second compile()
  build,      \* what clang is linking
  loaded,     \* the libraries loaded, of each kind
  verdict,    \* how the latest run of the process ended
  since       \* ghost: the versions of the sources when the run began

disk == <<source, binary, generated, log>>
clock == <<now, edits>>
command == <<algorithm, force, since>>
vars == <<clock, disk, pc, phase, command, library, recompile, retried, build,
          loaded, verdict>>

Faulty(F, faults) == \E f \in F : source[f].fault \in faults

Init ==
  /\ now = 0 /\ edits = 0
  /\ source = [f \in Source |-> [version |-> 0, time |-> 0, fault |-> "none"]]
  /\ binary = [l \in Library |-> NULL]
  /\ generated = [k \in Kind |-> NULL] /\ log = NULL
  /\ pc = [r \in Run |-> "idle"] /\ phase = [r \in Run |-> "PREPARATION"]
  /\ algorithm = [r \in Run |-> NULL] /\ force = [r \in Run |-> FALSE]
  /\ library = [r \in Run |-> "project"]
  /\ recompile = [r \in Run |-> FALSE] /\ retried = [r \in Run |-> FALSE]
  /\ build = [r \in Run |-> NULL]
  /\ loaded = [r \in Run |-> [k \in Kind |-> NULL]]
  /\ verdict = [r \in Run |-> "none"]
  /\ since = [r \in Run |-> [f \in Source |-> 0]]

--------------------------------------------------------------------------------
(* The environment. *)

Quiet == \A r \in Run : pc[r] = "idle"

Tick ==
  /\ now < MaxTime
  /\ now' = now + 1
  /\ UNCHANGED <<edits, disk, pc, phase, command, library, recompile, retried, build,
                 loaded, verdict>>

\* Someone saves a source file, in which what AlgatorC calls may be missing
\* ("interface"), or be declared and not defined ("undefined"), or which may
\* not compile ("code").
Edit(f, fault) ==
  /\ edits < MaxEdits /\ (Quiet \/ "meanwhile" \in Environment)
  /\ edits' = edits + 1
  /\ source' = [source EXCEPT ![f] =
                  [version |-> @.version + 1, time |-> now, fault |-> fault]]
  /\ UNCHANGED <<now, binary, generated, log, pc, phase, command, library, recompile,
                 retried, build, loaded, verdict>>

--------------------------------------------------------------------------------
(* The life of a run. *)

At(r, l) == pc[r] = l

Goto(r, l) == pc' = [pc EXCEPT ![r] = l]
SetPhase(r, p) == phase' = [phase EXCEPT ![r] = p]

Begin(r, a, f) ==
  /\ At(r, "idle") /\ (Quiet \/ "alongside" \in Environment)
  /\ Goto(r, "validate") /\ SetPhase(r, "COMPILATION")
  /\ algorithm' = [algorithm EXCEPT ![r] = a] /\ force' = [force EXCEPT ![r] = f]
  /\ since' = [since EXCEPT ![r] = [s \in Source |-> source[s].version]]
  /\ verdict' = [verdict EXCEPT ![r] = "none"]
  /\ UNCHANGED <<clock, disk, library, recompile, retried, build, loaded>>

\* The process is gone and with it all it had in memory.
Ends(r, how) ==
  /\ Goto(r, "idle")
  /\ verdict' = [verdict EXCEPT ![r] = how]
  /\ algorithm' = [algorithm EXCEPT ![r] = NULL] /\ force' = [force EXCEPT ![r] = FALSE]
  /\ library' = [library EXCEPT ![r] = "project"]
  /\ recompile' = [recompile EXCEPT ![r] = FALSE]
  /\ retried' = [retried EXCEPT ![r] = FALSE]
  /\ build' = [build EXCEPT ![r] = NULL]
  /\ loaded' = [loaded EXCEPT ![r] = [k \in Kind |-> NULL]]
  /\ since' = [since EXCEPT ![r] = [f \in Source |-> 0]]
  /\ UNCHANGED clock

\* error(type) reports the phase and exits.
Fails(r, type) == Ends(r, type) /\ UNCHANGED phase

\* The signal, or the ALGator system, that ends a process from outside; the
\* files stay as they are.  The clang or linker it has started is taken to end
\* with it: one that goes on could write the library during a later run.
Kill(r) ==
  /\ ~At(r, "idle")
  /\ Ends(r, "killed") /\ SetPhase(r, "PREPARATION")
  /\ UNCHANGED disk

\* main() reaches execute(); what it does is the subject of Execution.
Finish(r) ==
  /\ At(r, "execute")
  /\ Ends(r, "done") /\ SetPhase(r, "PREPARATION")
  /\ UNCHANGED disk

--------------------------------------------------------------------------------
(* compileAndLoad(). *)

\* validateSourceFiles(), in the constructor of the compilation input.
Validate(r) ==
  /\ At(r, "validate")
  /\ IF Faulty(Validated(library[r]), {"interface"})
     THEN Fails(r, "USER") /\ UNCHANGED disk
     ELSE /\ Goto(r, "check")
          /\ UNCHANGED <<clock, disk, phase, command, library, recompile, retried, build,
                         loaded, verdict>>

\* compilationNeeded(): a source is as young as the library, or younger
\* (mutant: younger).
NeededIfYounger(l) ==
  binary[l] = NULL \/ \E f \in Dependencies(l) : source[f].time > binary[l].time
CompilationNeeded(l) ==
  binary[l] = NULL \/ \E f \in Dependencies(l) : source[f].time >= binary[l].time

Check(r) ==
  /\ At(r, "check")
  /\ recompile' = [recompile EXCEPT ![r] = force[r] \/ CompilationNeeded(library[r])]
  /\ IF recompile'[r] THEN Goto(r, "write") /\ UNCHANGED phase
                      ELSE Goto(r, "load") /\ SetPhase(r, "SETUP")
  /\ UNCHANGED <<clock, disk, command, library, retried, build, loaded, verdict>>

\* writeInputFile() truncates what it finds (mutant: it keeps it).
WrittenIfAbsent(l) == IF generated[KindOf(l)] = NULL THEN l ELSE generated[KindOf(l)]
Written(l) == l

WriteInputFile(r) ==
  /\ At(r, "write")
  /\ generated' = [generated EXCEPT ![KindOf(library[r])] = Written(library[r])]
  /\ Goto(r, "clang")
  /\ UNCHANGED <<clock, source, binary, log, phase, command, library, recompile, retried,
                 build, loaded, verdict>>

\* Clang, its output redirected to compilation.out, reads the generated file
\* and the sources this includes.  A shared library may lack definitions.
ClangReads(r) ==
  LET g == generated[KindOf(library[r])]
      accepted == g /= NULL /\ ~Faulty(Dependencies(g), {"interface", "code"})
  IN /\ At(r, "clang")
     /\ log' = r
     /\ build' = [build EXCEPT ![r] =
                    IF accepted
                    THEN [of |-> g, version |-> [f \in Dependencies(g) |-> source[f].version],
                          complete |-> ~Faulty(Validated(g), {"undefined"})]
                    ELSE NULL]
     /\ Goto(r, IF accepted THEN "link" ELSE "report")
     /\ UNCHANGED <<clock, source, binary, generated, phase, command, library, recompile,
                    retried, loaded, verdict>>

\* The linker replaces the library by an empty file, ...
LinkBegins(r) ==
  /\ At(r, "link")
  /\ binary' = [binary EXCEPT ![library[r]] = [build |-> NULL, time |-> now]]
  /\ Goto(r, "linking")
  /\ UNCHANGED <<clock, source, generated, log, phase, command, library, recompile, retried,
                 build, loaded, verdict>>

\* ... writes it, and clang ends; compile() removes compilation.out.
LinkEnds(r) ==
  /\ At(r, "linking")
  /\ binary' = [binary EXCEPT ![library[r]] = [build |-> build[r], time |-> now]]
  /\ log' = NULL
  /\ build' = [build EXCEPT ![r] = NULL]
  /\ Goto(r, "clean")
  /\ UNCHANGED <<clock, source, generated, phase, command, library, recompile, retried,
                 loaded, verdict>>

\* Clang failed: compile() reports what it wrote, if that is there.
ReportCompilation(r) ==
  /\ At(r, "report")
  /\ log' = NULL
  /\ Fails(r, IF log = NULL THEN "SYSTEM" ELSE "USER")
  /\ UNCHANGED <<source, binary, generated>>

\* clean(); the phase of a second compilation outlasts it.
Clean(r) ==
  /\ At(r, "clean")
  /\ generated' = [generated EXCEPT ![KindOf(library[r])] = NULL]
  /\ Goto(r, "load")
  /\ phase' = [phase EXCEPT ![r] = IF retried[r] THEN @ ELSE "SETUP"]
  /\ UNCHANGED <<clock, source, binary, log, command, library, recompile, retried, build,
                 loaded, verdict>>

\* A library that does not load is compiled once more, unless it just was
\* (mutants: it never is; it is again and again).
MayRetryNever(r) == FALSE
MayRetryAlways(r) == TRUE
MayRetry(r) == ~recompile[r] /\ ~retried[r]

\* dlopen(RTLD_NOW) of a library that is there, whole and complete.
Loads(r) ==
  /\ At(r, "load")
  /\ binary[library[r]] /= NULL /\ binary[library[r]].build /= NULL
  /\ binary[library[r]].build.complete

\* tryLoadFrom() fails: the file is gone, or dlopen() refuses it.
LoadFails(r) ==
  /\ At(r, "load") /\ ~Loads(r)
  /\ IF binary[library[r]] /= NULL /\ MayRetry(r)
     THEN /\ retried' = [retried EXCEPT ![r] = TRUE]
          /\ Goto(r, "write") /\ SetPhase(r, "COMPILATION")
          /\ UNCHANGED <<clock, disk, command, library, recompile, build, loaded, verdict>>
     ELSE /\ Ends(r, "SYSTEM")
          /\ phase' = [phase EXCEPT ![r] = IF binary[library[r]] = NULL THEN @ ELSE "SETUP"]
          /\ UNCHANGED disk

\* What is next after a library is loaded: compileAndLoad() for the algorithm,
\* which begins with setPhase(Compilation) (mutant: it does not), or execute().
PhaseLeft(l) == IF l = "project" THEN "SETUP" ELSE "EXECUTION"
PhaseAfter(l) == IF l = "project" THEN "COMPILATION" ELSE "EXECUTION"

Load(r) ==
  /\ Loads(r)
  /\ loaded' = [loaded EXCEPT ![r][KindOf(library[r])] = binary[library[r]].build]
  /\ library' = [library EXCEPT ![r] = algorithm[r]]
  /\ recompile' = [recompile EXCEPT ![r] = FALSE]
  /\ retried' = [retried EXCEPT ![r] = FALSE]
  /\ Goto(r, IF library[r] = "project" THEN "validate" ELSE "execute")
  /\ SetPhase(r, PhaseAfter(library[r]))
  /\ UNCHANGED <<clock, disk, command, build, verdict>>

Step(r) ==
  \/ Validate(r) \/ Check(r) \/ WriteInputFile(r) \/ ClangReads(r) \/ LinkBegins(r)
  \/ LinkEnds(r) \/ ReportCompilation(r) \/ Clean(r) \/ LoadFails(r) \/ Load(r) \/ Finish(r)

Next ==
  \/ Tick
  \/ \E f \in Source, fault \in Faults : Edit(f, fault)
  \/ \E r \in Run :
       \/ \E a \in Algorithm, f \in BOOLEAN : Begin(r, a, f)
       \/ Kill(r)
       \/ Step(r)

Spec == Init /\ [][Next]_vars

\* The operating system runs every process.
FairSpec == Spec /\ \A r \in Run : WF_vars(Step(r))

--------------------------------------------------------------------------------
TypeOK ==
  /\ now \in 0 .. MaxTime /\ edits \in 0 .. MaxEdits
  /\ source \in [Source -> [version : 0 .. MaxEdits, time : 0 .. MaxTime,
                            fault : Faults]]
  /\ \A l \in Library : binary[l] \in File \union {NULL}
  /\ generated \in [Kind -> Library \union {NULL}]
  /\ log \in Run \union {NULL}
  /\ \A r \in Run :
       /\ pc[r] \in {"idle", "validate", "check", "write", "clang", "link", "linking",
                     "report", "clean", "load", "execute"}
       /\ phase[r] \in CASE pc[r] = "idle" -> {"PREPARATION", "COMPILATION", "SETUP"}
                         [] pc[r] = "load" -> {"COMPILATION", "SETUP"}
                         [] pc[r] = "execute" -> {"EXECUTION"}
                         [] OTHER -> {"COMPILATION"}
       /\ build[r] \in Build \union {NULL}
       /\ loaded[r] \in [Kind -> Build \union {NULL}]
       /\ algorithm[r] \in Algorithm \union {NULL} /\ library[r] \in Library
  /\ force \in [Run -> BOOLEAN]
  /\ recompile \in [Run -> BOOLEAN] /\ retried \in [Run -> BOOLEAN]
  /\ verdict \in [Run -> {"none", "done", "killed", "USER", "SYSTEM"}]
  /\ since \in [Run -> [Source -> 0 .. MaxEdits]]

\* The algorithm a run executes is the one it was asked for ("Name of
\* algorithm to execute", main.cpp:42), whatever earlier or killed runs left in
\* the temporary directory all algorithms of the project share.
RightLibrary ==
  \A r \in Run : At(r, "execute") =>
    loaded[r]["project"].of = "project" /\ loaded[r]["algorithm"].of = algorithm[r]

\* A run executes the sources as they were when it began, or newer: without -c
\* a library is recompiled whenever a file it is built from has changed
\* (README.md:13; Compilation.hpp:15, CompilationInput.cpp:28-44).
LibrariesCurrent ==
  \A r \in Run, k \in Kind : At(r, "execute") =>
    \A f \in DOMAIN loaded[r][k].version : loaded[r][k].version[f] >= since[r][f]

\* A run that is alone on its project fails only for what is wrong with the
\* sources as they are now, and so gets over whatever earlier or killed runs
\* left: a half written library, or one that was incomplete, is compiled again
\* (Compilation.hpp:27-38).  It says so (USER, COMPILATION), but for functions
\* that are declared and not defined, which no one but dlopen() misses.
FailureIsUsers ==
  [][\A r \in Run : verdict'[r] /= verdict[r] /\ verdict'[r] \in {"USER", "SYSTEM"} =>
       \/ /\ verdict'[r] = "USER" /\ phase'[r] = "COMPILATION"
          /\ Faulty(Dependencies(library[r]), {"interface", "code"})
       \/ /\ verdict'[r] = "SYSTEM" /\ phase'[r] = "SETUP"
          /\ Faulty(Validated(library[r]), {"undefined"})]_vars

\* Every run ends, also when others keep replacing the library it tries to
\* load: it compiles at most twice.
RunEnds == \A r \in Run : ~At(r, "idle") ~> At(r, "idle")

================================================================================
