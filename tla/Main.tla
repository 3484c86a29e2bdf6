---------------------------------- MODULE Main ----------------------------------
(***************************************************************************)
(* main(): a run of ALGatorC from its command line to its end, and the     *)
(* runs that follow it over the same <io_filename_root>.  It composes      *)
(* Configuration, what compileAndLoad() can end in (Compilation says how), *)
(* and Execution, whose actions are those of this module while execute()   *)
(* runs.  Between runs only files stay: the output and the status file.    *)
(***************************************************************************)
EXTENDS Execution, Configuration

CONSTANTS
  CommandLines,  \* the command lines the program may be started with
  Surroundings,  \* the values of ALGATOR_ROOT and the files there may be
  MaxRuns        \* bound: the number of runs

\* Command lines are finite and their fourth word is a Number; None is neither a
\* command line nor a configuration one can mean.
ASSUME MainAssumption ==
  /\ MaxRuns \in Nat \ {0}
  /\ 0 .. IntMax \subseteq Times
  /\ None \notin CommandLines
  /\ \A line \in CommandLines :
       /\ Len(line) \in Nat
       /\ Len(line) >= 4 => line[4] \in [minus : BOOLEAN, digits : Nat \union {None}]
  /\ \A line \in CommandLines, place \in Surroundings :
       Usable(line, place.root, place.files) => Meant(line, place.root) /= None

VARIABLES
  stage,      \* how far main() is, and of which library
  library,
  argv,       \* the command line main() was called with, and ALGATOR_ROOT and
  around,     \* the files there are, once they are parsed and while they matter
  run,        \* the number of this run
  left,       \* the two files as the runs before this one left them
  disturbed   \* ghost: an earlier run was Disturbed, see below

mainvars == <<stage, library, argv, around, run, left, disturbed>>
allvars == <<vars, mainvars>>

\* The runs the output and the status file are from (0: none, or truncated),
\* and whether the status is an OK.
NoFiles == [output |-> 0, status |-> 0, ok |-> FALSE]

MainInit ==
  /\ stage = "parse" /\ library = "project"
  /\ argv = None /\ around = None
  /\ run = 1 /\ left = NoFiles /\ disturbed = FALSE
  /\ times = 0 /\ each = FALSE /\ status_open \in BOOLEAN
  /\ pc = "main" /\ i = 0 /\ phase = "PREPARATION"
  /\ project = <<{}>> /\ algorithm = <<{}>>
  /\ buffer = FALSE
  /\ input = NULL /\ iter_input = NULL /\ output = NULL /\ serialized = NULL
  /\ dirty = {} /\ recorded = 0
  /\ output_file = Stale /\ status_file = Status("stale", phase, 0)
  /\ proc = "running"

--------------------------------------------------------------------------------
(* main(), until it calls execute(). *)

In(s) == proc = "running" /\ stage = s

\* What Execution calls the memory of a run, which the stages before it leave
\* alone.
memory == <<project, algorithm, buffer, pointers, dirty, recorded, i>>

\* A lone --help is answered before anything is parsed.
AsksHelp(line) == line \in {<<"--help">>, <<"-h">>}

PrintHelp ==
  /\ In("parse")
  /\ \E line \in CommandLines : AsksHelp(line)
  /\ proc' = "helped"
  /\ UNCHANGED <<config, pc, phase, memory, files, mainvars>>

\* Configuration::parse() of whatever the program was started with.
ParseArguments ==
  /\ In("parse")
  /\ argv' \in CommandLines /\ around' \in Surroundings
  /\ LET c == Parse(argv', around'.root, around'.files)
     IN  /\ c /= None
         /\ times' = c.times /\ each' = c.each
  /\ stage' = "compiler"
  /\ UNCHANGED <<status_open, pc, phase, memory, files, proc, library, run, left, disturbed>>

\* parse() ends in error(), which finds no configuration and so no status file.
ParseFails ==
  /\ In("parse")
  /\ argv' \in CommandLines /\ around' \in Surroundings
  /\ ~AsksHelp(argv') /\ Parse(argv', around'.root, around'.files) = None
  /\ proc' = "failed"
  /\ UNCHANGED <<config, pc, phase, memory, files, stage, library, run, left, disturbed>>

\* Compiler() finds clang, and compileAndLoad() begins with setPhase().
MakeCompiler ==
  /\ In("compiler")
  /\ stage' = "compile" /\ phase' = "COMPILATION"
  /\ argv' = None /\ around' = None
  /\ UNCHANGED <<config, pc, memory, files, proc, library, run, left, disturbed>>

\* compileAndLoad() sets the phase to Setup when the library is there (mutant:
\* it does not).
StillCompiling == phase
PhaseCompiled == "SETUP"

Compile ==
  /\ \/ In("compile") /\ stage' = "load"
     \/ In("recompile") /\ stage' = "reload"
  /\ phase' = PhaseCompiled
  /\ UNCHANGED <<config, pc, memory, files, proc, library, argv, around, run, left, disturbed>>

\* The library was not compiled now and does not load: it is, and loaded again,
\* before the phase is set to Setup once more.
CompileAgain ==
  /\ In("load")
  /\ stage' = "recompile" /\ phase' = "COMPILATION"
  /\ UNCHANGED <<config, pc, memory, files, proc, library, argv, around, run, left, disturbed>>

\* The project's library is loaded; next is the algorithm's.
LoadProject ==
  /\ In("load") \/ In("reload")
  /\ library = "project" /\ library' = "algorithm"
  /\ stage' = "compile" /\ phase' = "COMPILATION"
  /\ UNCHANGED <<config, pc, memory, files, proc, argv, around, run, left, disturbed>>

\* Both are, and main() calls execute().
LoadAlgorithm ==
  /\ In("load") \/ In("reload")
  /\ library = "algorithm"
  /\ stage' = "execute" /\ pc' = "read"
  /\ UNCHANGED <<config, phase, memory, files, proc, library, argv, around, run, left, disturbed>>

\* There is no clang, or a library cannot be compiled or loaded.
LibraryFails ==
  /\ proc = "running" /\ stage \notin {"parse", "execute"}
  /\ status_file' = ErrorStatus
  /\ proc' = "failed"
  /\ UNCHANGED <<config, pc, phase, memory, output_file, mainvars>>

\* The steps of execute().
ExecuteStep == Next /\ UNCHANGED mainvars

--------------------------------------------------------------------------------
(* What ends a run, and the next one. *)

\* A signal from outside, at any point.
KilledOutside ==
  /\ proc = "running"
  /\ proc' = "killed"
  /\ UNCHANGED <<config, pc, phase, memory, files, mainvars>>

Over == proc /= "running"

\* The two files now.
FilesNow ==
  [ output |-> IF output_file = Stale THEN left.output
               ELSE IF output_file = Empty THEN 0 ELSE run,
    status |-> IF status_file.verdict = "stale" THEN left.status ELSE run,
    ok |-> IF status_file.verdict = "stale" THEN left.ok ELSE status_file.verdict = "OK" ]

\* A run that opened its output file and then was killed, or could not open its
\* status file, or had been asked for no call, which ends in std::terminate.
Disturbed == output_file /= Stale /\ (proc = "killed" \/ ~status_open \/ times = 0)

NextRun ==
  /\ Over /\ run < MaxRuns
  /\ run' = run + 1
  /\ left' = FilesNow /\ disturbed' = (disturbed \/ Disturbed)
  /\ stage' = "parse" /\ library' = "project"
  /\ argv' = None /\ around' = None
  /\ times' = 0 /\ each' = FALSE /\ status_open' \in BOOLEAN
  /\ pc' = "main" /\ i' = 0 /\ phase' = "PREPARATION"
  /\ project' = <<{}>> /\ algorithm' = <<{}>>
  /\ buffer' = FALSE
  /\ input' = NULL /\ iter_input' = NULL /\ output' = NULL /\ serialized' = NULL
  /\ dirty' = {} /\ recorded' = 0
  /\ output_file' = Stale /\ status_file' = Status("stale", phase', 0)
  /\ proc' = "running"

RunStep ==
  \/ PrintHelp \/ ParseArguments \/ ParseFails \/ MakeCompiler
  \/ Compile \/ CompileAgain \/ LoadProject \/ LoadAlgorithm \/ LibraryFails
  \/ ExecuteStep

MainNext == RunStep \/ KilledOutside \/ NextRun

MainSpec == MainInit /\ [][MainNext]_allvars

\* The system runs the process; that a guarded call ends is what Guard shows.
FairMainSpec == MainSpec /\ WF_allvars(RunStep)

--------------------------------------------------------------------------------
MainTypeOK ==
  /\ TypeOK
  /\ stage \in {"parse", "compiler", "compile", "load", "recompile", "reload", "execute"}
  /\ library \in {"project", "algorithm"}
  /\ stage /= "execute" <=> pc = "main"
  /\ argv = None <=> stage /= "compiler" /\ (stage /= "parse" \/ proc /= "failed")
  /\ run \in 1 .. MaxRuns
  /\ left \in [output : 0 .. MaxRuns, status : 0 .. MaxRuns, ok : BOOLEAN]
  /\ disturbed \in BOOLEAN

\* Whoever ends a run, also user code that takes the process with it or an
\* error before the status file is known: an OK in the status file is about the
\* output beside it, over any sequence of runs (README.md:38-48), as long as
\* no run was Disturbed.
ResultsAgree ==
  Over /\ ~disturbed /\ ~Disturbed /\ FilesNow.ok => FilesNow.status = FilesNow.output

\* A command line that fits the usage line and names no path does what the
\* usage line says: it is accepted, and the number of calls, the two flags and
\* every path are those that are meant (Configuration.cpp:12-156).
PlainUsageObeyed ==
  /\ stage = "compiler" \/ (stage = "parse" /\ proc = "failed")
  /\ Usable(argv, around.root, around.files)
  /\ \A o \in PathOptions : Stands(argv, o) = {}
  => /\ stage = "compiler"
     /\ Parse(argv, around.root, around.files) = Meant(argv, around.root)
     /\ times = argv[4].digits /\ each = (Stands(argv, "-d") /= {})

\* The usage line: "[-dr <algator_data_root_path>] [-dl
\* <algator_data_local_path>]" (README.md:6): no usable command line is refused.
UsageAccepted ==
  stage = "parse" /\ proc = "failed" => ~Usable(argv, around.root, around.files)

\* The runs keep what RunSpec promises to the system that starts them: phases
\* that only go on, at most one report, of the phase the run is in, and an OK
\* only with the whole output written.
Promise == INSTANCE RunSpec
  WITH going <- proc = "running",
       phase <- phase,
       output <- IF output_file = Stale THEN "old"
                 ELSE IF output_file = Empty THEN "cut" ELSE "new",
       verdict <- CASE status_file.verdict = "stale" -> "none"
                    [] status_file.verdict = "ERROR" -> status_file.phase
                    [] OTHER -> status_file.verdict

ImplementsRunSpec == Promise!Spec

\* A run that gets as far as to know its configuration, and is asked for at
\* least one call, ends with a status file of its own in place of what earlier
\* runs have left (README.md:44-48), unless it cannot open one or is killed.
EveryRunReports ==
  stage /= "parse" /\ status_open /\ times > 0 ~> proc = "killed" \/ FilesNow.status = run

================================================================================
