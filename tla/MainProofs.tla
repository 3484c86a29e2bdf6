------------------------------ MODULE MainProofs -------------------------------
(***************************************************************************)
(* Runs of the whole program, for any command lines, any surroundings and  *)
(* any number of runs.  The inductive invariant is that of execute(),      *)
(* the phase of each stage, and that the files left by earlier runs agree; *)
(* the last step of a run is where the two meet.  What parse() and the     *)
(* usage line make of a command line is compared word by word.             *)
(***************************************************************************)
EXTENDS Main, ExecutionProofs, NaturalRecursion

\* The phase belongs to the stage, and execute() runs in its own.
Stages ==
  /\ stage /= "execute" <=> pc = "main"
  /\ stage \in {"parse", "compiler"} => phase = "PREPARATION"
  /\ stage \in {"compile", "recompile"} => phase = "COMPILATION"
  /\ stage \in {"load", "reload"} => phase = "SETUP"
  /\ stage /= "execute" => status_file.calls = 0
  /\ stage = "parse" => status_file.verdict = "stale"

LeftAgree == ~disturbed /\ left.ok => left.status = left.output

MainInv == IInv /\ MainTypeOK /\ Stages /\ LeftAgree

--------------------------------------------------------------------------------
(* What parse() accepts. *)

\* A number parse() accepts fits an int, also after std::stoul has wrapped a
\* negative one.
LEMMA ParsedTypes ==
  ASSUME NEW line \in CommandLines, NEW root, NEW there,
         Parse(line, root, there) /= None
  PROVE  /\ Parse(line, root, there).times \in Times
         /\ Parse(line, root, there).each \in BOOLEAN
<1>1. /\ Len(line) >= 4 /\ TimesFit(line[4])
      /\ Parse(line, root, there).times = Stoul(line[4])
      /\ Parse(line, root, there).each = Given(line, "-d")
  BY DEF Parse
<1>2. line[4].minus \in BOOLEAN /\ line[4].digits \in Nat /\ line[4].digits <= ULongMax
  <2>1. line[4] \in [minus : BOOLEAN, digits : Nat \union {None}]
    BY <1>1, MainAssumption
  <2>2. line[4].digits /= None /\ ~(line[4].digits > ULongMax)
    BY <1>1 DEF TimesFit, StoulThrows
  <2> QED  BY <2>1, <2>2, ConfigurationAssumption
<1>3. Stoul(line[4]) \in Nat
  BY <1>2, ConfigurationAssumption DEF Stoul
<1>4. Stoul(line[4]) \in 0 .. IntMax
  BY <1>1, <1>3, ConfigurationAssumption DEF TimesFit
<1> QED  BY <1>1, <1>4, MainAssumption DEF Given

--------------------------------------------------------------------------------
(* A command line that names no path. *)

\* The recursive definition of the operands is one: an operand is the word after a
\* path option that is none itself.
LEMMA Operands ==
  ASSUME NEW words, Len(words) \in Nat
  PROVE  \A k \in Positions(words) :
           IsOperand(words)[k] =
             (k > 5 /\ words[k - 1] \in PathOptions /\ ~IsOperand(words)[k - 1])
<1> DEFINE takes(k) == words[k] \in PathOptions
<1>1. PICK f : /\ f \in [Nat -> BOOLEAN] /\ f[0] = FALSE
               /\ \A n \in Nat : f[n + 1] = (takes(n + 5) /\ ~f[n])
  <2> DEFINE step == [n \in Nat |-> [v \in BOOLEAN |-> takes(n + 5) /\ ~v]]
  <2>1. /\ step \in Steps(BOOLEAN)
        /\ \A n \in Nat, v \in BOOLEAN : step[n][v] = (takes(n + 5) /\ ~v)
    <3>1. \A n \in Nat : [v \in BOOLEAN |-> takes(n + 5) /\ ~v] \in [BOOLEAN -> BOOLEAN]
      OBVIOUS
    <3> QED  BY <3>1 DEF Steps
  <2> HIDE DEF step
  <2>2. PICK f : Recurs(f, BOOLEAN, FALSE, step)
    BY <2>1, Recursion
  <2>3. \A n \in Nat : f[n + 1] = (takes(n + 5) /\ ~f[n])
    BY <2>1, <2>2 DEF Recurs
  <2> QED  BY <2>2, <2>3 DEF Recurs
<1> DEFINE g == [k \in Positions(words) |-> f[k - 5]]
           F(h) == [k \in Positions(words) |-> k > 5 /\ takes(k - 1) /\ ~h[k - 1]]
<1>2. \A k \in Positions(words) : g[k] = (k > 5 /\ takes(k - 1) /\ ~g[k - 1])
  <2> SUFFICES ASSUME NEW k \in Positions(words)
               PROVE  f[k - 5] = (k > 5 /\ takes(k - 1) /\ ~g[k - 1])
    OBVIOUS
  <2>1. CASE k = 5
    BY <1>1, <2>1
  <2>2. CASE k /= 5
    <3>1. /\ k \in Int /\ k > 5 /\ k - 1 \in Positions(words) /\ k - 6 \in Nat
          /\ (k - 6) + 1 = k - 5 /\ (k - 6) + 5 = k - 1 /\ (k - 1) - 5 = k - 6
      BY <2>2 DEF Positions
    <3>2. f[k - 5] = (takes(k - 1) /\ ~f[k - 6])
      BY <1>1, <3>1
    <3>3. g[k - 1] = f[k - 6]
      BY <3>1
    <3> QED  BY <3>1, <3>2, <3>3
  <2> QED  BY <2>1, <2>2
<1>3. g = F(g)
  BY <1>2
<1> HIDE DEF g
<1>4. IsOperand(words) = (CHOOSE h : h = F(h))
  BY DEF IsOperand
<1>5. IsOperand(words) = F(IsOperand(words))
  BY <1>3, <1>4
<1> QED  BY <1>5

\* A command line that fits the usage line and has no path option has -c and -d only.
LEMMA OnlyFlags ==
  ASSUME NEW words, Len(words) \in Nat, FitsUsage(words),
         \A o \in PathOptions : Stands(words, o) = {}
  PROVE  \A k \in Positions(words) : ~IsOperand(words)[k] /\ words[k] \in {"-c", "-d"}
<1>1. ASSUME NEW k \in Positions(words), ~IsOperand(words)[k] PROVE words[k] \in {"-c", "-d"}
  <2>1. words[k] \in Options
    BY <1>1 DEF FitsUsage
  <2>2. words[k] \notin PathOptions
    BY <1>1 DEF Stands
  <2> QED  BY <2>1, <2>2 DEF Options
<1> DEFINE U == {n \in Nat : n + 5 \in Positions(words) => ~IsOperand(words)[n + 5]}
<1>2. 0 \in U
  <2>1. 5 \in Positions(words) => ~IsOperand(words)[5]
    <3>1. ~(5 > 5)
      OBVIOUS
    <3> QED  BY <3>1, Operands
  <2>2. 0 + 5 = 5
    OBVIOUS
  <2> QED  BY <2>1, <2>2
<1>3. ASSUME NEW n \in Nat, n \in U PROVE n + 1 \in U
  <2> SUFFICES ASSUME (n + 1) + 5 \in Positions(words) PROVE ~IsOperand(words)[(n + 1) + 5]
    OBVIOUS
  <2>1. n + 5 \in Positions(words) /\ ((n + 1) + 5) - 1 = n + 5
    BY DEF Positions
  <2>2. words[n + 5] \notin PathOptions
    BY <1>1, <1>3, <2>1 DEF PathOptions
  <2> QED  BY <2>1, <2>2, Operands
<1> HIDE DEF U
<1>4. Nat \subseteq U
  BY <1>2, <1>3, SetInduction
<1>5. ASSUME NEW k \in Positions(words) PROVE ~IsOperand(words)[k]
  <2>1. k - 5 \in Nat /\ (k - 5) + 5 = k
    BY DEF Positions
  <2> QED  BY <1>4, <2>1 DEF U
<1> QED  BY <1>1, <1>5

\* What parse() makes of such a command line is what is meant.
LEMMA PlainParsed ==
  ASSUME NEW line \in CommandLines, NEW place \in Surroundings,
         Usable(line, place.root, place.files), \A o \in PathOptions : Stands(line, o) = {}
  PROVE  /\ Parse(line, place.root, place.files) = Meant(line, place.root)
         /\ Parse(line, place.root, place.files) /= None
<1>1. /\ FitsUsage(line) /\ place.root /= None
      /\ \A w \in Wanted : Meant(line, place.root).paths[w] \in place.files
  BY DEF Usable, PathOptions
<1>2. Len(line) >= 4 /\ Len(line) \in Nat
  BY <1>1, MainAssumption DEF FitsUsage
<1>3. \A k \in Positions(line) : ~IsOperand(line)[k] /\ line[k] \in {"-c", "-d"}
  BY <1>1, <1>2, OnlyFlags
<1>4. ~Given(line, "-dr") /\ ~Given(line, "-dl")
  BY <1>3 DEF Given
<1>5. OptionsParse(line)
  BY <1>3 DEF OptionsParse, Options, PathOptions
<1>6. \A o \in {"-c", "-d"} : Given(line, o) <=> Stands(line, o) /= {}
  BY <1>3 DEF Given, Stands
<1>7. TimesFit(line[4]) /\ Stoul(line[4]) = line[4].digits
  <2>1. line[4] \in [minus : BOOLEAN, digits : Nat \union {None}]
    BY <1>2, MainAssumption
  <2>2. /\ line[4].digits \in Nat /\ line[4].digits /= None
        /\ ~line[4].minus /\ line[4].digits <= IntMax
    BY <1>1, <2>1 DEF FitsUsage
  <2>3. ~(line[4].digits > ULongMax)
    BY <2>2, ConfigurationAssumption
  <2> QED  BY <2>2, <2>3 DEF TimesFit, StoulThrows, Stoul
<1>8. /\ DataDir(line, "-dr", "data_root", place.root)
           = OperandOf(line, "-dr", <<place.root, "data_root">>)
      /\ DataDir(line, "-dl", "data_local", place.root)
           = OperandOf(line, "-dl", <<place.root, "data_local">>)
  <2>1. PathOf(line, "-dr") = None /\ PathOf(line, "-dl") = None
    BY <1>4 DEF PathOf
  <2> QED  BY <1>4, <2>1 DEF DataDir, DefaultDir, OperandOf, PathOptions
<1> DEFINE paths == Located(line, DataDir(line, "-dr", "data_root", place.root),
                                  DataDir(line, "-dl", "data_local", place.root))
<1>9. paths = Meant(line, place.root).paths
  BY <1>8 DEF Meant
<1>10. Parse(line, place.root, place.files)
         = [times |-> Stoul(line[4]), paths |-> paths,
            force |-> Given(line, "-c"), each |-> Given(line, "-d")]
  <2> HIDE DEF paths
  <2>1. \A w \in Wanted : paths[w] \in place.files
    BY <1>1, <1>9
  <2> QED  BY <1>1, <1>2, <1>5, <1>7, <2>1 DEF Parse, paths
<1>11. Meant(line, place.root)
         = [times |-> line[4].digits, paths |-> paths,
            force |-> Stands(line, "-c") /= {}, each |-> Stands(line, "-d") /= {}]
  BY <1>8 DEF Meant
<1>12. /\ Given(line, "-c") = (Stands(line, "-c") /= {})
       /\ Given(line, "-d") = (Stands(line, "-d") /= {})
  BY <1>6 DEF Given
<1>13. Parse(line, place.root, place.files) = Meant(line, place.root)
  <2> HIDE DEF paths
  <2> QED  BY <1>7, <1>10, <1>11, <1>12
<1> QED  BY <1>13, MainAssumption

--------------------------------------------------------------------------------
(* The steps. *)

\* Until main() calls execute(), nothing of a run's memory changes.
LEMMA BeforeExecute ==
  ASSUME IInv, pc = "main", UNCHANGED <<pc, memory, output_file, status_open>>,
         times' \in Times, each' \in BOOLEAN, phase' \in Phases,
         proc' \in {"running", "failed", "killed", "helped"},
         status_file' \in [verdict : {"stale", "ERROR"}, phase : Phases, calls : {0}],
         Files'
  PROVE  IInv'
<1>1. times \in Nat /\ times' \in Nat
  BY ExecutionAssumption DEF IInv, TypeOK
<1>2. i = 0 /\ recorded = 0 /\ dirty = {}
  BY <1>1 DEF IInv, Counts, UsedInputs, Beginning
<1>3. i' = 0 /\ recorded' = 0 /\ dirty' = {} /\ pc' = "main"
  BY <1>2 DEF memory
<1>4. TypeOK'
  <2>1. i' \in 0 .. times' /\ recorded' \in 0 .. times'
    BY <1>1, <1>3
  <2>2. status_file' \in [verdict : {"stale", "partial", "OK", "ERROR"}, phase : Phases,
                           calls : 0 .. times']
    BY <1>1
  <2> QED  BY <2>1, <2>2, <1>3 DEF IInv, TypeOK, memory, pointers
<1>5. Counts'
  BY <1>3 DEF Counts, Beginning, Ending
<1>6. Pointers'
  BY <1>3 DEF IInv, Pointers, Beginning, Looping, Ending, memory, pointers
<1>7. Lifetimes'
  BY <1>3 DEF IInv, Lifetimes, Beginning, Looping, memory
<1>8. UsedInputs'
  BY <1>3 DEF UsedInputs
<1> QED  BY <1>4, <1>5, <1>6, <1>7, <1>8 DEF IInv

\* The help page ends a run before anything is read.
LEMMA PrintHelpKeeps == MainInv /\ PrintHelp => MainInv'
<1> SUFFICES ASSUME MainInv, PrintHelp PROVE MainInv'
  OBVIOUS
<1>1. pc = "main" /\ stage /= "execute" /\ proc = "running"
  BY DEF MainInv, Stages, PrintHelp, In
<1>2. status_file \in [verdict : {"stale"}, phase : Phases, calls : {0}]
  BY <1>1 DEF MainInv, IInv, TypeOK, Files, Stages
<1>3. times' = times /\ each' = each
  BY DEF PrintHelp, config
<1>4. Files'
  BY <1>1, <1>2 DEF MainInv, IInv, Files, Stages, Beginning, Looping, Ending, PrintHelp,
     In, files
<1>5. IInv'
  <2>1. /\ UNCHANGED <<pc, memory, output_file, status_open>>
        /\ times' \in Times /\ each' \in BOOLEAN /\ phase' \in Phases
        /\ proc' \in {"running", "failed", "killed", "helped"}
    BY <1>1, <1>3 DEF MainInv, IInv, TypeOK, Phases, PrintHelp, config, files
  <2>2. status_file' \in [verdict : {"stale", "ERROR"}, phase : Phases, calls : {0}]
    BY <1>2 DEF MainInv, IInv, TypeOK, PrintHelp, files
  <2> QED  BY <1>1, <1>4, <2>1, <2>2, BeforeExecute DEF MainInv
<1>6. MainTypeOK'
  BY <1>1, <1>3, <1>5 DEF MainInv, IInv, MainTypeOK, PrintHelp, In, mainvars
<1>7. Stages'
  BY <1>1, <1>2 DEF MainInv, Stages, PrintHelp, In, mainvars, files
<1>8. LeftAgree'
  BY DEF MainInv, LeftAgree, PrintHelp, mainvars
<1> QED  BY <1>5, <1>6, <1>7, <1>8 DEF MainInv

\* The number of calls and the flags are set, and nothing has happened yet.
LEMMA ParseArgumentsKeeps == MainInv /\ ParseArguments => MainInv'
<1> SUFFICES ASSUME MainInv, ParseArguments PROVE MainInv'
  OBVIOUS
<1>1. pc = "main" /\ stage /= "execute" /\ proc = "running"
  BY DEF MainInv, Stages, ParseArguments, In
<1>2. status_file \in [verdict : {"stale"}, phase : Phases, calls : {0}]
  BY <1>1 DEF MainInv, IInv, TypeOK, Files, Stages
<1>3. times' \in Times /\ each' \in BOOLEAN /\ argv' /= None
  BY ParsedTypes, MainAssumption DEF ParseArguments
<1>4. Files'
  BY <1>1, <1>2 DEF MainInv, IInv, Files, Stages, Beginning, Looping, Ending,
     ParseArguments, In, files
<1>5. IInv'
  <2>1. /\ UNCHANGED <<pc, memory, output_file, status_open>>
        /\ times' \in Times /\ each' \in BOOLEAN /\ phase' \in Phases
        /\ proc' \in {"running", "failed", "killed", "helped"}
    BY <1>1, <1>3 DEF MainInv, IInv, TypeOK, Phases, ParseArguments, config, files
  <2>2. status_file' \in [verdict : {"stale", "ERROR"}, phase : Phases, calls : {0}]
    BY <1>2 DEF MainInv, IInv, TypeOK, ParseArguments, files
  <2> QED  BY <1>1, <1>4, <2>1, <2>2, BeforeExecute DEF MainInv
<1>6. MainTypeOK'
  BY <1>1, <1>3, <1>5 DEF MainInv, IInv, MainTypeOK, ParseArguments, In, mainvars
<1>7. Stages'
  BY <1>1, <1>2 DEF MainInv, Stages, ParseArguments, In, mainvars, files
<1>8. LeftAgree'
  BY DEF MainInv, LeftAgree, ParseArguments, mainvars
<1> QED  BY <1>5, <1>6, <1>7, <1>8 DEF MainInv

\* An error before the configuration is known writes no status.
LEMMA ParseFailsKeeps == MainInv /\ ParseFails => MainInv'
<1> SUFFICES ASSUME MainInv, ParseFails PROVE MainInv'
  OBVIOUS
<1>1. pc = "main" /\ stage /= "execute" /\ proc = "running"
  BY DEF MainInv, Stages, ParseFails, In
<1>2. status_file \in [verdict : {"stale"}, phase : Phases, calls : {0}]
  BY <1>1 DEF MainInv, IInv, TypeOK, Files, Stages
<1>3. times' = times /\ each' = each /\ argv' /= None
  BY MainAssumption DEF ParseFails, config
<1>4. Files'
  BY <1>1, <1>2 DEF MainInv, IInv, Files, Stages, Beginning, Looping, Ending, ParseFails,
     In, files
<1>5. IInv'
  <2>1. /\ UNCHANGED <<pc, memory, output_file, status_open>>
        /\ times' \in Times /\ each' \in BOOLEAN /\ phase' \in Phases
        /\ proc' \in {"running", "failed", "killed", "helped"}
    BY <1>1, <1>3 DEF MainInv, IInv, TypeOK, Phases, ParseFails, config, files
  <2>2. status_file' \in [verdict : {"stale", "ERROR"}, phase : Phases, calls : {0}]
    BY <1>2 DEF MainInv, IInv, TypeOK, ParseFails, files
  <2> QED  BY <1>1, <1>4, <2>1, <2>2, BeforeExecute DEF MainInv
<1>6. MainTypeOK'
  BY <1>1, <1>3, <1>5 DEF MainInv, IInv, MainTypeOK, ParseFails, In, mainvars
<1>7. Stages'
  BY <1>1, <1>2 DEF MainInv, Stages, ParseFails, In, mainvars, files
<1>8. LeftAgree'
  BY DEF MainInv, LeftAgree, ParseFails, mainvars
<1> QED  BY <1>5, <1>6, <1>7, <1>8 DEF MainInv

\* The phase becomes Compilation with the stage.
LEMMA MakeCompilerKeeps == MainInv /\ MakeCompiler => MainInv'
<1> SUFFICES ASSUME MainInv, MakeCompiler PROVE MainInv'
  OBVIOUS
<1>1. pc = "main" /\ stage /= "execute" /\ proc = "running"
  BY DEF MainInv, Stages, MakeCompiler, In
<1>2. status_file \in [verdict : {"stale"}, phase : Phases, calls : {0}]
  BY <1>1 DEF MainInv, IInv, TypeOK, Files, Stages
<1>3. times' = times /\ each' = each
  BY DEF MakeCompiler, config
<1>4. Files'
  BY <1>1, <1>2 DEF MainInv, IInv, Files, Stages, Beginning, Looping, Ending, MakeCompiler,
     In, files
<1>5. IInv'
  <2>1. /\ UNCHANGED <<pc, memory, output_file, status_open>>
        /\ times' \in Times /\ each' \in BOOLEAN /\ phase' \in Phases
        /\ proc' \in {"running", "failed", "killed", "helped"}
    BY <1>1, <1>3 DEF MainInv, IInv, TypeOK, Phases, MakeCompiler, config, files
  <2>2. status_file' \in [verdict : {"stale", "ERROR"}, phase : Phases, calls : {0}]
    BY <1>2 DEF MainInv, IInv, TypeOK, MakeCompiler, files
  <2> QED  BY <1>1, <1>4, <2>1, <2>2, BeforeExecute DEF MainInv
<1>6. MainTypeOK'
  BY <1>1, <1>3, <1>5 DEF MainInv, IInv, MainTypeOK, MakeCompiler, In, mainvars
<1>7. Stages'
  BY <1>1, <1>2 DEF MainInv, Stages, MakeCompiler, In, mainvars, files
<1>8. LeftAgree'
  BY DEF MainInv, LeftAgree, MakeCompiler, mainvars
<1> QED  BY <1>5, <1>6, <1>7, <1>8 DEF MainInv

\* It becomes Setup when the library is there.
LEMMA CompileKeeps == MainInv /\ Compile => MainInv'
<1> SUFFICES ASSUME MainInv, Compile PROVE MainInv'
  OBVIOUS
<1>1. pc = "main" /\ stage /= "execute" /\ proc = "running"
  BY DEF MainInv, Stages, Compile, In
<1>2. status_file \in [verdict : {"stale"}, phase : Phases, calls : {0}]
  BY <1>1 DEF MainInv, IInv, TypeOK, Files, Stages
<1>3. times' = times /\ each' = each
  BY DEF Compile, config
<1>4. Files'
  BY <1>1, <1>2 DEF MainInv, IInv, Files, Stages, Beginning, Looping, Ending, Compile, In,
     files, PhaseCompiled
<1>5. IInv'
  <2>1. /\ UNCHANGED <<pc, memory, output_file, status_open>>
        /\ times' \in Times /\ each' \in BOOLEAN /\ phase' \in Phases
        /\ proc' \in {"running", "failed", "killed", "helped"}
    BY <1>1, <1>3 DEF MainInv, IInv, TypeOK, Phases, Compile, config, files, PhaseCompiled
  <2>2. status_file' \in [verdict : {"stale", "ERROR"}, phase : Phases, calls : {0}]
    BY <1>2 DEF MainInv, IInv, TypeOK, Compile, files
  <2> QED  BY <1>1, <1>4, <2>1, <2>2, BeforeExecute DEF MainInv
<1>6. MainTypeOK'
  BY <1>1, <1>3, <1>5 DEF MainInv, IInv, MainTypeOK, Compile, In, mainvars
<1>7. Stages'
  BY <1>1, <1>2 DEF MainInv, Stages, Compile, In, mainvars, files, PhaseCompiled
<1>8. LeftAgree'
  BY DEF MainInv, LeftAgree, Compile, mainvars
<1> QED  BY <1>5, <1>6, <1>7, <1>8 DEF MainInv

\* And goes back when the library has to be built again.
LEMMA CompileAgainKeeps == MainInv /\ CompileAgain => MainInv'
<1> SUFFICES ASSUME MainInv, CompileAgain PROVE MainInv'
  OBVIOUS
<1>1. pc = "main" /\ stage /= "execute" /\ proc = "running"
  BY DEF MainInv, Stages, CompileAgain, In
<1>2. status_file \in [verdict : {"stale"}, phase : Phases, calls : {0}]
  BY <1>1 DEF MainInv, IInv, TypeOK, Files, Stages
<1>3. times' = times /\ each' = each
  BY DEF CompileAgain, config
<1>4. Files'
  BY <1>1, <1>2 DEF MainInv, IInv, Files, Stages, Beginning, Looping, Ending, CompileAgain,
     In, files
<1>5. IInv'
  <2>1. /\ UNCHANGED <<pc, memory, output_file, status_open>>
        /\ times' \in Times /\ each' \in BOOLEAN /\ phase' \in Phases
        /\ proc' \in {"running", "failed", "killed", "helped"}
    BY <1>1, <1>3 DEF MainInv, IInv, TypeOK, Phases, CompileAgain, config, files
  <2>2. status_file' \in [verdict : {"stale", "ERROR"}, phase : Phases, calls : {0}]
    BY <1>2 DEF MainInv, IInv, TypeOK, CompileAgain, files
  <2> QED  BY <1>1, <1>4, <2>1, <2>2, BeforeExecute DEF MainInv
<1>6. MainTypeOK'
  BY <1>1, <1>3, <1>5 DEF MainInv, IInv, MainTypeOK, CompileAgain, In, mainvars
<1>7. Stages'
  BY <1>1, <1>2 DEF MainInv, Stages, CompileAgain, In, mainvars, files
<1>8. LeftAgree'
  BY DEF MainInv, LeftAgree, CompileAgain, mainvars
<1> QED  BY <1>5, <1>6, <1>7, <1>8 DEF MainInv

\* The second library begins where the first did.
LEMMA LoadProjectKeeps == MainInv /\ LoadProject => MainInv'
<1> SUFFICES ASSUME MainInv, LoadProject PROVE MainInv'
  OBVIOUS
<1>1. pc = "main" /\ stage /= "execute" /\ proc = "running"
  BY DEF MainInv, Stages, LoadProject, In
<1>2. status_file \in [verdict : {"stale"}, phase : Phases, calls : {0}]
  BY <1>1 DEF MainInv, IInv, TypeOK, Files, Stages
<1>3. times' = times /\ each' = each
  BY DEF LoadProject, config
<1>4. Files'
  BY <1>1, <1>2 DEF MainInv, IInv, Files, Stages, Beginning, Looping, Ending, LoadProject,
     In, files
<1>5. IInv'
  <2>1. /\ UNCHANGED <<pc, memory, output_file, status_open>>
        /\ times' \in Times /\ each' \in BOOLEAN /\ phase' \in Phases
        /\ proc' \in {"running", "failed", "killed", "helped"}
    BY <1>1, <1>3 DEF MainInv, IInv, TypeOK, Phases, LoadProject, config, files
  <2>2. status_file' \in [verdict : {"stale", "ERROR"}, phase : Phases, calls : {0}]
    BY <1>2 DEF MainInv, IInv, TypeOK, LoadProject, files
  <2> QED  BY <1>1, <1>4, <2>1, <2>2, BeforeExecute DEF MainInv
<1>6. MainTypeOK'
  BY <1>1, <1>3, <1>5 DEF MainInv, IInv, MainTypeOK, LoadProject, In, mainvars
<1>7. Stages'
  BY <1>1, <1>2 DEF MainInv, Stages, LoadProject, In, mainvars, files
<1>8. LeftAgree'
  BY DEF MainInv, LeftAgree, LoadProject, mainvars
<1> QED  BY <1>5, <1>6, <1>7, <1>8 DEF MainInv

\* The error has the phase of the stage.
LEMMA LibraryFailsKeeps == MainInv /\ LibraryFails => MainInv'
<1> SUFFICES ASSUME MainInv, LibraryFails PROVE MainInv'
  OBVIOUS
<1>1. pc = "main" /\ stage /= "execute" /\ proc = "running"
  BY DEF MainInv, Stages, LibraryFails, In
<1>2. status_file \in [verdict : {"stale"}, phase : Phases, calls : {0}]
  BY <1>1 DEF MainInv, IInv, TypeOK, Files, Stages
<1>3. times' = times /\ each' = each
  BY DEF LibraryFails, config
<1>4. Files'
  BY <1>1, <1>2 DEF MainInv, IInv, Files, Stages, Beginning, Looping, Ending, LibraryFails,
     In, files, ErrorStatus, Status
<1>5. IInv'
  <2>1. /\ UNCHANGED <<pc, memory, output_file, status_open>>
        /\ times' \in Times /\ each' \in BOOLEAN /\ phase' \in Phases
        /\ proc' \in {"running", "failed", "killed", "helped"}
    BY <1>1, <1>3 DEF MainInv, IInv, TypeOK, Phases, LibraryFails, config, files
  <2>2. status_file' \in [verdict : {"stale", "ERROR"}, phase : Phases, calls : {0}]
    BY <1>2 DEF MainInv, IInv, TypeOK, LibraryFails, files, ErrorStatus, Status
  <2> QED  BY <1>1, <1>4, <2>1, <2>2, BeforeExecute DEF MainInv
<1>6. MainTypeOK'
  BY <1>1, <1>3, <1>5 DEF MainInv, IInv, MainTypeOK, LibraryFails, In, mainvars
<1>7. Stages'
  BY <1>1, <1>2 DEF MainInv, Stages, LibraryFails, In, mainvars, files, ErrorStatus, Status
<1>8. LeftAgree'
  BY DEF MainInv, LeftAgree, LibraryFails, mainvars
<1> QED  BY <1>5, <1>6, <1>7, <1>8 DEF MainInv

\* execute() finds the memory of a run that has just begun.
LEMMA LoadAlgorithmKeeps == MainInv /\ LoadAlgorithm => MainInv'
<1> SUFFICES ASSUME MainInv, LoadAlgorithm PROVE MainInv'
  OBVIOUS
<1>1. pc = "main" /\ pc' = "read" /\ phase = "SETUP" /\ proc = "running"
  BY DEF MainInv, Stages, LoadAlgorithm, In
<1>2. i = 0 /\ recorded = 0 /\ dirty = {}
  BY <1>1, ExecutionAssumption DEF MainInv, IInv, TypeOK, Counts, UsedInputs, Beginning
<1>3. TypeOK' /\ Counts' /\ UsedInputs'
  BY <1>1, <1>2 DEF MainInv, IInv, TypeOK, Counts, UsedInputs, Beginning, Ending,
     LoadAlgorithm,
     config, memory, files, pointers
<1>4. Pointers' /\ Lifetimes'
  BY <1>1 DEF MainInv, IInv, Pointers, Lifetimes, Beginning, Looping, Ending, LoadAlgorithm,
     memory, pointers
<1>5. Files'
  BY <1>1 DEF MainInv, IInv, Files, Beginning, Looping, Ending, LoadAlgorithm, files
<1>6. MainTypeOK'
  BY <1>1, <1>3 DEF MainInv, MainTypeOK, LoadAlgorithm, In
<1>7. Stages'
  BY <1>1 DEF MainInv, Stages, LoadAlgorithm, files
<1>8. LeftAgree'
  BY DEF MainInv, LeftAgree, LoadAlgorithm
<1> QED  BY <1>3, <1>4, <1>5, <1>6, <1>7, <1>8 DEF MainInv, IInv

\* A step of execute() leaves the stage and the earlier runs alone.
LEMMA ExecuteStepKeeps == MainInv /\ ExecuteStep => MainInv'
<1> SUFFICES ASSUME MainInv, ExecuteStep PROVE MainInv'
  OBVIOUS
<1>1. IInv'
  BY NextKeeps DEF MainInv, ExecuteStep
<1>2. pc /= "main" /\ pc' /= "main"
  BY DEF ExecuteStep, Next, At, CallsLibrary, CallsInternal, UsesFile, ReadInput,
     DeserializeOnce, StartLoop, Iterate, PrepareInput, Execute, EndIteration, EndLoop, Serialize,
     OpenOutput, WriteOutput, FreeMemory, PopThrows, DeleteBuffer, WriteStatus, StatusCutShort,
     Fail, Killed
<1>3. stage = "execute" /\ UNCHANGED mainvars
  BY <1>2 DEF MainInv, Stages, ExecuteStep
<1>4. MainTypeOK' /\ Stages' /\ LeftAgree'
  BY <1>1, <1>2, <1>3 DEF MainInv, IInv, MainTypeOK, Stages, LeftAgree, mainvars
<1> QED  BY <1>1, <1>4 DEF MainInv

\* A killed run leaves the files as they are.
LEMMA KilledOutsideKeeps == MainInv /\ KilledOutside => MainInv'
<1> SUFFICES ASSUME MainInv, KilledOutside PROVE MainInv'
  OBVIOUS
<1>1. TypeOK' /\ Counts' /\ Pointers'
  BY DEF MainInv, IInv, TypeOK, Counts, Pointers, Single, Prepared, KilledOutside, config,
     memory, pointers, files
<1>2. Lifetimes' /\ UsedInputs'
  BY DEF MainInv, IInv, Lifetimes, Kept, Used, UsedInputs, KilledOutside, config, memory,
     pointers
<1>3. Files'
  BY DEF MainInv, IInv, Files, KilledOutside, config, files
<1>4. MainTypeOK' /\ Stages' /\ LeftAgree'
  BY <1>1 DEF MainInv, MainTypeOK, Stages, LeftAgree, KilledOutside, mainvars, files
<1> QED  BY <1>1, <1>2, <1>3, <1>4 DEF MainInv, IInv

\* The files are those of one run, or are not said to agree.
LEMMA InvResultsAgree == MainInv => ResultsAgree
<1> SUFFICES ASSUME MainInv, Over, ~disturbed, ~Disturbed, FilesNow.ok
             PROVE  FilesNow.status = FilesNow.output
  BY DEF ResultsAgree
<1>1. CASE status_file.verdict = "stale"
  <2>1. output_file = Stale
    BY <1>1 DEF MainInv, IInv, TypeOK, Files, Beginning, Over, Disturbed
  <2> QED  BY <1>1, <2>1 DEF MainInv, LeftAgree, FilesNow
<1>2. CASE status_file.verdict /= "stale"
  <2>1. status_file.verdict = "OK" /\ proc = "done" /\ pc = "status"
    BY <1>2 DEF MainInv, IInv, Files, FilesNow
  <2>2. output_file = <<"text", times>>
    BY <2>1 DEF MainInv, IInv, Files
  <2> QED  BY <1>2, <2>2 DEF FilesNow, Stale, Empty
<1> QED  BY <1>1, <1>2

\* What a run leaves, for the type of what the next one finds.
LEMMA FilesNowType ==
  MainInv => FilesNow \in [output : 0 .. MaxRuns, status : 0 .. MaxRuns, ok : BOOLEAN]
<1> SUFFICES ASSUME MainInv
             PROVE  /\ FilesNow.output \in 0 .. MaxRuns /\ FilesNow.status \in 0 .. MaxRuns
                    /\ FilesNow.ok \in BOOLEAN
  BY DEF FilesNow
<1>1. /\ left.output \in 0 .. MaxRuns /\ left.status \in 0 .. MaxRuns
      /\ left.ok \in BOOLEAN /\ run \in 0 .. MaxRuns /\ 0 \in 0 .. MaxRuns
  BY MainAssumption DEF MainInv, MainTypeOK
<1> QED  BY <1>1 DEF FilesNow

\* A run starts with what the last one left, which is of one run.
LEMMA NextRunKeeps == MainInv /\ NextRun => MainInv'
<1> SUFFICES ASSUME MainInv, NextRun PROVE MainInv'
  OBVIOUS
<1>1. 0 \in Times
  BY MainAssumption, ConfigurationAssumption
<1>2. TypeOK'
  <2>1. /\ project' \in Seq(SUBSET Object) /\ Len(project') \in 1 .. 2
        /\ algorithm' \in Seq(SUBSET Object) /\ Len(algorithm') = 1
    BY StackTypes DEF NextRun
  <2>2. status_file' \in [verdict : {"stale", "partial", "OK", "ERROR"}, phase : Phases,
                           calls : 0 .. times']
    BY DEF NextRun, Status, Phases
  <2>3. i' \in 0 .. times' /\ recorded' \in 0 .. times'
    BY DEF NextRun
  <2>4. times' \in Times /\ each' \in BOOLEAN /\ status_open' \in BOOLEAN /\ buffer' \in BOOLEAN
    BY <1>1 DEF NextRun
  <2>5. /\ pc' = "main" /\ phase' \in Phases /\ proc' = "running"
        /\ {input', iter_input', output', serialized'} \subseteq Object \union {NULL}
        /\ dirty' \subseteq Object /\ output_file' \in Object \union {Stale, Empty}
    BY DEF NextRun, Phases
  <2> QED  BY <2>1, <2>2, <2>3, <2>4, <2>5 DEF TypeOK
<1>3. Counts' /\ Pointers' /\ UsedInputs'
  BY DEF NextRun, Counts, Pointers, UsedInputs, Beginning, Looping, Ending
<1>4. Lifetimes'
  BY DEF NextRun, Lifetimes, Beginning, Looping
<1>5. Files'
  BY DEF NextRun, Files, Beginning, Looping, Ending, Status
<1>6. left' \in [output : 0 .. MaxRuns, status : 0 .. MaxRuns, ok : BOOLEAN]
  BY FilesNowType DEF NextRun
<1>7. MainTypeOK'
  BY <1>2, <1>6, MainAssumption DEF MainInv, MainTypeOK, NextRun, Over
<1>8. Stages'
  BY DEF NextRun, Stages, Status
<1>9. LeftAgree'
  BY InvResultsAgree DEF ResultsAgree, LeftAgree, NextRun
<1> QED  BY <1>2, <1>3, <1>4, <1>5, <1>7, <1>8, <1>9 DEF MainInv, IInv

\* The first run finds no files.
LEMMA MainInvStart == MainInit => MainInv
<1> SUFFICES ASSUME MainInit PROVE MainInv
  OBVIOUS
<1>1. 0 \in Times
  BY MainAssumption, ConfigurationAssumption
<1>2. TypeOK
  <2>1. /\ project \in Seq(SUBSET Object) /\ Len(project) \in 1 .. 2
        /\ algorithm \in Seq(SUBSET Object) /\ Len(algorithm) = 1
    BY StackTypes DEF MainInit
  <2>2. status_file \in [verdict : {"stale", "partial", "OK", "ERROR"}, phase : Phases,
                          calls : 0 .. times]
    BY DEF MainInit, Status, Phases
  <2>3. i \in 0 .. times /\ recorded \in 0 .. times
    BY DEF MainInit
  <2>4. times \in Times /\ each \in BOOLEAN /\ status_open \in BOOLEAN /\ buffer \in BOOLEAN
    BY <1>1 DEF MainInit
  <2>5. /\ pc = "main" /\ phase \in Phases /\ proc = "running"
        /\ {input, iter_input, output, serialized} \subseteq Object \union {NULL}
        /\ dirty \subseteq Object /\ output_file \in Object \union {Stale, Empty}
    BY DEF MainInit, Phases
  <2> QED  BY <2>1, <2>2, <2>3, <2>4, <2>5 DEF TypeOK
<1>3. Counts /\ Pointers /\ UsedInputs
  BY DEF MainInit, Counts, Pointers, UsedInputs, Beginning, Looping, Ending
<1>4. Lifetimes
  BY DEF MainInit, Lifetimes, Beginning, Looping
<1>5. Files
  BY DEF MainInit, Files, Beginning, Looping, Ending, Status
<1>6. MainTypeOK
  <2>1. left \in [output : 0 .. MaxRuns, status : 0 .. MaxRuns, ok : BOOLEAN]
    BY MainAssumption DEF MainInit, NoFiles
  <2>2. run \in 1 .. MaxRuns
    BY MainAssumption DEF MainInit
  <2>3. disturbed \in BOOLEAN
    BY DEF MainInit
  <2> QED  BY <1>2, <2>1, <2>2, <2>3 DEF MainTypeOK, MainInit
<1>7. Stages /\ LeftAgree
  BY DEF MainInit, Stages, LeftAgree, NoFiles, Status
<1> QED  BY <1>2, <1>3, <1>4, <1>5, <1>6, <1>7 DEF MainInv, IInv

\* Steps that change nothing here.
LEMMA MainStutterKeeps == MainInv /\ UNCHANGED allvars => MainInv'
<1> SUFFICES ASSUME MainInv, UNCHANGED allvars PROVE MainInv'
  OBVIOUS
<1>1. UNCHANGED vars /\ UNCHANGED mainvars
  BY DEF allvars
<1>2. IInv'
  BY <1>1, NextKeeps DEF MainInv
<1>3. MainTypeOK' /\ Stages' /\ LeftAgree'
  BY <1>1, <1>2 DEF MainInv, IInv, MainTypeOK, Stages, LeftAgree, vars, mainvars, files
<1> QED  BY <1>2, <1>3 DEF MainInv

\* The invariant holds throughout, over all runs (main.cpp).
THEOREM MainInvariant == MainSpec => []MainInv
<1>1. MainInit => MainInv
  BY MainInvStart
<1>2. MainInv /\ [MainNext]_allvars => MainInv'
  BY PrintHelpKeeps, ParseArgumentsKeeps, ParseFailsKeeps, MakeCompilerKeeps, CompileKeeps,
     CompileAgainKeeps, LoadProjectKeeps, LoadAlgorithmKeeps, LibraryFailsKeeps,
     ExecuteStepKeeps, KilledOutsideKeeps, NextRunKeeps, MainStutterKeeps DEF MainNext, RunStep
<1> QED  BY <1>1, <1>2, PTL DEF MainSpec

\* Types, for any number of calls and runs (main.cpp, Execution.cpp).
THEOREM RunsTyped == MainSpec => []MainTypeOK
<1>1. MainInv => MainTypeOK
  BY DEF MainInv
<1> QED  BY <1>1, MainInvariant, PTL

\* Each call into a library is given live memory, for any times_to_execute
\* (Execution.cpp:25-56).
THEOREM InputsLive == MainSpec => []ArgumentsLive
<1>1. MainInv => ArgumentsLive
  BY InvLive DEF MainInv
<1> QED  BY <1>1, MainInvariant, PTL

\* Each call works on an input that no earlier call has touched
\* (Execution.cpp:31).
THEOREM CallsIsolated == MainSpec => []Isolation
<1>1. MainInv => Isolation
  BY InvIsolation DEF MainInv
<1> QED  BY <1>1, MainInvariant, PTL

\* What a run holds before a call does not depend on how many there were
\* (Execution.cpp:42-46).
THEOREM MemoryBounded == MainSpec => []NoAccumulation
<1>1. MainInv => NoAccumulation
  BY InvNoAccumulation DEF MainInv
<1> QED  BY <1>1, MainInvariant, PTL

\* A run that says OK has made every call, written the last output and freed
\* everything (Execution.cpp:50-63).
THEOREM OKIsDone == MainSpec => []OKMeansDone
<1>1. MainInv => OKMeansDone
  BY InvOKMeansDone DEF MainInv
<1> QED  BY <1>1, MainInvariant, PTL

\* The phase in the status file is the one the run has failed in (Error.cpp).
THEOREM PhasesTruthful == MainSpec => []PhaseTruthful
<1>1. MainInv => PhaseTruthful
  BY InvPhaseTruthful DEF MainInv
<1> QED  BY <1>1, MainInvariant, PTL

\* An OK is never beside the output of another run, over any sequence of runs
\* that are not Disturbed (FileManagement.cpp, Error.cpp).
THEOREM FilesAgree == MainSpec => []ResultsAgree
<1>1. MainInv => ResultsAgree
  BY InvResultsAgree DEF MainInv
<1> QED  BY <1>1, MainInvariant, PTL

\* The configuration is what parse() has made of the command line, and a run that
\* failed there was refused by it.
Obeyed ==
  /\ stage = "compiler" \/ (stage = "parse" /\ proc = "failed") =>
       argv \in CommandLines /\ around \in Surroundings
  /\ stage = "compiler" =>
       LET c == Parse(argv, around.root, around.files)
       IN  c /= None /\ times = c.times /\ each = c.each
  /\ stage = "parse" /\ proc = "failed" => Parse(argv, around.root, around.files) = None

\* parse() stores it, main() forgets the command line, and only a next run parses again.
LEMMA ObeyedKeeps == MainInv /\ Obeyed /\ [MainNext]_allvars => Obeyed'
<1> SUFFICES ASSUME MainInv, Obeyed, [MainNext]_allvars PROVE Obeyed'
  OBVIOUS
<1>1. CASE PrintHelp
  BY <1>1 DEF PrintHelp, In, mainvars, Obeyed
<1>2. CASE ParseArguments
  BY <1>2 DEF ParseArguments, Obeyed
<1>3. CASE ParseFails
  BY <1>3 DEF ParseFails, In, Obeyed
<1>4. CASE MakeCompiler \/ Compile \/ CompileAgain \/ LoadProject \/ LoadAlgorithm
  BY <1>4 DEF MakeCompiler, Compile, CompileAgain, LoadProject, LoadAlgorithm, Obeyed
<1>5. CASE LibraryFails
  BY <1>5 DEF LibraryFails, config, mainvars, Obeyed
<1>6. CASE ExecuteStep
  <2>1. pc /= "main"
    BY <1>6 DEF ExecuteStep, Next, At, CallsLibrary, CallsInternal, UsesFile, ReadInput,
       DeserializeOnce, StartLoop, Iterate, PrepareInput, Execute, EndIteration, EndLoop,
       Serialize, OpenOutput, WriteOutput, FreeMemory, PopThrows, DeleteBuffer, WriteStatus,
       StatusCutShort, Fail, Killed
  <2>2. stage = "execute" /\ stage' = "execute"
    BY <1>6, <2>1 DEF MainInv, Stages, ExecuteStep, mainvars
  <2> QED  BY <2>2 DEF Obeyed
<1>7. CASE KilledOutside
  BY <1>7 DEF KilledOutside, config, mainvars, Obeyed
<1>8. CASE NextRun
  BY <1>8 DEF NextRun, Obeyed
<1>9. CASE UNCHANGED allvars
  BY <1>9 DEF allvars, vars, config, mainvars, Obeyed
<1> QED  BY <1>1, <1>2, <1>3, <1>4, <1>5, <1>6, <1>7, <1>8, <1>9 DEF MainNext, RunStep

\* A command line that fits the usage line and names no path is accepted and does
\* what the usage line says, whatever its words are (Configuration.cpp:12-156).
THEOREM PlainUsageIsObeyed == MainSpec => []PlainUsageObeyed
<1>1. MainInit => Obeyed
  BY DEF MainInit, Obeyed
<1>2. Obeyed => PlainUsageObeyed
  <2> SUFFICES ASSUME Obeyed, stage = "compiler" \/ (stage = "parse" /\ proc = "failed"),
                      Usable(argv, around.root, around.files),
                      \A o \in PathOptions : Stands(argv, o) = {}
               PROVE  /\ stage = "compiler"
                      /\ Parse(argv, around.root, around.files) = Meant(argv, around.root)
                      /\ times = argv[4].digits /\ each = (Stands(argv, "-d") /= {})
    BY DEF PlainUsageObeyed
  <2>1. /\ Parse(argv, around.root, around.files) = Meant(argv, around.root)
        /\ Parse(argv, around.root, around.files) /= None
    BY PlainParsed DEF Obeyed
  <2>2. stage = "compiler"
    BY <2>1 DEF Obeyed
  <2>3. /\ times = Meant(argv, around.root).times
        /\ each = Meant(argv, around.root).each
    BY <2>1, <2>2 DEF Obeyed
  <2>4. /\ Meant(argv, around.root).times = argv[4].digits
        /\ Meant(argv, around.root).each = (Stands(argv, "-d") /= {})
    BY DEF Meant
  <2> QED  BY <2>1, <2>2, <2>3, <2>4
<1> QED  BY <1>1, <1>2, ObeyedKeeps, MainInvariant, PTL DEF MainSpec

--------------------------------------------------------------------------------
(* The refinement. *)

\* A run that begins is one of RunSpec.
LEMMA PromiseStart == MainInit => Promise!Init
BY DEF MainInit, Promise!Init, Status

\* A step the system does not see.
LEMMA Unseen ==
  ASSUME UNCHANGED <<proc, phase, output_file, status_file>>
  PROVE  UNCHANGED Promise!vars
BY DEF Promise!vars

\* A change of the phase in the order RunSpec allows.
LEMMA PromisePhase ==
  ASSUME MainInv, proc = "running", proc' = "running", UNCHANGED files,
         phase' \in Promise!Following(phase)
  PROVE  Promise!Next
BY DEF Promise!Next, Promise!Advance, files

\* An end that leaves no status.
LEMMA PromiseEnd ==
  ASSUME MainInv, proc = "running", proc' /= "running", UNCHANGED <<phase, files>>
  PROVE  Promise!Next
BY DEF Promise!Next, Promise!EndSilently, files

\* error(), with or without a status file.
LEMMA PromiseError ==
  ASSUME MainInv, proc = "running", proc' /= "running", UNCHANGED <<phase, output_file>>,
         status_file' = ErrorStatus
  PROVE  Promise!Next
<1>1. CASE status_open
  BY <1>1 DEF Promise!Next, Promise!ReportError, ErrorStatus, Status
<1>2. CASE ~status_open
  BY <1>2, PromiseEnd DEF ErrorStatus, files
<1> QED  BY <1>1, <1>2

\* The steps before execute().
LEMMA MainStepAllowed ==
  ASSUME MainInv,
         PrintHelp \/ ParseArguments \/ ParseFails \/ MakeCompiler \/ Compile \/ CompileAgain
           \/ LoadProject \/ LoadAlgorithm \/ LibraryFails
  PROVE  [Promise!Next]_(Promise!vars)
<1>1. CASE PrintHelp
  BY <1>1, PromiseEnd DEF PrintHelp, In
<1>2. CASE ParseArguments
  BY <1>2, Unseen DEF ParseArguments, files
<1>3. CASE ParseFails
  BY <1>3, PromiseEnd DEF ParseFails, In
<1>4. CASE MakeCompiler
  BY <1>4, PromisePhase DEF MakeCompiler, In, MainInv, Stages, Promise!Following
<1>5. CASE Compile
  BY <1>5, PromisePhase DEF Compile, PhaseCompiled, In, MainInv, Stages, Promise!Following
<1>6. CASE CompileAgain
  BY <1>6, PromisePhase DEF CompileAgain, In, MainInv, Stages, Promise!Following
<1>7. CASE LoadProject
  BY <1>7, PromisePhase DEF LoadProject, In, MainInv, Stages, Promise!Following
<1>8. CASE LoadAlgorithm
  BY <1>8, Unseen DEF LoadAlgorithm, files
<1>9. CASE LibraryFails
  BY <1>9, PromiseError DEF LibraryFails
<1> QED  BY <1>1, <1>2, <1>3, <1>4, <1>5, <1>6, <1>7, <1>8, <1>9

\* The steps of execute().
LEMMA ExecuteStepAllowed ==
  ASSUME MainInv, Next
  PROVE  [Promise!Next]_(Promise!vars)
<1>1. CASE ReadInput \/ DeserializeOnce \/ Iterate \/ PrepareInput \/ Execute \/ EndIteration
           \/ Serialize \/ FreeMemory \/ DeleteBuffer
  BY <1>1, Unseen DEF ReadInput, DeserializeOnce, Iterate, PrepareInput, Execute,
     EndIteration,
     Serialize, FreeMemory, DeleteBuffer, files
<1>2. CASE StartLoop
  BY <1>2, PromisePhase DEF StartLoop, At, MainInv, IInv, Files, Beginning,
     Promise!Following
<1>3. CASE EndLoop
  BY <1>3, PromisePhase DEF EndLoop, At, MainInv, IInv, Files, Looping, Promise!Following
<1>4. CASE OpenOutput
  BY <1>4 DEF OpenOutput, At, MainInv, IInv, Files, Ending, Stale, Empty,
     Promise!Next, Promise!CutOutput
<1>5. CASE WriteOutput
  <2>1. serialized = <<"text", times>> /\ phase = "TEARDOWN" /\ output_file = Empty
    BY <1>5 DEF WriteOutput, At, MainInv, IInv, Files, Pointers, Ending
  <2> QED
    BY <1>5, <2>1 DEF WriteOutput, At, Stale, Empty, Promise!Next, Promise!WriteOutput
<1>6. CASE WriteStatus \/ StatusCutShort
  <2>1. output_file = <<"text", times>> /\ phase = "TEARDOWN" /\ proc = "running"
    BY <1>6 DEF WriteStatus, StatusCutShort, At, MainInv, IInv, Files, Ending
  <2> QED  BY <1>6, <2>1 DEF WriteStatus, StatusCutShort, Status, Stale, Empty,
              Promise!Next, Promise!ReportOK
<1>7. CASE PopThrows
  BY <1>7, PromiseEnd DEF PopThrows, At
<1>8. CASE Fail
  BY <1>8, PromiseError DEF Fail, CallsLibrary, CallsInternal, UsesFile, At
<1>9. CASE Killed
  BY <1>9, PromiseEnd DEF Killed, CallsLibrary, At
<1> QED  BY <1>1, <1>2, <1>3, <1>4, <1>5, <1>6, <1>7, <1>8, <1>9 DEF Next

\* Every step of a run is a step of what runs promise, or is not seen.
THEOREM Refinement == MainSpec => ImplementsRunSpec
<1>1. MainInv /\ [MainNext]_allvars => [Promise!Next]_(Promise!vars)
  <2>1. ASSUME MainInv, RunStep PROVE [Promise!Next]_(Promise!vars)
    BY <2>1, MainStepAllowed, ExecuteStepAllowed DEF RunStep, ExecuteStep
  <2>2. ASSUME MainInv, KilledOutside PROVE Promise!Next
    BY <2>2, PromiseEnd DEF KilledOutside
  <2>3. ASSUME NextRun PROVE Promise!Next
    BY <2>3 DEF NextRun, Over, Status, Promise!Next, Promise!NextRun
  <2>4. ASSUME UNCHANGED allvars PROVE UNCHANGED Promise!vars
    BY <2>4, Unseen DEF allvars, vars, files
  <2> QED  BY <2>1, <2>2, <2>3, <2>4 DEF MainNext
<1> QED
  BY <1>1, PromiseStart, MainInvariant, PTL DEF MainSpec, ImplementsRunSpec, Promise!Spec

================================================================================
