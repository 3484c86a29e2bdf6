--------------------------- MODULE CompilationProofs ---------------------------
(***************************************************************************)
(* compileAndLoad() for both libraries, for any algorithms, runs, edits    *)
(* and times.  Three invariants, each inductive together with the ones     *)
(* before it: Typed, for every Environment; Right, for runs that do not    *)
(* overlap; Fresh, for sources that nobody edits during a run.             *)
(*                                                                         *)
(* Fresh holds because a library that is kept is newer than every source   *)
(* it depends on (CompilationInput.cpp:34-41): the comparison is strict,   *)
(* so an edit at the time of the link makes the library stale.             *)
(***************************************************************************)
EXTENDS Compilation, TLAPS

Stages == {"idle", "validate", "check", "write", "clang", "link", "linking",
           "report", "clean", "load", "execute"}
Phases == {"PREPARATION", "COMPILATION", "SETUP", "EXECUTION"}
Verdicts == {"none", "done", "killed", "USER", "SYSTEM"}

\* The clock, the sources and the files in the temporary directory.
FilesOK ==
  /\ now \in 0 .. MaxTime /\ edits \in 0 .. MaxEdits
  /\ source \in [Source -> [version : 0 .. edits, time : 0 .. now, fault : Faults]]
  /\ binary \in [Library -> [build : Build \union {NULL}, time : 0 .. now] \union {NULL}]
  /\ generated \in [Kind -> Library \union {NULL}]
  /\ log \in Run \union {NULL}

\* What each run remembers.
MemoryOK ==
  /\ algorithm \in [Run -> Algorithm \union {NULL}] /\ library \in [Run -> Library]
  /\ build \in [Run -> Build \union {NULL}]
  /\ loaded \in [Run -> [Kind -> Build \union {NULL}]]
  /\ force \in [Run -> BOOLEAN]
  /\ recompile \in [Run -> BOOLEAN] /\ retried \in [Run -> BOOLEAN]
  /\ since \in [Run -> [Source -> 0 .. MaxEdits]]

\* The phase of the configuration at each stage.
PhasesAt(p) ==
  IF p = "idle" THEN {"PREPARATION", "COMPILATION", "SETUP"}
  ELSE IF p = "load" THEN {"COMPILATION", "SETUP"}
  ELSE IF p = "execute" THEN {"EXECUTION"} ELSE {"COMPILATION"}

\* How far each run is.
ProgressOK ==
  /\ pc \in [Run -> Stages] /\ phase \in [Run -> Phases] /\ verdict \in [Run -> Verdicts]
  /\ \A r \in Run : phase[r] \in PhasesAt(pc[r])
  /\ \A r \in Run : pc[r] /= "idle" => algorithm[r] \in Algorithm

Typed == FilesOK /\ MemoryOK /\ ProgressOK

--------------------------------------------------------------------------------
\* No two runs at a time.
Alone == \A r, s \in Run : pc[r] /= "idle" /\ pc[s] /= "idle" => r = s

\* Which of its two libraries a run is about, and what it has loaded so far.
Placed(r) ==
  /\ pc[r] = "idle" => library[r] = "project"
  /\ pc[r] \in {"idle", "validate", "check"} => ~recompile[r] /\ ~retried[r]
  /\ pc[r] /= "idle" => library[r] \in {"project", algorithm[r]}
  /\ library[r] /= "project" => /\ loaded[r]["project"] \in Build
                                /\ loaded[r]["project"].of = "project"
  /\ pc[r] = "execute" => /\ library[r] = algorithm[r]
                          /\ loaded[r]["algorithm"] \in Build
                          /\ loaded[r]["algorithm"].of = library[r]

\* What each stage of compileAndLoad() finds on disk: its own input file, its own
\* log, and the library the stage before it left.
Compiling(r) ==
  /\ pc[r] = "clang" => generated[KindOf(library[r])] = library[r]
  /\ pc[r] \in {"link", "linking"} => build[r] \in Build /\ build[r].of = library[r]
  /\ pc[r] = "report" => log = r
  /\ pc[r] \in {"clean", "load"} => binary[library[r]] /= NULL
  /\ pc[r] = "clean" \/ (pc[r] = "load" /\ (recompile[r] \/ retried[r]))
       => binary[library[r]].build /= NULL

\* A library file is of the library it is named after.
Named == \A l \in Library : binary[l] /= NULL /\ binary[l].build /= NULL => binary[l].build.of = l

Right == Alone /\ Named /\ \A r \in Run : Placed(r) /\ Compiling(r)

\* What clang makes of the sources as they are.
Latest(l) == [of |-> l, version |-> [f \in Dependencies(l) |-> source[f].version],
              complete |-> ~Faulty(Validated(l), {"undefined"})]

\* A library file that is newer than all of its sources was made of them as they are.
FilesFresh ==
  \A l \in Library :
    /\ binary[l] /= NULL /\ binary[l].build /= NULL
    /\ \A f \in Dependencies(l) : source[f].time < binary[l].time
    => binary[l].build = Latest(l)

\* What a run has made, found or loaded is of the sources as they are.
RunFresh(r) ==
  /\ pc[r] /= "idle" => since[r] = [f \in Source |-> source[f].version]
  /\ pc[r] \in {"link", "linking"} => build[r] = Latest(library[r])
  /\ pc[r] = "report" => Faulty(Dependencies(library[r]), {"interface", "code"})
  /\ pc[r] = "clean" => binary[library[r]].build = Latest(library[r])
  /\ pc[r] = "load" => binary[library[r]].build \in {NULL, Latest(library[r])}
  /\ library[r] /= "project" => loaded[r]["project"] = Latest("project")
  /\ pc[r] = "execute" => loaded[r]["algorithm"] = Latest(library[r])

Fresh == FilesFresh /\ \A r \in Run : RunFresh(r)

--------------------------------------------------------------------------------
\* What clang makes is a build.
LEMMA BuildMade ==
  ASSUME NEW l \in Library, NEW v \in [Dependencies(l) -> 0 .. MaxEdits], NEW c \in BOOLEAN
  PROVE  [of |-> l, version |-> v, complete |-> c] \in Build
<1>1. [of |-> l, version |-> v, complete |-> c]
        \in [of : {l}, version : [Dependencies(l) -> 0 .. MaxEdits], complete : BOOLEAN]
  OBVIOUS
<1> QED  BY <1>1 DEF Build

\* The fields of a build.
LEMMA BuildFields ==
  ASSUME NEW b \in Build
  PROVE  /\ b.of \in Library /\ b.version \in [Dependencies(b.of) -> 0 .. MaxEdits]
         /\ b.complete \in BOOLEAN
BY DEF Build

\* NULL is neither a file nor a build.
LEMMA NoFile ==
  /\ NULL \notin Build
  /\ \A b \in Build \union {NULL}, t \in 0 .. MaxTime : [build |-> b, time |-> t] /= NULL
BY CompilationAssumption DEF File

\* What is validated is also depended on.
LEMMA DependenciesAreSources ==
  ASSUME NEW l \in Library
  PROVE  Dependencies(l) \subseteq Source /\ Validated(l) \subseteq Dependencies(l)
BY DEF Dependencies, Validated, Library, Source

\* The ends of a run have the types in common.
LEMMA EndsTyped ==
  ASSUME Typed, NEW r \in Run, NEW how \in Verdicts, Ends(r, how)
  PROVE  /\ MemoryOK' /\ now' = now /\ edits' = edits
         /\ pc' \in [Run -> Stages] /\ verdict' \in [Run -> Verdicts]
         /\ \A s \in Run : pc'[s] /= "idle" => algorithm'[s] \in Algorithm
         /\ pc' = [pc EXCEPT ![r] = "idle"]
<1>1. MemoryOK'
  BY CompilationAssumption DEF Typed, MemoryOK, Ends, Library
<1>2. now' = now /\ edits' = edits
  BY DEF Ends, clock
<1>3. pc' = [pc EXCEPT ![r] = "idle"] /\ pc' \in [Run -> Stages] /\ verdict' \in [Run -> Verdicts]
  BY DEF Typed, ProgressOK, Ends, Goto, Stages
<1>4. \A s \in Run : pc'[s] /= "idle" => algorithm'[s] \in Algorithm
  BY <1>3 DEF Typed, ProgressOK, MemoryOK, Ends
<1> QED  BY <1>1, <1>2, <1>3, <1>4

\* Time passes.
LEMMA TickTyped == ASSUME Typed, Tick PROVE Typed'
<1>1. now' = now + 1 /\ now' \in 0 .. MaxTime
  BY CompilationAssumption DEF Typed, FilesOK, Tick
<1>2. FilesOK'
  <2>1. 0 .. now \subseteq 0 .. now'
    BY <1>1 DEF Typed, FilesOK
  <2> QED  BY <1>1, <2>1 DEF Typed, FilesOK, Tick, disk
<1>3. MemoryOK' /\ ProgressOK'
  BY DEF Typed, MemoryOK, ProgressOK, Tick, command
<1> QED  BY <1>2, <1>3 DEF Typed

\* A new version, of now.
LEMMA EditTyped == ASSUME Typed, NEW f \in Source, NEW fault \in Faults, Edit(f, fault) PROVE Typed'
<1>1. edits' = edits + 1 /\ edits' \in 0 .. MaxEdits
  BY CompilationAssumption DEF Typed, FilesOK, Edit
<1>2. FilesOK'
  <2> DEFINE e == [version |-> source[f].version + 1, time |-> now, fault |-> fault]
  <2>1. source' = [source EXCEPT ![f] = e]
    BY DEF Edit
  <2>2. e \in [version : 0 .. edits', time : 0 .. now, fault : Faults]
    BY <1>1, CompilationAssumption DEF Typed, FilesOK
  <2>3. \A g \in Source : source[g] \in [version : 0 .. edits', time : 0 .. now, fault : Faults]
    BY <1>1 DEF Typed, FilesOK
  <2>4. source' \in [Source -> [version : 0 .. edits', time : 0 .. now, fault : Faults]]
    BY <2>1, <2>2, <2>3 DEF Typed, FilesOK
  <2> QED  BY <1>1, <2>4 DEF Typed, FilesOK, Edit
<1>3. MemoryOK' /\ ProgressOK'
  BY DEF Typed, MemoryOK, ProgressOK, Edit, command
<1> QED  BY <1>2, <1>3 DEF Typed

\* A run begins with nothing loaded.
LEMMA BeginTyped ==
  ASSUME Typed, NEW r \in Run, NEW a \in Algorithm, NEW f \in BOOLEAN, Begin(r, a, f) PROVE Typed'
<1>1. FilesOK'
  BY DEF Typed, FilesOK, Begin, clock, disk
<1>2. MemoryOK'
  <2>1. [s \in Source |-> source[s].version] \in [Source -> 0 .. MaxEdits]
    BY CompilationAssumption DEF Typed, FilesOK
  <2> QED  BY <2>1 DEF Typed, MemoryOK, Begin
<1>3. ProgressOK'
  BY DEF Typed, MemoryOK, ProgressOK, Begin, Goto, SetPhase, Stages, Phases, Verdicts,
     PhasesAt
<1> QED  BY <1>1, <1>2, <1>3 DEF Typed

\* A killed run leaves the disk alone.
LEMMA KillTyped == ASSUME Typed, NEW r \in Run, Kill(r) PROVE Typed'
<1>1. MemoryOK' /\ now' = now /\ edits' = edits /\ pc' \in [Run -> Stages]
      /\ verdict' \in [Run -> Verdicts] /\ pc' = [pc EXCEPT ![r] = "idle"]
      /\ \A s \in Run : pc'[s] /= "idle" => algorithm'[s] \in Algorithm
  BY EndsTyped DEF Kill, Verdicts
<1>2. FilesOK'
  BY <1>1 DEF Typed, FilesOK, Kill, disk
<1>3. ProgressOK'
  BY <1>1 DEF Typed, ProgressOK, Kill, SetPhase, Stages, Phases, PhasesAt
<1> QED  BY <1>1, <1>2, <1>3 DEF Typed

\* A run that is done leaves it too.
LEMMA FinishTyped == ASSUME Typed, NEW r \in Run, Finish(r) PROVE Typed'
<1>1. MemoryOK' /\ now' = now /\ edits' = edits /\ pc' \in [Run -> Stages]
      /\ verdict' \in [Run -> Verdicts] /\ pc' = [pc EXCEPT ![r] = "idle"]
      /\ \A s \in Run : pc'[s] /= "idle" => algorithm'[s] \in Algorithm
  BY EndsTyped DEF Finish, Verdicts
<1>2. FilesOK'
  BY <1>1 DEF Typed, FilesOK, Finish, disk
<1>3. ProgressOK'
  BY <1>1 DEF Typed, ProgressOK, Finish, SetPhase, Stages, Phases, PhasesAt
<1> QED  BY <1>1, <1>2, <1>3 DEF Typed

\* validateSourceFiles() changes no file.
LEMMA ValidateTyped == ASSUME Typed, NEW r \in Run, Validate(r) PROVE Typed'
<1>1. CASE Faulty(Validated(library[r]), {"interface"})
  <2>1. Ends(r, "USER") /\ phase' = phase /\ UNCHANGED disk
    BY <1>1 DEF Validate, Fails
  <2>2. MemoryOK' /\ now' = now /\ edits' = edits /\ pc' \in [Run -> Stages]
        /\ verdict' \in [Run -> Verdicts] /\ pc' = [pc EXCEPT ![r] = "idle"]
        /\ \A s \in Run : pc'[s] /= "idle" => algorithm'[s] \in Algorithm
    BY <2>1, EndsTyped DEF Verdicts
  <2>3. FilesOK'
    BY <2>1, <2>2 DEF Typed, FilesOK, disk
  <2>4. ProgressOK'
    BY <2>1, <2>2 DEF Typed, ProgressOK, Validate, At, Stages, Phases, PhasesAt
  <2> QED  BY <2>2, <2>3, <2>4 DEF Typed
<1>2. CASE ~Faulty(Validated(library[r]), {"interface"})
  <2>1. FilesOK' /\ MemoryOK'
    BY <1>2 DEF Typed, FilesOK, MemoryOK, Validate, clock, disk, command
  <2>2. ProgressOK'
    BY <1>2 DEF Typed, ProgressOK, Validate, At, Goto, command, Stages, PhasesAt
  <2> QED  BY <2>1, <2>2 DEF Typed
<1> QED  BY <1>1, <1>2

\* compilationNeeded(), and -c.
LEMMA CheckTyped == ASSUME Typed, NEW r \in Run, Check(r) PROVE Typed'
<1>1. FilesOK'
  BY DEF Typed, FilesOK, Check, clock, disk
<1>2. MemoryOK'
  <2>1. (force[r] \/ CompilationNeeded(library[r])) \in BOOLEAN
    BY DEF Typed, MemoryOK
  <2> QED  BY <2>1 DEF Typed, MemoryOK, Check, command
<1>3. ProgressOK'
  BY DEF Typed, ProgressOK, Check, At, Goto, SetPhase, command, Stages, Phases, PhasesAt
<1> QED  BY <1>1, <1>2, <1>3 DEF Typed

\* The input file is of one library.
LEMMA WriteTyped == ASSUME Typed, NEW r \in Run, WriteInputFile(r) PROVE Typed'
<1>1. FilesOK'
  BY DEF Typed, FilesOK, MemoryOK, WriteInputFile, Written, KindOf, Kind, clock
<1>2. MemoryOK'
  BY DEF Typed, MemoryOK, WriteInputFile, command
<1>3. ProgressOK'
  BY DEF Typed, ProgressOK, WriteInputFile, At, Goto, command, Stages, PhasesAt
<1> QED  BY <1>1, <1>2, <1>3 DEF Typed

\* What clang reads of a source.
LEMMA Versions ==
  ASSUME Typed, NEW l \in Library
  PROVE  [f \in Dependencies(l) |-> source[f].version] \in [Dependencies(l) -> 0 .. MaxEdits]
BY DependenciesAreSources, CompilationAssumption DEF Typed, FilesOK

\* clang makes a build, or writes the log.
LEMMA ClangTyped == ASSUME Typed, NEW r \in Run, ClangReads(r) PROVE Typed'
<1> DEFINE g == generated[KindOf(library[r])]
           ok == g /= NULL /\ ~Faulty(Dependencies(g), {"interface", "code"})
           b == [of |-> g, version |-> [f \in Dependencies(g) |-> source[f].version],
                 complete |-> ~Faulty(Validated(g), {"undefined"})]
<1>1. At(r, "clang") /\ log' = r /\ build' = [build EXCEPT ![r] = IF ok THEN b ELSE NULL]
      /\ pc' = [pc EXCEPT ![r] = IF ok THEN "link" ELSE "report"]
      /\ UNCHANGED <<clock, source, binary, generated, phase, command, library, recompile,
                     retried, loaded, verdict>>
  BY DEF ClangReads, Goto
<1>2. ok => b \in Build
  <2>1. g \in Library \union {NULL}
    BY DEF Typed, FilesOK, KindOf, Kind
  <2> QED  BY <2>1, Versions, BuildMade
<1>3. FilesOK'
  BY <1>1 DEF Typed, FilesOK, clock
<1>4. MemoryOK'
  <2> HIDE DEF ok, b
  <2> QED  BY <1>1, <1>2 DEF Typed, MemoryOK, command
<1>5. ProgressOK'
  <2> HIDE DEF ok
  <2> QED  BY <1>1 DEF Typed, ProgressOK, At, command, Stages, PhasesAt
<1> QED  BY <1>3, <1>4, <1>5 DEF Typed

\* The linker creates the file before it fills it.
LEMMA LinkBeginsTyped == ASSUME Typed, NEW r \in Run, LinkBegins(r) PROVE Typed'
<1>1. FilesOK'
  <2>1. library[r] \in Library /\ now \in 0 .. now
    BY CompilationAssumption DEF Typed, FilesOK, MemoryOK
  <2> QED  BY <2>1 DEF Typed, FilesOK, LinkBegins, clock
<1>2. MemoryOK'
  BY DEF Typed, MemoryOK, LinkBegins, command
<1>3. ProgressOK'
  BY DEF Typed, ProgressOK, LinkBegins, At, Goto, command, Stages, PhasesAt
<1> QED  BY <1>1, <1>2, <1>3 DEF Typed

\* The file is complete, at a time not after now.
LEMMA LinkEndsTyped == ASSUME Typed, NEW r \in Run, LinkEnds(r) PROVE Typed'
<1>1. FilesOK'
  <2>1. library[r] \in Library /\ now \in 0 .. now /\ build[r] \in Build \union {NULL}
    BY CompilationAssumption DEF Typed, FilesOK, MemoryOK
  <2> QED  BY <2>1 DEF Typed, FilesOK, LinkEnds, clock
<1>2. MemoryOK'
  BY DEF Typed, MemoryOK, LinkEnds, command
<1>3. ProgressOK'
  BY DEF Typed, ProgressOK, LinkEnds, At, Goto, command, Stages, PhasesAt
<1> QED  BY <1>1, <1>2, <1>3 DEF Typed

\* The log has an error of the user.
LEMMA ReportTyped == ASSUME Typed, NEW r \in Run, ReportCompilation(r) PROVE Typed'
<1>1. PICK how \in {"SYSTEM", "USER"} : Ends(r, how) /\ phase' = phase
  BY DEF ReportCompilation, Fails
<1>2. MemoryOK' /\ now' = now /\ edits' = edits /\ pc' \in [Run -> Stages]
      /\ verdict' \in [Run -> Verdicts] /\ pc' = [pc EXCEPT ![r] = "idle"]
      /\ \A s \in Run : pc'[s] /= "idle" => algorithm'[s] \in Algorithm
  BY <1>1, EndsTyped DEF Verdicts
<1>3. FilesOK'
  BY <1>2 DEF Typed, FilesOK, ReportCompilation
<1>4. ProgressOK'
  BY <1>1, <1>2 DEF Typed, ProgressOK, ReportCompilation, At, Stages, PhasesAt
<1> QED  BY <1>2, <1>3, <1>4 DEF Typed

\* The generated files go.
LEMMA CleanTyped == ASSUME Typed, NEW r \in Run, Clean(r) PROVE Typed'
<1>1. FilesOK'
  BY DEF Typed, FilesOK, MemoryOK, Clean, KindOf, Kind, clock
<1>2. MemoryOK'
  BY DEF Typed, MemoryOK, Clean, command
<1>3. ProgressOK'
  BY DEF Typed, ProgressOK, Clean, At, Goto, command, Stages, Phases, PhasesAt
<1> QED  BY <1>1, <1>2, <1>3 DEF Typed

\* A load is tried again once, after a compilation.
LEMMA LoadFailsTyped == ASSUME Typed, NEW r \in Run, LoadFails(r) PROVE Typed'
<1> DEFINE again == binary[library[r]] /= NULL /\ MayRetry(r)
<1>1. CASE again
  <2>1. FilesOK'
    BY <1>1 DEF Typed, FilesOK, LoadFails, clock, disk
  <2>2. MemoryOK'
    BY <1>1 DEF Typed, MemoryOK, LoadFails, command
  <2>3. ProgressOK'
    BY <1>1 DEF Typed, ProgressOK, LoadFails, At, Goto, SetPhase, command, Stages, Phases,
       PhasesAt
  <2> QED  BY <2>1, <2>2, <2>3 DEF Typed
<1>2. CASE ~again
  <2>1. Ends(r, "SYSTEM") /\ UNCHANGED disk
        /\ phase' = [phase EXCEPT ![r] = IF binary[library[r]] = NULL THEN @ ELSE "SETUP"]
    BY <1>2 DEF LoadFails
  <2>2. MemoryOK' /\ now' = now /\ edits' = edits /\ pc' \in [Run -> Stages]
        /\ verdict' \in [Run -> Verdicts] /\ pc' = [pc EXCEPT ![r] = "idle"]
        /\ \A s \in Run : pc'[s] /= "idle" => algorithm'[s] \in Algorithm
    BY <2>1, EndsTyped DEF Verdicts
  <2>3. FilesOK'
    BY <2>1, <2>2 DEF Typed, FilesOK, disk
  <2>4. ProgressOK'
    BY <2>1, <2>2 DEF Typed, ProgressOK, LoadFails, At, Stages, Phases, PhasesAt
  <2> QED  BY <2>2, <2>3, <2>4 DEF Typed
<1> QED  BY <1>1, <1>2

\* What is loaded is in the file.
LEMMA LoadTyped == ASSUME Typed, NEW r \in Run, Load(r) PROVE Typed'
<1>1. At(r, "load") /\ algorithm[r] \in Algorithm /\ library[r] \in Library
      /\ binary[library[r]].build \in Build
  BY DEF Typed, FilesOK, MemoryOK, ProgressOK, Load, Loads, At
<1>2. FilesOK'
  BY DEF Typed, FilesOK, Load, clock, disk
<1>3. MemoryOK'
  BY <1>1 DEF Typed, MemoryOK, Load, command, Library, KindOf, Kind
<1>4. ProgressOK'
  BY <1>1 DEF Typed, ProgressOK, Load, At, Goto, SetPhase, PhaseAfter, command, Stages,
     Phases, PhasesAt
<1> QED  BY <1>2, <1>3, <1>4 DEF Typed

\* Every step keeps the types, in every environment.
LEMMA NextTyped == Typed /\ [Next]_vars => Typed'
<1> SUFFICES ASSUME Typed, [Next]_vars PROVE Typed'
  OBVIOUS
<1>1. CASE Tick
  BY <1>1, TickTyped
<1>2. ASSUME NEW f \in Source, NEW fault \in Faults, Edit(f, fault) PROVE Typed'
  BY <1>2, EditTyped
<1>3. ASSUME NEW r \in Run, NEW a \in Algorithm, NEW f \in BOOLEAN, Begin(r, a, f) PROVE Typed'
  BY <1>3, BeginTyped
<1>4. ASSUME NEW r \in Run, Kill(r) PROVE Typed'
  BY <1>4, KillTyped
<1>5. ASSUME NEW r \in Run, Step(r) PROVE Typed'
  BY <1>5, ValidateTyped, CheckTyped, WriteTyped, ClangTyped, LinkBeginsTyped,
     LinkEndsTyped,
     ReportTyped, CleanTyped, LoadFailsTyped, LoadTyped, FinishTyped DEF Step
<1>6. CASE UNCHANGED vars
  BY <1>6 DEF Typed, FilesOK, MemoryOK, ProgressOK, vars, clock, disk, command
<1> QED  BY <1>1, <1>2, <1>3, <1>4, <1>5, <1>6 DEF Next

\* And the program starts with them.
LEMMA InitTyped == Init => Typed
<1> SUFFICES ASSUME Init PROVE Typed
  OBVIOUS
<1>1. FilesOK
  BY CompilationAssumption DEF Init, FilesOK, Faults
<1>2. MemoryOK
  BY CompilationAssumption DEF Init, MemoryOK, Library
<1>3. ProgressOK
  BY DEF Init, ProgressOK, Stages, Phases, Verdicts, PhasesAt
<1> QED  BY <1>1, <1>2, <1>3 DEF Typed

\* They are the types a run checks.
LEMMA TypedMeans == Typed => TypeOK
<1> SUFFICES ASSUME Typed PROVE TypeOK
  OBVIOUS
<1>1. now \in 0 .. MaxTime /\ edits \in 0 .. MaxEdits
      /\ generated \in [Kind -> Library \union {NULL}] /\ log \in Run \union {NULL}
  BY DEF Typed, FilesOK
<1>2. source \in [Source -> [version : 0 .. MaxEdits, time : 0 .. MaxTime, fault : Faults]]
  BY CompilationAssumption DEF Typed, FilesOK
<1>3. \A l \in Library : binary[l] \in File \union {NULL}
  BY CompilationAssumption DEF Typed, FilesOK, File
<1>4. ASSUME NEW r \in Run
      PROVE  phase[r] \in CASE pc[r] = "idle" -> {"PREPARATION", "COMPILATION", "SETUP"}
                            [] pc[r] = "load" -> {"COMPILATION", "SETUP"}
                            [] pc[r] = "execute" -> {"EXECUTION"}
                            [] OTHER -> {"COMPILATION"}
  <2>1. phase[r] \in PhasesAt(pc[r])
    BY DEF Typed, ProgressOK
  <2> QED  BY <2>1, Zenon DEF PhasesAt
<1>5. ASSUME NEW r \in Run
      PROVE  /\ pc[r] \in Stages
             /\ build[r] \in Build \union {NULL}
             /\ loaded[r] \in [Kind -> Build \union {NULL}]
             /\ algorithm[r] \in Algorithm \union {NULL} /\ library[r] \in Library
  BY DEF Typed, MemoryOK, ProgressOK
<1>6. /\ force \in [Run -> BOOLEAN]
      /\ recompile \in [Run -> BOOLEAN] /\ retried \in [Run -> BOOLEAN]
      /\ verdict \in [Run -> Verdicts] /\ since \in [Run -> [Source -> 0 .. MaxEdits]]
  BY DEF Typed, MemoryOK, ProgressOK
<1> QED  BY <1>1, <1>2, <1>3, <1>4, <1>5, <1>6, Zenon DEF TypeOK, Stages, Verdicts

\* Types, for any overlapping runs, edits and kills.
THEOREM CompilationTyped == Spec => []TypeOK
BY InitTyped, NextTyped, TypedMeans, PTL DEF Spec

--------------------------------------------------------------------------------
\* A run that has not begun does not mind.
LEMMA IdleStays ==
  ASSUME NEW s, Placed(s), pc[s] = "idle", pc'[s] = "idle",
         library'[s] = library[s], recompile'[s] = recompile[s], retried'[s] = retried[s]
  PROVE  Placed(s)' /\ Compiling(s)'
BY DEF Placed, Compiling

\* No other run is there to mind what a run does.
LEMMA OthersStay ==
  ASSUME Right, NEW r \in Run, pc[r] /= "idle",
         \A s \in Run \ {r} : /\ pc'[s] = pc[s] /\ library'[s] = library[s]
                              /\ recompile'[s] = recompile[s] /\ retried'[s] = retried[s]
  PROVE  Alone' /\ \A s \in Run \ {r} : Placed(s)' /\ Compiling(s)'
<1>1. \A s \in Run \ {r} : pc[s] = "idle"
  BY DEF Right, Alone
<1>2. Alone'
  BY <1>1 DEF Alone
<1>3. \A s \in Run \ {r} : Placed(s)' /\ Compiling(s)'
  BY <1>1, IdleStays DEF Right
<1> QED  BY <1>2, <1>3

\* A run ends as it began.
LEMMA EndsRight ==
  ASSUME Typed, Right, NEW r \in Run, pc[r] /= "idle", NEW how, Ends(r, how), binary' = binary
  PROVE  Right'
<1>1. /\ pc'[r] = "idle" /\ library'[r] = "project" /\ ~recompile'[r] /\ ~retried'[r]
      /\ \A s \in Run \ {r} : /\ pc'[s] = pc[s] /\ library'[s] = library[s]
                              /\ recompile'[s] = recompile[s] /\ retried'[s] = retried[s]
  BY DEF Typed, MemoryOK, ProgressOK, Ends, Goto
<1>2. Placed(r)' /\ Compiling(r)'
  BY <1>1 DEF Placed, Compiling
<1>3. Named'
  BY DEF Right, Named
<1> QED  BY <1>1, <1>2, <1>3, OthersStay DEF Right

\* Steps that change no library and no run.
LEMMA QuietRight ==
  ASSUME Right, binary' = binary, pc' = pc, library' = library, recompile' = recompile,
         retried' = retried, algorithm' = algorithm, loaded' = loaded, generated' = generated,
         build' = build, log' = log
  PROVE  Right'
BY DEF Right, Alone, Placed, Compiling, Named

\* A run that begins is the only one.
LEMMA BeginRight ==
  ASSUME "alongside" \notin Environment, Typed, Right,
         NEW r \in Run, NEW a \in Algorithm, NEW f \in BOOLEAN, Begin(r, a, f)
  PROVE  Right'
<1>1. Quiet /\ pc' = [pc EXCEPT ![r] = "validate"]
      /\ UNCHANGED <<library, recompile, retried, binary>>
  BY DEF Begin, Goto, disk
<1>2. \A s \in Run \ {r} : pc'[s] = "idle" /\ pc[s] = "idle"
  BY <1>1 DEF Quiet, Typed, ProgressOK
<1>3. pc'[r] = "validate" /\ library[r] = "project" /\ ~recompile[r] /\ ~retried[r]
  BY <1>1 DEF Quiet, Typed, ProgressOK, Right, Placed
<1>4. Alone'
  BY <1>2 DEF Alone
<1>5. \A s \in Run \ {r} : Placed(s)' /\ Compiling(s)'
  BY <1>1, <1>2, IdleStays DEF Right
<1>6. Placed(r)' /\ Compiling(r)'
  BY <1>1, <1>3 DEF Placed, Compiling
<1>7. Named'
  BY <1>1 DEF Right, Named
<1> QED  BY <1>4, <1>5, <1>6, <1>7 DEF Right

\* validateSourceFiles() changes no library.
LEMMA ValidateRight == ASSUME Typed, Right, NEW r \in Run, Validate(r) PROVE Right'
<1>1. CASE Faulty(Validated(library[r]), {"interface"})
  BY <1>1, EndsRight DEF Validate, Fails, At, disk
<1>2. CASE ~Faulty(Validated(library[r]), {"interface"})
  <2>1. pc[r] = "validate" /\ pc' = [pc EXCEPT ![r] = "check"]
        /\ UNCHANGED <<disk, command, library, recompile, retried, loaded>>
    BY <1>2 DEF Validate, At, Goto
  <2>2. Placed(r)' /\ Compiling(r)'
    BY <2>1 DEF Typed, ProgressOK, Right, Placed, Compiling, command
  <2>3. Named'
    BY <2>1 DEF Right, Named, disk
  <2> QED  BY <2>1, <2>2, <2>3, OthersStay DEF Right, Typed, ProgressOK
<1> QED  BY <1>1, <1>2

\* compilationNeeded() finds the file that is loaded next.
LEMMA CheckRight == ASSUME Typed, Right, NEW r \in Run, Check(r) PROVE Right'
<1> DEFINE need == force[r] \/ CompilationNeeded(library[r])
<1>1. pc[r] = "check" /\ recompile' = [recompile EXCEPT ![r] = need]
      /\ pc' = [pc EXCEPT ![r] = IF recompile'[r] THEN "write" ELSE "load"]
      /\ UNCHANGED <<disk, command, library, retried, loaded>>
  BY DEF Check, At, Goto
<1>2. recompile'[r] = need /\ \A s \in Run \ {r} : recompile'[s] = recompile[s]
  BY <1>1 DEF Typed, MemoryOK
<1>3. Placed(r)'
  BY <1>1 DEF Typed, ProgressOK, Right, Placed, command
<1>4. ~need => binary[library[r]] /= NULL
  BY DEF CompilationNeeded
<1>5. Compiling(r)'
  <2>1. CASE need
    BY <1>1, <1>2, <2>1 DEF Typed, ProgressOK, Compiling
  <2>2. CASE ~need
    BY <1>1, <1>2, <1>4, <2>2 DEF Typed, ProgressOK, Compiling, disk, Right, Placed
  <2> QED  BY <2>1, <2>2
<1>6. Named'
  BY <1>1 DEF Right, Named, disk
<1> QED  BY <1>1, <1>2, <1>3, <1>5, <1>6, OthersStay DEF Right, Typed, ProgressOK

\* The input file is that of the library of this run.
LEMMA WriteRight == ASSUME Typed, Right, NEW r \in Run, WriteInputFile(r) PROVE Right'
<1>1. pc[r] = "write" /\ pc' = [pc EXCEPT ![r] = "clang"]
      /\ generated' = [generated EXCEPT ![KindOf(library[r])] = library[r]]
      /\ UNCHANGED <<binary, command, library, recompile, retried, loaded>>
  BY DEF WriteInputFile, At, Goto, Written
<1>2. Placed(r)'
  BY <1>1 DEF Typed, ProgressOK, Right, Placed, command
<1>3. generated'[KindOf(library[r])] = library[r]
  BY <1>1 DEF Typed, FilesOK, KindOf, Kind
<1>4. Compiling(r)'
  BY <1>1, <1>3 DEF Typed, ProgressOK, Compiling
<1>5. Named'
  BY <1>1 DEF Right, Named
<1> QED  BY <1>1, <1>2, <1>4, <1>5, OthersStay DEF Right, Typed, ProgressOK

\* clang makes a build of the library it is asked for.
LEMMA LatestIsBuild == ASSUME Typed, NEW l \in Library PROVE Latest(l) \in Build /\ Latest(l).of = l
BY Versions, BuildMade DEF Latest

\* clang makes a build of the library of this run, or writes its log.
LEMMA ClangRight ==
  ASSUME Typed, Right, NEW r \in Run, ClangReads(r)
  PROVE  /\ Right'
         /\ build'[r] = IF Faulty(Dependencies(library[r]), {"interface", "code"})
                        THEN NULL ELSE Latest(library[r])
         /\ pc'[r] = IF Faulty(Dependencies(library[r]), {"interface", "code"})
                     THEN "report" ELSE "link"
<1> DEFINE l == library[r]
           bad == Faulty(Dependencies(l), {"interface", "code"})
<1>1. pc[r] = "clang" /\ generated[KindOf(l)] = l /\ l \in Library /\ l /= NULL
  BY CompilationAssumption DEF ClangReads, At, Right, Compiling, Typed, MemoryOK
<1>2. /\ log' = r
      /\ build' = [build EXCEPT ![r] = IF bad THEN NULL ELSE Latest(l)]
      /\ pc' = [pc EXCEPT ![r] = IF bad THEN "report" ELSE "link"]
      /\ UNCHANGED <<binary, command, library, recompile, retried, loaded>>
  BY <1>1 DEF ClangReads, Goto, Latest
<1>3. build'[r] = (IF bad THEN NULL ELSE Latest(l)) /\ pc'[r] = IF bad THEN "report" ELSE "link"
  BY <1>2 DEF Typed, MemoryOK, ProgressOK
<1>4. Placed(r)'
  BY <1>1, <1>2, <1>3 DEF Right, Placed, command
<1>5. Compiling(r)'
  <2> HIDE DEF bad
  <2> QED  BY <1>1, <1>2, <1>3, LatestIsBuild DEF Compiling
<1>6. Named'
  BY <1>2 DEF Right, Named
<1>7. \A s \in Run \ {r} : pc'[s] = pc[s]
  BY <1>2 DEF Typed, ProgressOK
<1> QED  BY <1>1, <1>2, <1>3, <1>4, <1>5, <1>6, <1>7, OthersStay DEF Right

\* An empty file is of no library.
LEMMA LinkBeginsRight ==
  ASSUME Typed, Right, NEW r \in Run, LinkBegins(r)
  PROVE  Right'
<1> DEFINE file == [build |-> NULL, time |-> now]
<1>1. pc[r] = "link" /\ pc' = [pc EXCEPT ![r] = "linking"]
      /\ binary' = [binary EXCEPT ![library[r]] = file]
      /\ UNCHANGED <<command, library, recompile, retried, loaded, build>>
  BY DEF LinkBegins, At, Goto
<1>2. Placed(r)' /\ Compiling(r)'
  BY <1>1 DEF Typed, ProgressOK, Right, Placed, Compiling, command
<1>3. Named'
  BY <1>1 DEF Right, Named, Typed, FilesOK
<1> QED  BY <1>1, <1>2, <1>3, OthersStay DEF Right, Typed, ProgressOK

\* The complete file is of the library of this run.
LEMMA LinkEndsRight ==
  ASSUME Typed, Right, NEW r \in Run, LinkEnds(r)
  PROVE  Right' /\ binary'[library[r]] = [build |-> build[r], time |-> now]
<1> DEFINE l == library[r]
           file == [build |-> build[r], time |-> now]
<1>1. pc[r] = "linking" /\ pc' = [pc EXCEPT ![r] = "clean"]
      /\ binary' = [binary EXCEPT ![l] = file]
      /\ UNCHANGED <<command, library, recompile, retried, loaded>>
  BY DEF LinkEnds, At, Goto
<1>2. build[r] \in Build /\ build[r].of = l /\ l \in Library
  BY <1>1 DEF Right, Compiling, Typed, MemoryOK
<1>3. binary'[l] = file /\ \A m \in Library \ {l} : binary'[m] = binary[m]
  BY <1>1, <1>2 DEF Typed, FilesOK
<1>4. file /= NULL /\ file.build /= NULL
  BY <1>2, NoFile, CompilationAssumption DEF Typed, FilesOK
<1>5. Placed(r)'
  BY <1>1 DEF Typed, ProgressOK, Right, Placed, command
<1>6. Compiling(r)'
  <2> HIDE DEF file
  <2> QED  BY <1>1, <1>3, <1>4 DEF Typed, ProgressOK, Compiling
<1>7. Named'
  BY <1>2, <1>3 DEF Right, Named
<1>8. Alone' /\ \A s \in Run \ {r} : Placed(s)' /\ Compiling(s)'
  BY <1>1, OthersStay DEF Typed, ProgressOK
<1> QED  BY <1>3, <1>5, <1>6, <1>7, <1>8 DEF Right

\* The generated files go, the library stays.
LEMMA CleanRight == ASSUME Typed, Right, NEW r \in Run, Clean(r) PROVE Right'
<1>1. pc[r] = "clean" /\ pc' = [pc EXCEPT ![r] = "load"]
      /\ UNCHANGED <<binary, command, library, recompile, retried, loaded>>
  BY DEF Clean, At, Goto
<1>2. Placed(r)' /\ Compiling(r)'
  BY <1>1 DEF Typed, ProgressOK, Right, Placed, Compiling, command
<1>3. Named'
  BY <1>1 DEF Right, Named
<1> QED  BY <1>1, <1>2, <1>3, OthersStay DEF Right, Typed, ProgressOK

\* What failed to load is compiled again, once.
LEMMA LoadFailsRight == ASSUME Typed, Right, NEW r \in Run, LoadFails(r) PROVE Right'
<1> DEFINE again == binary[library[r]] /= NULL /\ MayRetry(r)
<1>1. CASE again
  <2>1. pc[r] = "load" /\ pc' = [pc EXCEPT ![r] = "write"]
        /\ retried' = [retried EXCEPT ![r] = TRUE]
        /\ UNCHANGED <<disk, command, library, recompile, loaded>>
    BY <1>1 DEF LoadFails, At, Goto
  <2>2. Placed(r)' /\ Compiling(r)'
    BY <2>1 DEF Typed, ProgressOK, Right, Placed, Compiling, command
  <2>3. Named'
    BY <2>1 DEF Right, Named, disk
  <2> QED  BY <2>1, <2>2, <2>3, OthersStay DEF Right, Typed, ProgressOK, MemoryOK
<1>2. CASE ~again
  BY <1>2, EndsRight DEF LoadFails, At, disk
<1> QED  BY <1>1, <1>2

\* What is loaded is of the library of this run.
LEMMA LoadRight ==
  ASSUME Typed, Right, NEW r \in Run, Load(r)
  PROVE  /\ Right' /\ library'[r] = algorithm[r]
         /\ loaded'[r][KindOf(library[r])] = binary[library[r]].build
         /\ library[r] /= "project" => loaded'[r]["project"] = loaded[r]["project"]
<1> DEFINE l == library[r]
           b == binary[l].build
<1>1. /\ pc[r] = "load" /\ l \in Library /\ algorithm[r] \in Algorithm
      /\ l \in {"project", algorithm[r]}
      /\ b \in Build /\ b.of = l
  BY DEF Load, Loads, At, Typed, FilesOK, MemoryOK, ProgressOK, Right, Placed, Named
<1>2. /\ loaded' = [loaded EXCEPT ![r][KindOf(l)] = b]
      /\ library' = [library EXCEPT ![r] = algorithm[r]]
      /\ recompile' = [recompile EXCEPT ![r] = FALSE]
      /\ retried' = [retried EXCEPT ![r] = FALSE]
      /\ pc' = [pc EXCEPT ![r] = IF l = "project" THEN "validate" ELSE "execute"]
      /\ UNCHANGED <<disk, command>>
  BY DEF Load, Goto
<1>3. /\ library'[r] = algorithm[r] /\ ~recompile'[r] /\ ~retried'[r]
      /\ pc'[r] = (IF l = "project" THEN "validate" ELSE "execute")
      /\ algorithm'[r] = algorithm[r]
      /\ loaded'[r][KindOf(l)] = b
      /\ l /= "project" => loaded'[r]["project"] = loaded[r]["project"]
  BY <1>2 DEF Typed, MemoryOK, ProgressOK, KindOf, Kind, command
<1>4. Placed(r)'
  <2> HIDE DEF b
  <2> QED  BY <1>1, <1>3, CompilationAssumption DEF Right, Placed, KindOf
<1>5. Compiling(r)'
  BY <1>3 DEF Compiling
<1>6. Named'
  BY <1>2 DEF Right, Named, disk
<1>7. Alone' /\ \A s \in Run \ {r} : Placed(s)' /\ Compiling(s)'
  BY <1>1, <1>2, OthersStay DEF Typed, MemoryOK, ProgressOK
<1> QED  BY <1>3, <1>4, <1>5, <1>6, <1>7 DEF Right

\* Every step keeps a run about its own libraries, unless another runs alongside.
LEMMA NextRight ==
  ASSUME "alongside" \notin Environment, Typed, Right, [Next]_vars
  PROVE  Right'
<1>1. CASE Tick \/ \E f \in Source, fault \in Faults : Edit(f, fault)
  BY <1>1, QuietRight DEF Tick, Edit, disk, command
<1>2. ASSUME NEW r \in Run, NEW a \in Algorithm, NEW f \in BOOLEAN, Begin(r, a, f) PROVE Right'
  BY <1>2, BeginRight
<1>3. ASSUME NEW r \in Run, Kill(r) \/ Finish(r) \/ ReportCompilation(r) PROVE Right'
  BY <1>3, EndsRight DEF Kill, Finish, ReportCompilation, Fails, At, disk
<1>4. ASSUME NEW r \in Run, Step(r) PROVE Right'
  BY <1>3, <1>4, ValidateRight, CheckRight, WriteRight, ClangRight, LinkBeginsRight,
     LinkEndsRight, CleanRight, LoadFailsRight, LoadRight DEF Step
<1>5. CASE UNCHANGED vars
  BY <1>5, QuietRight DEF vars, disk, command
<1> QED  BY <1>1, <1>2, <1>3, <1>4, <1>5 DEF Next

\* No run has begun.
LEMMA InitRight == Init => Right
BY DEF Init, Right, Alone, Named, Placed, Compiling

\* A run executes what it was asked for.
LEMMA RightMeans == Typed /\ Right => RightLibrary
BY CompilationAssumption DEF Typed, ProgressOK, Right, Placed, RightLibrary, At

\* A run executes the algorithm it was asked for, whatever runs before it left,
\* finished or killed, as long as no other runs alongside
\* (Compilation.hpp, AlgorithmCompilationInput.cpp).
THEOREM LibrariesRight == ASSUME "alongside" \notin Environment PROVE Spec => []RightLibrary
BY InitTyped, NextTyped, InitRight, NextRight, RightMeans, PTL DEF Spec

--------------------------------------------------------------------------------
\* Sources that stay are compiled to the same.
LEMMA LatestStays ==
  ASSUME source' = source
  PROVE  /\ \A l : Latest(l)' = Latest(l)
         /\ \A F, faults : Faulty(F, faults)' <=> Faulty(F, faults)
BY DEF Latest, Faulty, Dependencies, Validated

\* And libraries that stay are as fresh as before.
LEMMA FilesStayFresh == ASSUME Fresh, source' = source, binary' = binary PROVE FilesFresh'
BY LatestStays DEF Fresh, FilesFresh

\* No other run is there to hold something older.
LEMMA OthersFresh ==
  ASSUME Right, NEW r \in Run, pc[r] /= "idle",
         \A s \in Run \ {r} : pc'[s] = pc[s] /\ library'[s] = library[s]
  PROVE  \A s \in Run \ {r} : RunFresh(s)'
BY DEF Right, Alone, Placed, RunFresh

\* A run that ends leaves fresh files.
LEMMA EndsFresh ==
  ASSUME Typed, Right, Fresh, NEW r \in Run, pc[r] /= "idle", NEW how, Ends(r, how),
         source' = source, binary' = binary
  PROVE  Fresh'
<1>1. /\ pc'[r] = "idle" /\ library'[r] = "project"
      /\ \A s \in Run \ {r} : pc'[s] = pc[s] /\ library'[s] = library[s]
  BY DEF Typed, MemoryOK, ProgressOK, Ends, Goto
<1>2. RunFresh(r)'
  BY <1>1 DEF RunFresh
<1> QED  BY <1>1, <1>2, OthersFresh, FilesStayFresh DEF Fresh

\* Steps that change no library and no source.
LEMMA QuietFresh ==
  ASSUME Fresh, source' = source, binary' = binary, pc' = pc, library' = library,
         loaded' = loaded, build' = build, since' = since
  PROVE  Fresh'
<1>1. \A r \in Run : RunFresh(r)'
  BY LatestStays, Zenon DEF Fresh, RunFresh, Dependencies
<1> QED  BY <1>1, FilesStayFresh DEF Fresh

\* An edit makes every library stale that depends on it.
LEMMA EditFresh ==
  ASSUME Environment = {}, Typed, Right, Fresh,
         NEW f \in Source, NEW fault \in Faults, Edit(f, fault)
  PROVE  Fresh'
<1> DEFINE e == [version |-> source[f].version + 1, time |-> now, fault |-> fault]
<1>1. Quiet /\ source' = [source EXCEPT ![f] = e] /\ UNCHANGED <<binary, pc, library>>
  BY DEF Edit
<1>2. source'[f].time = now /\ \A g \in Source \ {f} : source'[g] = source[g]
  BY <1>1 DEF Typed, FilesOK
<1>3. ASSUME NEW l \in Library, binary[l] /= NULL, binary[l].build /= NULL,
             \A g \in Dependencies(l) : source'[g].time < binary[l].time
      PROVE  binary[l].build = Latest(l)'
  <2>1. binary[l].time \in 0 .. now
    BY <1>3 DEF Typed, FilesOK
  <2>2. f \notin Dependencies(l)
    BY <1>2, <1>3, <2>1 DEF Typed, FilesOK
  <2>3. \A g \in Dependencies(l) : source'[g] = source[g]
    BY <1>2, <2>2, DependenciesAreSources
  <2>4. binary[l].build = Latest(l)
    BY <1>3, <2>3 DEF Fresh, FilesFresh
  <2>5. [g \in Dependencies(l) |-> source'[g].version] =
          [g \in Dependencies(l) |-> source[g].version]
    BY <2>3
  <2>6. Faulty(Validated(l), {"undefined"})' <=> Faulty(Validated(l), {"undefined"})
    BY <2>3, DependenciesAreSources DEF Faulty
  <2> QED  BY <2>4, <2>5, <2>6 DEF Latest, Dependencies, Validated
<1>4. FilesFresh'
  BY <1>1, <1>3 DEF FilesFresh, Dependencies
<1>5. \A r \in Run : RunFresh(r)'
  BY <1>1 DEF Quiet, Right, Placed, RunFresh
<1> QED  BY <1>4, <1>5 DEF Fresh

\* It sees the sources as they are.
LEMMA BeginFresh ==
  ASSUME Environment = {}, Typed, Right, Fresh,
         NEW r \in Run, NEW a \in Algorithm, NEW f \in BOOLEAN, Begin(r, a, f)
  PROVE  Fresh'
<1>1. /\ Quiet /\ pc' = [pc EXCEPT ![r] = "validate"]
      /\ since' = [since EXCEPT ![r] = [s \in Source |-> source[s].version]]
      /\ UNCHANGED <<source, binary, library>>
  BY DEF Begin, Goto, disk
<1>2. \A s \in Run : library'[s] = "project"
  BY <1>1 DEF Quiet, Right, Placed
<1>3. /\ pc'[r] = "validate" /\ since'[r] = [s \in Source |-> source'[s].version]
      /\ \A s \in Run \ {r} : pc'[s] = "idle"
  BY <1>1 DEF Quiet, Typed, MemoryOK, ProgressOK
<1>4. \A s \in Run : RunFresh(s)'
  BY <1>2, <1>3 DEF RunFresh
<1> QED  BY <1>1, <1>4, FilesStayFresh DEF Fresh

\* Nor any source.
LEMMA ValidateFresh == ASSUME Typed, Right, Fresh, NEW r \in Run, Validate(r) PROVE Fresh'
<1>1. CASE Faulty(Validated(library[r]), {"interface"})
  BY <1>1, EndsFresh DEF Validate, Fails, At, disk
<1>2. CASE ~Faulty(Validated(library[r]), {"interface"})
  <2>1. pc[r] = "validate" /\ pc' = [pc EXCEPT ![r] = "check"]
        /\ UNCHANGED <<source, binary, library, since, loaded>>
    BY <1>2 DEF Validate, At, Goto, disk, command
  <2>2. RunFresh(r)'
    BY <2>1, LatestStays DEF Typed, ProgressOK, Fresh, RunFresh
  <2> QED  BY <2>1, <2>2, OthersFresh, FilesStayFresh DEF Fresh, Typed, ProgressOK
<1> QED  BY <1>1, <1>2

\* A library that is kept is newer than its sources.
LEMMA CheckFresh == ASSUME Typed, Right, Fresh, NEW r \in Run, Check(r) PROVE Fresh'
<1> DEFINE l == library[r]
<1>1. /\ pc[r] = "check" /\ recompile' = [recompile EXCEPT ![r] = force[r] \/ CompilationNeeded(l)]
      /\ pc' = [pc EXCEPT ![r] = IF recompile'[r] THEN "write" ELSE "load"]
      /\ UNCHANGED <<source, binary, library, since, loaded>>
  BY DEF Check, At, Goto, disk, command
<1>2. ASSUME ~CompilationNeeded(l) PROVE binary[l].build \in {NULL, Latest(l)}
  <2>1. l \in Library /\ binary[l] /= NULL
    BY <1>2 DEF CompilationNeeded, Typed, MemoryOK
  <2>2. binary[l].time \in Nat /\ \A f \in Dependencies(l) : source[f].time \in Nat
    BY <2>1, DependenciesAreSources, CompilationAssumption DEF Typed, FilesOK
  <2>3. \A f \in Dependencies(l) : source[f].time < binary[l].time
    BY <1>2, <2>2 DEF CompilationNeeded
  <2> QED  BY <2>1, <2>3 DEF Fresh, FilesFresh
<1>3. pc'[r] = "load" => ~CompilationNeeded(l)
  BY <1>1 DEF Typed, MemoryOK, ProgressOK
<1>4. RunFresh(r)'
  BY <1>1, <1>2, <1>3, LatestStays DEF Typed, ProgressOK, Fresh, RunFresh
<1> QED  BY <1>1, <1>4, OthersFresh, FilesStayFresh DEF Fresh, Typed, ProgressOK

\* The input file includes the sources, which stay.
LEMMA WriteFresh == ASSUME Typed, Right, Fresh, NEW r \in Run, WriteInputFile(r) PROVE Fresh'
<1>1. pc[r] = "write" /\ pc' = [pc EXCEPT ![r] = "clang"]
      /\ UNCHANGED <<source, binary, library, since, loaded>>
  BY DEF WriteInputFile, At, Goto, command
<1>2. RunFresh(r)'
  BY <1>1, LatestStays DEF Typed, ProgressOK, Fresh, RunFresh
<1> QED  BY <1>1, <1>2, OthersFresh, FilesStayFresh DEF Fresh, Typed, ProgressOK

\* clang makes a build of the sources as they are.
LEMMA ClangFresh == ASSUME Typed, Right, Fresh, NEW r \in Run, ClangReads(r) PROVE Fresh'
<1> DEFINE bad == Faulty(Dependencies(library[r]), {"interface", "code"})
<1>1. /\ pc[r] = "clang" /\ UNCHANGED <<source, binary, library, since, loaded>>
      /\ \A s \in Run \ {r} : pc'[s] = pc[s]
  BY DEF ClangReads, At, Goto, command, Typed, ProgressOK
<1>2. pc'[r] = (IF bad THEN "report" ELSE "link") /\ (~bad => build'[r] = Latest(library[r]))
  BY ClangRight
<1>3. bad' <=> bad
  BY <1>1 DEF Faulty, Dependencies
<1>4. RunFresh(r)'
  <2> HIDE DEF bad
  <2>1. CASE bad
    <3>1. Faulty(Dependencies(library[r]), {"interface", "code"})'
      BY <1>3, <2>1 DEF bad
    <3> QED  BY <1>1, <1>2, <2>1, <3>1, LatestStays DEF Fresh, RunFresh
  <2>2. CASE ~bad
    BY <1>1, <1>2, <2>2, LatestStays DEF Fresh, RunFresh
  <2> QED  BY <2>1, <2>2
<1> QED  BY <1>1, <1>4, OthersFresh, FilesStayFresh DEF Fresh

\* An empty file was made of nothing.
LEMMA LinkBeginsFresh == ASSUME Typed, Right, Fresh, NEW r \in Run, LinkBegins(r) PROVE Fresh'
<1>1. pc[r] = "link" /\ pc' = [pc EXCEPT ![r] = "linking"]
      /\ binary' = [binary EXCEPT ![library[r]] = [build |-> NULL, time |-> now]]
      /\ UNCHANGED <<source, library, since, loaded, build>>
  BY DEF LinkBegins, At, Goto, command
<1>2. RunFresh(r)'
  BY <1>1, LatestStays DEF Typed, ProgressOK, Fresh, RunFresh
<1>3. FilesFresh'
  <2>1. \A l \in Library : binary'[l] = binary[l] \/ binary'[l].build = NULL
    BY <1>1 DEF Typed, FilesOK
  <2> QED  BY <1>1, <2>1, LatestStays DEF Fresh, FilesFresh
<1> QED  BY <1>1, <1>2, <1>3, OthersFresh DEF Fresh, Typed, ProgressOK

\* The complete file was made of the sources as they are.
LEMMA LinkEndsFresh == ASSUME Typed, Right, Fresh, NEW r \in Run, LinkEnds(r) PROVE Fresh'
<1> DEFINE l == library[r]
<1>1. pc[r] = "linking" /\ pc' = [pc EXCEPT ![r] = "clean"]
      /\ UNCHANGED <<source, library, since, loaded>>
  BY DEF LinkEnds, At, Goto, command
<1>2. binary'[l] = [build |-> build[r], time |-> now] /\ build[r] = Latest(l)
  BY <1>1, LinkEndsRight DEF Fresh, RunFresh
<1>3. \A m \in Library \ {l} : binary'[m] = binary[m]
  BY DEF LinkEnds, Typed, FilesOK
<1>4. binary'[l].build = Latest(l)
  BY <1>2
<1>5. RunFresh(r)'
  BY <1>1, <1>4, LatestStays DEF Typed, ProgressOK, Fresh, RunFresh
<1>6. FilesFresh'
  BY <1>1, <1>3, <1>4, LatestStays DEF Fresh, FilesFresh
<1> QED  BY <1>1, <1>5, <1>6, OthersFresh DEF Fresh, Typed, ProgressOK

\* The library that stays is fresh.
LEMMA CleanFresh == ASSUME Typed, Right, Fresh, NEW r \in Run, Clean(r) PROVE Fresh'
<1>1. pc[r] = "clean" /\ pc' = [pc EXCEPT ![r] = "load"]
      /\ UNCHANGED <<source, binary, library, since, loaded>>
  BY DEF Clean, At, Goto, command
<1>2. RunFresh(r)'
  BY <1>1, LatestStays DEF Typed, ProgressOK, Fresh, RunFresh
<1> QED  BY <1>1, <1>2, OthersFresh, FilesStayFresh DEF Fresh, Typed, ProgressOK

\* What failed to load is compiled again of the same sources.
LEMMA LoadFailsFresh == ASSUME Typed, Right, Fresh, NEW r \in Run, LoadFails(r) PROVE Fresh'
<1> DEFINE again == binary[library[r]] /= NULL /\ MayRetry(r)
<1>1. CASE again
  <2>1. pc[r] = "load" /\ pc' = [pc EXCEPT ![r] = "write"]
        /\ UNCHANGED <<source, binary, library, since, loaded>>
    BY <1>1 DEF LoadFails, At, Goto, disk, command
  <2>2. RunFresh(r)'
    BY <2>1, LatestStays DEF Typed, ProgressOK, Fresh, RunFresh
  <2> QED  BY <2>1, <2>2, OthersFresh, FilesStayFresh DEF Fresh, Typed, ProgressOK
<1>2. CASE ~again
  BY <1>2, EndsFresh DEF LoadFails, At, disk
<1> QED  BY <1>1, <1>2

\* What is loaded was made of the sources as they are.
LEMMA LoadFresh == ASSUME Typed, Right, Fresh, NEW r \in Run, Load(r) PROVE Fresh'
<1> DEFINE l == library[r]
<1>1. /\ pc[r] = "load" /\ algorithm[r] \in Algorithm /\ l \in {"project", algorithm[r]}
      /\ binary[l].build /= NULL
  BY DEF Load, Loads, At, Typed, ProgressOK, Right, Placed
<1>2. /\ UNCHANGED <<source, binary, since>>
      /\ pc'[r] = IF l = "project" THEN "validate" ELSE "execute"
      /\ \A s \in Run \ {r} : pc'[s] = pc[s] /\ library'[s] = library[s]
  BY DEF Load, Goto, disk, command, Typed, MemoryOK, ProgressOK
<1>3. binary[l].build = Latest(l)
  BY <1>1 DEF Fresh, RunFresh
<1>4. RunFresh(r)'
  <2>1. CASE l = "project"
    BY <1>1, <1>2, <1>3, <2>1, LoadRight, LatestStays DEF Fresh, RunFresh, KindOf
  <2>2. CASE l /= "project"
    BY <1>1, <1>2, <1>3, <2>2, LoadRight, LatestStays DEF Fresh, RunFresh, KindOf
  <2> QED  BY <2>1, <2>2
<1> QED  BY <1>1, <1>2, <1>4, OthersFresh, FilesStayFresh DEF Fresh

\* Every step keeps the libraries a run uses fresh, unless sources change meanwhile.
LEMMA NextFresh ==
  ASSUME Environment = {}, Typed, Right, Fresh, [Next]_vars
  PROVE  Fresh'
<1>1. CASE Tick
  BY <1>1, QuietFresh DEF Tick, disk, command
<1>2. ASSUME NEW f \in Source, NEW fault \in Faults, Edit(f, fault) PROVE Fresh'
  BY <1>2, EditFresh
<1>3. ASSUME NEW r \in Run, NEW a \in Algorithm, NEW f \in BOOLEAN, Begin(r, a, f) PROVE Fresh'
  BY <1>3, BeginFresh
<1>4. ASSUME NEW r \in Run, Kill(r) \/ Finish(r) \/ ReportCompilation(r) PROVE Fresh'
  BY <1>4, EndsFresh DEF Kill, Finish, ReportCompilation, Fails, At, disk
<1>5. ASSUME NEW r \in Run, Step(r) PROVE Fresh'
  BY <1>4, <1>5, ValidateFresh, CheckFresh, WriteFresh, ClangFresh, LinkBeginsFresh,
     LinkEndsFresh, CleanFresh, LoadFailsFresh, LoadFresh DEF Step
<1>6. CASE UNCHANGED vars
  BY <1>6, QuietFresh DEF vars, disk, command
<1> QED  BY <1>1, <1>2, <1>3, <1>4, <1>5, <1>6 DEF Next

\* There are no libraries to be stale.
LEMMA InitFresh == Init => Fresh
BY DEF Init, Fresh, FilesFresh, RunFresh

\* No run executes a version older than the one it began with.
LEMMA FreshMeans == Typed /\ Right /\ Fresh => LibrariesCurrent
<1> SUFFICES ASSUME Typed, Right, Fresh, NEW r \in Run, NEW k \in Kind, At(r, "execute"),
                    NEW f \in DOMAIN loaded[r][k].version
             PROVE  loaded[r][k].version[f] >= since[r][f]
  BY DEF LibrariesCurrent
<1>1. PICK l \in Library : loaded[r][k] = Latest(l)
  <2>1. library[r] \in Library /\ "project" \in Library /\ library[r] /= "project"
    BY CompilationAssumption DEF At, Typed, MemoryOK, ProgressOK, Right, Placed, Library
  <2>2. loaded[r]["project"] = Latest("project") /\ loaded[r]["algorithm"] = Latest(library[r])
    BY <2>1 DEF At, Fresh, RunFresh
  <2> QED  BY <2>1, <2>2 DEF Kind
<1>2. f \in Dependencies(l) /\ loaded[r][k].version[f] = source[f].version
  BY <1>1 DEF Latest
<1>3. f \in Source /\ source[f].version \in Nat
  BY <1>2, DependenciesAreSources, CompilationAssumption DEF Typed, FilesOK
<1>4. since[r][f] = source[f].version
  BY <1>3 DEF At, Fresh, RunFresh
<1> QED  BY <1>2, <1>3, <1>4

\* Validation fails for an interface the user has got wrong.
LEMMA ValidateFails ==
  ASSUME Typed, NEW s \in Run, Validate(s), NEW r \in Run,
         verdict'[r] /= verdict[r], verdict'[r] \in {"USER", "SYSTEM"}
  PROVE  /\ verdict'[r] = "USER" /\ phase'[r] = "COMPILATION"
         /\ Faulty(Dependencies(library[r]), {"interface", "code"})
<1>1. Faulty(Validated(library[s]), {"interface"})
  BY DEF Validate
<1>2. Ends(s, "USER") /\ phase' = phase /\ pc[s] = "validate"
  BY <1>1 DEF Validate, Fails, At
<1>3. r = s /\ verdict'[r] = "USER"
  BY <1>2 DEF Ends, Typed, ProgressOK
<1>4. phase'[r] = "COMPILATION"
  BY <1>2, <1>3 DEF Typed, ProgressOK, PhasesAt
<1>5. Validated(library[r]) \subseteq Dependencies(library[r])
  BY DependenciesAreSources DEF Typed, MemoryOK
<1> QED  BY <1>1, <1>3, <1>4, <1>5 DEF Faulty

\* Compilation fails for code the user has got wrong.
LEMMA ReportFails ==
  ASSUME Typed, Right, Fresh, NEW s \in Run, ReportCompilation(s), NEW r \in Run,
         verdict'[r] /= verdict[r], verdict'[r] \in {"USER", "SYSTEM"}
  PROVE  /\ verdict'[r] = "USER" /\ phase'[r] = "COMPILATION"
         /\ Faulty(Dependencies(library[r]), {"interface", "code"})
<1>1. pc[s] = "report" /\ log = s /\ log /= NULL
  BY CompilationAssumption DEF ReportCompilation, At, Right, Compiling
<1>2. Ends(s, "USER") /\ phase' = phase
  BY <1>1 DEF ReportCompilation, Fails
<1>3. r = s /\ verdict'[r] = "USER"
  BY <1>2 DEF Ends, Typed, ProgressOK
<1> QED  BY <1>1, <1>2, <1>3 DEF Typed, ProgressOK, PhasesAt, Fresh, RunFresh

\* Loading fails for a function the user has declared and not defined.
LEMMA LoadingFails ==
  ASSUME Typed, Right, Fresh, NEW s \in Run, LoadFails(s), NEW r \in Run,
         verdict'[r] /= verdict[r], verdict'[r] \in {"USER", "SYSTEM"}
  PROVE  /\ verdict'[r] = "SYSTEM" /\ phase'[r] = "SETUP"
         /\ Faulty(Validated(library[r]), {"undefined"})
<1> DEFINE l == library[s]
<1>1. pc[s] = "load" /\ binary[l] /= NULL
  BY DEF LoadFails, At, Right, Compiling
<1>2. ~MayRetry(s)
  BY <1>1 DEF LoadFails
<1>3. Ends(s, "SYSTEM") /\ phase' = [phase EXCEPT ![s] = "SETUP"]
  BY <1>1, <1>2 DEF LoadFails
<1>4. r = s /\ verdict'[r] = "SYSTEM" /\ phase'[r] = "SETUP"
  BY <1>3 DEF Ends, Typed, ProgressOK
<1>5. binary[l].build /= NULL
  BY <1>1, <1>2 DEF MayRetry, Right, Compiling
<1>6. binary[l].build = Latest(l)
  BY <1>1, <1>5 DEF Fresh, RunFresh
<1>7. ~Latest(l).complete
  BY <1>1, <1>5, <1>6 DEF LoadFails, Loads, At
<1> QED  BY <1>4, <1>7 DEF Latest

\* No other step is a failure.
LEMMA FailureStep ==
  ASSUME Typed, Right, Fresh, [Next]_vars, NEW r \in Run,
         verdict'[r] /= verdict[r], verdict'[r] \in {"USER", "SYSTEM"}
  PROVE  \/ /\ verdict'[r] = "USER" /\ phase'[r] = "COMPILATION"
            /\ Faulty(Dependencies(library[r]), {"interface", "code"})
         \/ /\ verdict'[r] = "SYSTEM" /\ phase'[r] = "SETUP"
            /\ Faulty(Validated(library[r]), {"undefined"})
<1>1. verdict' /= verdict
  OBVIOUS
<1>2. ASSUME NEW s \in Run,
             Kill(s) \/ Finish(s) \/ \E a \in Algorithm, f \in BOOLEAN : Begin(s, a, f)
      PROVE  verdict'[r] \in {verdict[r], "none", "killed", "done"}
  BY <1>2 DEF Kill, Finish, Ends, Begin, Typed, ProgressOK
<1>3. ~Tick /\ ~(\E f \in Source, fault \in Faults : Edit(f, fault)) /\ ~UNCHANGED vars
  BY <1>1 DEF Tick, Edit, vars
<1>4. ASSUME NEW s \in Run
      PROVE  ~Check(s) /\ ~WriteInputFile(s) /\ ~ClangReads(s) /\ ~LinkBegins(s) /\ ~LinkEnds(s)
             /\ ~Clean(s) /\ ~Load(s)
  BY <1>1 DEF Check, WriteInputFile, ClangReads, LinkBegins, LinkEnds, Clean, Load
<1>5. \E s \in Run : Validate(s) \/ ReportCompilation(s) \/ LoadFails(s)
  BY <1>2, <1>3, <1>4 DEF Next, Step
<1> QED  BY <1>5, ValidateFails, ReportFails, LoadingFails

\* A run executes the sources as they are, however many runs and edits were
\* before it: no library that compilationNeeded() keeps is stale
\* (CompilationInput.cpp:28-44).
THEOREM LibrariesAreCurrent == ASSUME Environment = {} PROVE Spec => []LibrariesCurrent
<1>1. "alongside" \notin Environment
  OBVIOUS
<1> QED
  BY <1>1, InitTyped, NextTyped, InitRight, NextRight, InitFresh, NextFresh, FreshMeans,
     PTL DEF Spec

\* A run that is alone fails for nothing an earlier run has left, only for what is
\* wrong in the sources, and says so (Compilation.hpp:27-38).
THEOREM FailuresAreUsers == ASSUME Environment = {} PROVE Spec => FailureIsUsers
<1>1. "alongside" \notin Environment
  OBVIOUS
<1>2. Typed /\ Right /\ Fresh /\ [Next]_vars =>
        [\A r \in Run : verdict'[r] /= verdict[r] /\ verdict'[r] \in {"USER", "SYSTEM"} =>
           \/ /\ verdict'[r] = "USER" /\ phase'[r] = "COMPILATION"
              /\ Faulty(Dependencies(library[r]), {"interface", "code"})
           \/ /\ verdict'[r] = "SYSTEM" /\ phase'[r] = "SETUP"
              /\ Faulty(Validated(library[r]), {"undefined"})]_vars
  BY FailureStep, Zenon
<1> QED  BY <1>1, <1>2, InitTyped, NextTyped, InitRight, NextRight, InitFresh, NextFresh,
            PTL DEF Spec, FailureIsUsers
================================================================================
