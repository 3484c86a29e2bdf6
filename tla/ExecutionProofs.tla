---------------------------- MODULE ExecutionProofs ----------------------------
(***************************************************************************)
(* What the steps of execute() preserve, for any number of calls.  The     *)
(* inductive invariant says, for each statement, how far the counters are, *)
(* exactly what each lifetime of the two stacks holds, which inputs have   *)
(* been used, and what the two files say.  The lemmas at the end say what  *)
(* it means for the properties; MainProofs uses them for runs of the whole *)
(* program.                                                                *)
(***************************************************************************)
EXTENDS Execution, SequenceTheorems, TLAPS

Beginning == {"main", "read", "deserialize", "start"}
Looping == {"loop", "prepare", "execute", "after"}
Ending == {"serialize", "write", "write_body", "free", "delete", "status"}

\* The loop variable and the number of recorded calls.
Counts ==
  /\ pc \in Beginning => i = 0 /\ recorded = 0
  /\ pc = "loop" => recorded = i
  /\ pc \in {"prepare", "execute"} => i < times /\ recorded = i
  /\ pc = "after" => i < times /\ recorded = i + 1
  /\ pc \in Ending => i = times /\ recorded = times
  /\ pc \in {"delete", "status"} => times > 0

\* The input that stays, and what the default lifetime of the project holds.
Single == IF each THEN NULL ELSE <<"input", 0>>
Kept == IF each THEN {} ELSE {<<"input", 0>>}

\* The input of this iteration, and what its lifetime holds.
Prepared == IF each THEN <<"input", i + 1>>
            ELSE IF i + 1 = times THEN <<"input", 0>> ELSE <<"copy", i + 1>>
Used == IF iter_input = input THEN {} ELSE {iter_input}

\* The pointers.
Pointers ==
  /\ pc \in {"main", "read", "deserialize"} => input = NULL
  /\ pc = "deserialize" => ~each
  /\ pc \notin {"main", "read", "deserialize"} => input = Single
  /\ pc \in Beginning => iter_input = NULL
  /\ pc \in {"execute", "after"} => iter_input = Prepared
  /\ pc = "after" => output = <<"output", i + 1>>
  /\ pc \in {"loop"} \union Ending /\ i = times /\ times > 0 =>
       output = <<"output", times>> /\ iter_input \in Object
  /\ pc \in Beginning \union Looping \union {"serialize"} => serialized = NULL
  /\ pc \in Ending \ {"serialize"} => serialized = <<"text", times>>

\* The lifetimes.
Lifetimes ==
  /\ pc \in {"main", "read", "deserialize"} => project = <<{}>>
  /\ pc = "start" => project = <<Kept>>
  /\ pc \in {"loop", "serialize"} /\ (i < times \/ times = 0) => project = <<Kept>>
  /\ pc \in {"loop", "serialize"} /\ i = times /\ times > 0 => project = <<Kept, Used>>
  /\ pc = "prepare" => project = <<Kept, {}>>
  /\ pc \in {"execute", "after"} => project = <<Kept, Used>>
  /\ pc \in {"write", "write_body", "free"} =>
       project = IF times = 0 THEN <<Kept \union {serialized}>>
                 ELSE <<Kept, Used \union {serialized}>>
  /\ pc \in {"delete", "status"} => project = <<{}>>
  /\ pc \in Beginning \union {"prepare", "execute", "delete", "status"} => algorithm = <<{}>>
  /\ pc = "loop" /\ i < times => algorithm = <<{}>>
  /\ pc = "after" => algorithm = <<{output}>>
  /\ pc \in {"loop", "serialize"} /\ i = times /\ times > 0 => algorithm = <<{output}>>
  /\ pc \in {"deserialize", "start"} \union Looping => buffer
  /\ pc = "status" => ~buffer

\* The inputs that were used: those made for a call, and the single one only by
\* the last call.
UsedInputs ==
  \A d \in dirty :
    \/ \E k \in 1 .. recorded : d = <<"input", k>> \/ d = <<"copy", k>>
    \/ d = <<"input", 0>> /\ recorded = times /\ times > 0

\* The phase, and the two files.
Files ==
  /\ pc = "main" => phase \in {"PREPARATION", "COMPILATION", "SETUP"}
  /\ pc \in Beginning \ {"main"} => phase = "SETUP"
  /\ pc \in Looping => phase = "EXECUTION"
  /\ pc \in Ending => phase = "TEARDOWN"
  /\ pc \in Beginning \union Looping \union {"serialize", "write"} => output_file = Stale
  /\ pc = "write_body" => output_file = Empty
  /\ pc \in {"free", "delete", "status"} => output_file = <<"text", times>>
  /\ proc = "running" => status_file.verdict = "stale"
  /\ status_file.verdict = "ERROR" => status_file.phase = phase
  /\ status_file.verdict = "OK" => proc = "done"
  /\ proc = "done" => pc = "status" /\ status_file.verdict = "OK" /\ status_file.calls = times
  /\ proc = "failed" /\ status_open /\ pc /= "main" => status_file.verdict /= "stale"
  /\ proc = "aborted" => times = 0
  /\ proc = "helped" => pc = "main"

IInv == TypeOK /\ Counts /\ Pointers /\ Lifetimes /\ UsedInputs /\ Files

--------------------------------------------------------------------------------
(* The operations on a stack of one or two lifetimes. *)

\* Objects are neither null nor the contents of the files that are none.
LEMMA ObjectFacts ==
  /\ \A k \in Nat : <<"input", k>> \in Object /\ <<"copy", k>> \in Object
                    /\ <<"output", k>> \in Object /\ <<"text", k>> \in Object
  /\ NULL \notin Object /\ Stale \notin Object /\ Empty \notin Object
BY ExecutionAssumption DEF Object, Stale, Empty

\* The stacks of one and of two lifetimes.
LEMMA StackTypes ==
  /\ \A a \in SUBSET Object : <<a>> \in Seq(SUBSET Object) /\ Len(<<a>>) = 1
  /\ \A a, b \in SUBSET Object : <<a, b>> \in Seq(SUBSET Object) /\ Len(<<a, b>>) = 2
OBVIOUS

\* pushMemoryLifetime() (DynamicLibrary.hpp).
LEMMA StackPush == \A a \in SUBSET Object : PushLifetime(<<a>>) = <<a, {}>>
<1> SUFFICES ASSUME NEW a \in SUBSET Object PROVE Append(<<a>>, {}) = <<a, {}>>
  BY DEF PushLifetime
<1>1. <<a>> \in Seq(SUBSET Object) /\ <<a, {}>> \in Seq(SUBSET Object)
  OBVIOUS
<1>2. Append(<<a>>, {}) \in Seq(SUBSET Object)
  BY <1>1, AppendProperties
<1>3. Len(Append(<<a>>, {})) = 2
  BY <1>1, AppendProperties
<1>4. Append(<<a>>, {})[1] = a /\ Append(<<a>>, {})[2] = {}
  BY <1>1, AppendProperties
<1>5. Len(<<a, {}>>) = 2 /\ <<a, {}>>[1] = a /\ <<a, {}>>[2] = {}
  OBVIOUS
<1>6. \A k \in 1 .. 2 : Append(<<a>>, {})[k] = <<a, {}>>[k]
  BY <1>4, <1>5
<1> QED  BY <1>1, <1>2, <1>3, <1>5, <1>6, SeqEqual

\* popMemoryLifetime().
LEMMA StackPop == \A a, b \in SUBSET Object : PopLifetime(<<a, b>>) = <<a>>
<1> SUFFICES ASSUME NEW a \in SUBSET Object, NEW b \in SUBSET Object
             PROVE  PopLifetime(<<a, b>>) = <<a>>
  OBVIOUS
<1> DEFINE s == SubSeq(<<a, b>>, 1, 1)
<1>1. <<a>> \in Seq(SUBSET Object) /\ <<a, b>> \in Seq(SUBSET Object)
  OBVIOUS
<1>2. PopLifetime(<<a, b>>) = s
  <2>1. Len(<<a, b>>) - 1 = 1
    OBVIOUS
  <2> QED  BY <2>1 DEF PopLifetime
<1>3. s \in Seq(SUBSET Object) /\ Len(s) = 1
  BY <1>1, SubSeqProperties
<1>4. s[1] = a
  BY <1>1, SubSeqProperties
<1>5. Len(<<a>>) = 1 /\ <<a>>[1] = a
  OBVIOUS
<1>6. s = <<a>>
  <2> HIDE DEF s
  <2> QED  BY <1>1, <1>3, <1>4, <1>5, SeqEqual
<1> QED  BY <1>2, <1>6

\* A call allocates on top.
LEMMA StackAllocated ==
  /\ \A a \in SUBSET Object, o \in Object : Allocated(<<a>>, o) = <<a \union {o}>>
  /\ \A a, b \in SUBSET Object, o \in Object : Allocated(<<a, b>>, o) = <<a, b \union {o}>>
BY DEF Allocated

\* What a stack holds.
LEMMA StackHeld ==
  /\ \A a \in SUBSET Object : Held(<<a>>) = a
  /\ \A a, b \in SUBSET Object : Held(<<a, b>>) = a \union b
<1>1. \A a \in SUBSET Object : Held(<<a>>) = a
  BY DEF Held
<1>2. ASSUME NEW a \in SUBSET Object, NEW b \in SUBSET Object PROVE Held(<<a, b>>) = a \union b
  <2>1. 1 .. Len(<<a, b>>) = {1, 2}
    OBVIOUS
  <2>2. Held(<<a, b>>) = UNION {<<a, b>>[k] : k \in {1, 2}}
    BY <2>1 DEF Held
  <2> QED  BY <2>2
<1> QED  BY <1>1, <1>2

--------------------------------------------------------------------------------
(* The steps. *)

\* The input file is read into a buffer.
LEMMA ReadInputKeeps == IInv /\ ReadInput => IInv'
<1> SUFFICES ASSUME IInv, ReadInput PROVE IInv'
  OBVIOUS
<1>1. TypeOK'
  BY DEF IInv, ReadInput, config, pointers, files, TypeOK
<1>2. Counts' /\ Pointers' /\ UsedInputs'
  BY DEF IInv, ReadInput, At, config, pointers, Counts, Beginning, Ending, Pointers,
     Single, UsedInputs
<1>3. Lifetimes'
  BY DEF IInv, ReadInput, At, config, Beginning, Lifetimes, Kept
<1>4. Files'
  BY DEF IInv, ReadInput, At, files, Beginning, Ending, Looping, Files
<1> QED  BY <1>1, <1>2, <1>3, <1>4 DEF IInv

\* The input that stays goes into the default lifetime.
LEMMA DeserializeOnceKeeps == IInv /\ DeserializeOnce => IInv'
<1> SUFFICES ASSUME IInv, DeserializeOnce PROVE IInv'
  OBVIOUS
<1>1. project = <<{}>> /\ input' = <<"input", 0>> /\ input' \in Object
  BY ObjectFacts DEF IInv, Lifetimes, DeserializeOnce, At
<1>2. project' = <<{} \union {input'}>>
  BY <1>1, StackAllocated DEF DeserializeOnce
<1>3. project' = <<{<<"input", 0>>}>>
  BY <1>1, <1>2
<1>4. project' \in Seq(SUBSET Object) /\ Len(project') \in 1 .. 2
  BY <1>1, <1>3
<1>5. TypeOK'
  BY <1>1, <1>4 DEF IInv, DeserializeOnce, config, files, TypeOK
<1>6. Counts' /\ Pointers' /\ UsedInputs'
  BY DEF IInv, DeserializeOnce, At, config, Counts, Beginning, Ending, Pointers, Single,
     UsedInputs
<1>7. Lifetimes'
  BY <1>3 DEF IInv, DeserializeOnce, At, config, Beginning, Pointers, Lifetimes, Kept
<1>8. Files'
  BY DEF IInv, DeserializeOnce, At, files, Beginning, Ending, Looping, Files
<1> QED  BY <1>5, <1>6, <1>7, <1>8 DEF IInv

\* The phase changes, and nothing else.
LEMMA StartLoopKeeps == IInv /\ StartLoop => IInv'
<1> SUFFICES ASSUME IInv, StartLoop PROVE IInv'
  OBVIOUS
<1>1. TypeOK'
  BY DEF IInv, StartLoop, config, pointers, files, TypeOK, Phases
<1>2. Counts' /\ Pointers' /\ UsedInputs'
  BY DEF IInv, StartLoop, At, config, pointers, Counts, Beginning, Ending, Pointers,
     Single, UsedInputs
<1>3. Lifetimes'
  BY DEF IInv, StartLoop, At, config, Counts, Beginning, Lifetimes, Kept
<1>4. Files'
  BY DEF IInv, StartLoop, At, files, Beginning, Ending, Files
<1> QED  BY <1>1, <1>2, <1>3, <1>4 DEF IInv

\* A lifetime is pushed for the iteration.
LEMMA IterateKeeps == IInv /\ Iterate => IInv'
<1> SUFFICES ASSUME IInv, Iterate PROVE IInv'
  OBVIOUS
<1>1. project = <<Kept>> /\ Kept \in SUBSET Object
  BY ObjectFacts DEF IInv, Lifetimes, Iterate, At, Kept
<1>2. project' = <<Kept, {}>>
  BY <1>1, StackPush DEF Iterate
<1>3. project' \in Seq(SUBSET Object) /\ Len(project') \in 1 .. 2
  BY <1>1, <1>2
<1>4. TypeOK'
  BY <1>3 DEF IInv, Iterate, config, pointers, files, TypeOK
<1>5. Counts' /\ Pointers' /\ UsedInputs'
  BY DEF IInv, Iterate, At, config, pointers, Counts, Beginning, Ending, Pointers, Looping,
     Single, UsedInputs
<1>6. Lifetimes'
  BY <1>2 DEF IInv, Iterate, At, config, Looping, Lifetimes, Kept
<1>7. Files'
  BY DEF IInv, Iterate, At, files, Beginning, Ending, Looping, Files
<1> QED  BY <1>4, <1>5, <1>6, <1>7 DEF IInv

\* The input of the call goes into it, unless it is the one that stays.
LEMMA PrepareInputKeeps == IInv /\ PrepareInput => IInv'
<1> SUFFICES ASSUME IInv, PrepareInput PROVE IInv'
  OBVIOUS
<1>1. i \in Nat /\ times \in Nat /\ i + 1 \in Nat
  BY ExecutionAssumption DEF IInv, TypeOK
<1>2. project = <<Kept, {}>> /\ Kept \in SUBSET Object
  BY ObjectFacts DEF IInv, Lifetimes, PrepareInput, At, Kept
<1>3. iter_input' = Prepared
  BY DEF IInv, Pointers, Single, Prepared, PrepareInput, At, InputItself, IsLast
<1>4. iter_input' \in Object
  BY <1>1, <1>3, ObjectFacts DEF Prepared
<1>5. project' = IF iter_input' = input THEN <<Kept, {}>> ELSE <<Kept, {} \union {iter_input'}>>
  BY <1>2, <1>4, StackAllocated DEF PrepareInput
<1>6. project' = <<Kept, IF iter_input' = input THEN {} ELSE {iter_input'}>>
  BY <1>5
<1>7. project' \in Seq(SUBSET Object) /\ Len(project') \in 1 .. 2
  BY <1>2, <1>4, <1>6
<1>8. TypeOK'
  BY <1>4, <1>7 DEF IInv, PrepareInput, config, files, TypeOK
<1>9. Counts' /\ Pointers' /\ UsedInputs'
  BY DEF IInv, PrepareInput, At, config, InputItself, IsLast, Counts, Beginning, Ending,
     Pointers, Looping, Single, Prepared, UsedInputs
<1>10. Lifetimes'
  BY <1>6 DEF IInv, PrepareInput, At, config, Looping, Lifetimes, Kept, Used
<1>11. Files'
  BY DEF IInv, PrepareInput, At, files, Beginning, Ending, Looping, Files
<1> QED  BY <1>8, <1>9, <1>10, <1>11 DEF IInv

\* The output goes into the lifetime of the algorithm; one more input is used.
LEMMA ExecuteKeeps == IInv /\ Execute => IInv'
<1> SUFFICES ASSUME IInv, Execute PROVE IInv'
  OBVIOUS
<1>1. i \in Nat /\ times \in Nat /\ i + 1 \in Nat
  BY ExecutionAssumption DEF IInv, TypeOK
<1>2. algorithm = <<{}>> /\ output' = <<"output", i + 1>>
  BY DEF IInv, Lifetimes, Execute, At
<1>3. output' \in Object
  BY <1>1, <1>2, ObjectFacts
<1>4. algorithm' = <<{} \union {output'}>>
  BY <1>2, <1>3, StackAllocated DEF Execute
<1>5. algorithm' = <<{output'}>>
  BY <1>4
<1>6. algorithm' \in Seq(SUBSET Object) /\ Len(algorithm') = 1
  BY <1>3, <1>5
<1>7. iter_input \in Object
  BY <1>1, ObjectFacts DEF IInv, Pointers, Prepared, Execute, At
<1>8. i < times /\ recorded = i
  BY DEF IInv, Counts, Execute, At
<1>9. TypeOK'
  BY <1>3, <1>6, <1>7, <1>8, ExecutionAssumption DEF IInv, Execute, config, files, TypeOK
<1>10. Counts' /\ Pointers'
  BY DEF IInv, Execute, At, config, Counts, Beginning, Ending, Pointers, Looping, Single,
     Prepared
<1>11. UsedInputs'
  BY <1>1, <1>2, <1>3, <1>4, <1>5, <1>6, <1>7, <1>8, ExecutionAssumption, ObjectFacts,
     StackTypes DEF IInv, Execute, At, Status, vars, config, pointers, files, TypeOK,
     Phases, Counts, Beginning, Ending, Pointers, Looping, Single, Prepared, UsedInputs
<1>12. Lifetimes'
  BY <1>5 DEF IInv, Execute, At, config, Beginning, Looping, Lifetimes, Kept, Used
<1>13. Files'
  BY DEF IInv, Execute, At, files, Beginning, Ending, Looping, Files
<1> QED  BY <1>9, <1>10, <1>11, <1>12, <1>13 DEF IInv

\* Both lifetimes of an iteration are freed, but for the last one.
LEMMA EndIterationKeeps == IInv /\ EndIteration => IInv'
<1> SUFFICES ASSUME IInv, EndIteration PROVE IInv'
  OBVIOUS
<1>1. i \in Nat /\ times \in Nat /\ i + 1 \in Nat
  BY ExecutionAssumption DEF IInv, TypeOK
<1>2. project = <<Kept, Used>> /\ algorithm = <<{output}>>
  BY DEF IInv, Lifetimes, EndIteration, At
<1>3. iter_input \in Object /\ output \in Object
  BY <1>1, ObjectFacts DEF IInv, Pointers, Prepared, EndIteration, At
<1>4. Kept \in SUBSET Object /\ Used \in SUBSET Object
  BY <1>3, ObjectFacts DEF Kept, Used
<1>5. PopLifetime(project) = <<Kept>>
  BY <1>2, <1>4, StackPop
<1>6. algorithm' = IF Keeps THEN <<{output}>> ELSE <<{}>>
  BY <1>2 DEF EndIteration, FreeAll
<1>7. project' = IF Keeps THEN <<Kept, Used>> ELSE <<Kept>>
  BY <1>2, <1>5 DEF EndIteration
<1>8. i < times /\ recorded = i + 1
  BY DEF IInv, Counts, EndIteration, At
<1>9. project' \in Seq(SUBSET Object) /\ Len(project') \in 1 .. 2
  <2>1. CASE Keeps
    BY <2>1, <1>4, <1>7
  <2>2. CASE ~Keeps
    BY <2>2, <1>4, <1>7
  <2> QED  BY <2>1, <2>2
<1>10. algorithm' \in Seq(SUBSET Object) /\ Len(algorithm') = 1
  BY <1>3, <1>6
<1>11. TypeOK'
  BY <1>8, <1>9, <1>10 DEF IInv, EndIteration, config, pointers, files, TypeOK
<1>12. Counts' /\ Pointers' /\ UsedInputs'
  BY <1>1, <1>2, <1>3, <1>4, <1>5, <1>6, <1>7, <1>8, <1>9, <1>10, ExecutionAssumption,
     ObjectFacts, StackTypes DEF IInv, EndIteration, At, Status, vars, config, pointers,
     files, Keeps, IsLast, TypeOK, Phases, Counts, Beginning, Ending, Pointers, Looping,
     Single, Prepared, UsedInputs
<1>13. Lifetimes'
  <2>1. CASE Keeps
    <3>1. Kept' = Kept /\ Used' = Used /\ output' = output
      BY DEF Kept, Used, EndIteration, config, pointers
    <3>2. pc' = "loop" /\ i' = times' /\ ~(i' < times') /\ times' > 0 /\ times' /= 0 /\ buffer'
      BY <2>1, <1>1 DEF IInv, Lifetimes, Looping, EndIteration, At, Keeps, IsLast, config
    <3>3. project' = <<Kept', Used'>> /\ algorithm' = <<{output'}>>
      BY <2>1, <1>6, <1>7, <3>1
    <3> QED  BY <3>2, <3>3 DEF Lifetimes, Beginning
  <2>2. CASE ~Keeps
    BY <2>2, <1>6, <1>7 DEF IInv, EndIteration, At, config, Keeps, IsLast, Looping,
       Lifetimes, Kept
  <2> QED  BY <2>1, <2>2
<1>14. Files'
  BY DEF IInv, EndIteration, At, files, Beginning, Ending, Looping, Files
<1> QED  BY <1>11, <1>12, <1>13, <1>14 DEF IInv

\* The last iteration has left its lifetimes.
LEMMA EndLoopKeeps == IInv /\ EndLoop => IInv'
<1> SUFFICES ASSUME IInv, EndLoop PROVE IInv'
  OBVIOUS
<1>1. TypeOK'
  BY DEF IInv, EndLoop, config, pointers, files, TypeOK, Phases
<1>2. Counts' /\ Pointers' /\ UsedInputs'
  BY ExecutionAssumption DEF IInv, EndLoop, At, config, pointers, TypeOK, Counts,
     Beginning, Pointers, Looping, Single, UsedInputs
<1>3. Lifetimes'
  BY DEF IInv, EndLoop, At, config, pointers, Beginning, Looping, Lifetimes, Kept, Used
<1>4. Files'
  BY DEF IInv, EndLoop, At, files, Beginning, Looping, Files
<1> QED  BY <1>1, <1>2, <1>3, <1>4 DEF IInv

\* The text goes on top of whatever is left.
LEMMA SerializeKeeps == IInv /\ Serialize => IInv'
<1> SUFFICES ASSUME IInv, Serialize PROVE IInv'
  OBVIOUS
<1>1. times \in Nat
  BY ExecutionAssumption DEF IInv, TypeOK
<1>2. serialized' = <<"text", times>> /\ serialized' \in Object
  BY <1>1, ObjectFacts DEF IInv, Counts, Ending, Serialize, At
<1>3. Kept \in SUBSET Object
  BY ObjectFacts DEF Kept
<1>4. times > 0 => Used \in SUBSET Object
  BY DEF IInv, Counts, Pointers, Ending, Used, Serialize, At
<1>5. project = IF times = 0 THEN <<Kept>> ELSE <<Kept, Used>>
  BY <1>1 DEF IInv, Counts, Lifetimes, Ending, Serialize, At
<1>6. project' = Allocated(project, serialized')
  BY DEF Serialize
<1>7. project' = IF times = 0 THEN <<Kept \union {serialized'}>>
                ELSE <<Kept, Used \union {serialized'}>>
  <2>1. CASE times = 0
    BY <2>1, <1>2, <1>3, <1>5, <1>6, StackAllocated
  <2>2. CASE times /= 0
    BY <2>2, <1>1, <1>2, <1>3, <1>4, <1>5, <1>6, StackAllocated
  <2> QED  BY <2>1, <2>2
<1>8. project' \in Seq(SUBSET Object) /\ Len(project') \in 1 .. 2
  <2>1. CASE times = 0
    BY <2>1, <1>2, <1>3, <1>7
  <2>2. CASE times /= 0
    BY <2>2, <1>1, <1>2, <1>3, <1>4, <1>7
  <2> QED  BY <2>1, <2>2
<1>9. TypeOK'
  BY <1>2, <1>8 DEF IInv, Serialize, config, files, TypeOK
<1>10. Counts' /\ Pointers' /\ UsedInputs'
  BY DEF IInv, Serialize, At, config, Counts, Beginning, Ending, Pointers, Looping, Single,
     UsedInputs
<1>11. Lifetimes'
  BY <1>7 DEF IInv, Serialize, config, Beginning, Looping, Lifetimes, Kept, Used
<1>12. Files'
  BY DEF IInv, Serialize, At, files, Beginning, Ending, Looping, Files
<1> QED  BY <1>9, <1>10, <1>11, <1>12 DEF IInv

\* The output file is truncated.
LEMMA OpenOutputKeeps == IInv /\ OpenOutput => IInv'
<1> SUFFICES ASSUME IInv, OpenOutput PROVE IInv'
  OBVIOUS
<1>1. TypeOK'
  BY DEF IInv, OpenOutput, config, pointers, TypeOK
<1>2. Counts' /\ Pointers' /\ UsedInputs'
  BY DEF IInv, OpenOutput, At, config, pointers, Counts, Beginning, Ending, Pointers,
     Looping, Single, UsedInputs
<1>3. Lifetimes'
  BY DEF IInv, OpenOutput, At, config, pointers, Beginning, Looping, Lifetimes, Kept, Used
<1>4. Files'
  BY DEF IInv, OpenOutput, At, Beginning, Ending, Looping, Files
<1> QED  BY <1>1, <1>2, <1>3, <1>4 DEF IInv

\* The text is in the file.
LEMMA WriteOutputKeeps == IInv /\ WriteOutput => IInv'
<1> SUFFICES ASSUME IInv, WriteOutput PROVE IInv'
  OBVIOUS
<1>1. serialized \in Object
  BY ExecutionAssumption, ObjectFacts DEF IInv, TypeOK, Pointers, Ending, WriteOutput, At
<1>2. TypeOK'
  BY <1>1 DEF IInv, WriteOutput, config, pointers, TypeOK
<1>3. Counts' /\ Pointers' /\ UsedInputs'
  BY DEF IInv, WriteOutput, At, config, pointers, Counts, Beginning, Ending, Pointers,
     Looping, Single, UsedInputs
<1>4. Lifetimes'
  BY DEF IInv, WriteOutput, At, config, pointers, Beginning, Looping, Lifetimes, Kept, Used
<1>5. Files'
  BY DEF IInv, WriteOutput, At, config, Beginning, Ending, Pointers, Looping, Files
<1> QED  BY <1>2, <1>3, <1>4, <1>5 DEF IInv

\* Both stacks are empty again.
LEMMA FreeMemoryKeeps == IInv /\ FreeMemory => IInv'
<1> SUFFICES ASSUME IInv, FreeMemory PROVE IInv'
  OBVIOUS
<1>1. algorithm' = <<{}>> /\ project' = <<{}>>
  BY DEF FreeMemory, FreeAll
<1>2. times > 0
  BY DEF IInv, TypeOK, Counts, Lifetimes, Ending, FreeMemory, At
<1>3. TypeOK'
  BY <1>1 DEF IInv, FreeMemory, config, pointers, files, TypeOK
<1>4. Counts' /\ Pointers' /\ UsedInputs'
  BY <1>2 DEF IInv, FreeMemory, At, config, pointers, Counts, Beginning, Ending, Pointers,
     Looping, Single, UsedInputs
<1>5. Lifetimes'
  BY <1>1 DEF IInv, FreeMemory, Looping, Lifetimes
<1>6. Files'
  BY DEF IInv, FreeMemory, At, config, files, Beginning, Ending, Looping, Files
<1> QED  BY <1>3, <1>4, <1>5, <1>6 DEF IInv

\* Only without any call there is nothing to pop.
LEMMA PopThrowsKeeps == IInv /\ PopThrows => IInv'
<1> SUFFICES ASSUME IInv, PopThrows PROVE IInv'
  OBVIOUS
<1>1. algorithm' = <<{}>>
  BY DEF PopThrows, FreeAll
<1>2. times \in Nat /\ i = times
  BY DEF IInv, TypeOK, Counts, Ending, PopThrows, At
<1>3. serialized \in Object /\ (times > 0 => iter_input \in Object)
  BY <1>2, ObjectFacts DEF IInv, Pointers, Ending, PopThrows, At
<1>4. /\ Kept \union {serialized} \in SUBSET Object
      /\ times > 0 => Used \union {serialized} \in SUBSET Object
  BY <1>3, ObjectFacts DEF Kept, Used
<1>5. times > 0 => project = <<Kept, Used \union {serialized}>>
  BY DEF IInv, Lifetimes, PopThrows, At
<1>6. Len(project) = 1
  BY DEF PopThrows
<1>7. times = 0
  BY <1>2, <1>5, <1>6
<1>8. TypeOK'
  BY <1>1 DEF IInv, PopThrows, config, pointers, files, TypeOK
<1>9. Counts' /\ Pointers' /\ UsedInputs'
  BY DEF IInv, PopThrows, config, pointers, Counts, Pointers, Single, Prepared, UsedInputs
<1>10. Lifetimes'
  BY DEF IInv, PopThrows, At, config, pointers, Beginning, Lifetimes, Kept
<1>11. Files'
  BY <1>7 DEF IInv, PopThrows, config, files, Counts, Files
<1> QED  BY <1>8, <1>9, <1>10, <1>11 DEF IInv

\* The buffer is given back.
LEMMA DeleteBufferKeeps == IInv /\ DeleteBuffer => IInv'
<1> SUFFICES ASSUME IInv, DeleteBuffer PROVE IInv'
  OBVIOUS
<1>1. TypeOK'
  BY ExecutionAssumption, ObjectFacts, StackTypes DEF IInv, DeleteBuffer, At, Status, vars,
     config, pointers, files, TypeOK, Phases
<1>2. Counts' /\ Pointers' /\ UsedInputs'
  BY DEF IInv, DeleteBuffer, At, config, pointers, Counts, Beginning, Ending, Pointers,
     Looping, Single, UsedInputs
<1>3. Lifetimes'
  BY DEF IInv, DeleteBuffer, At, Looping, Lifetimes
<1>4. Files'
  BY DEF IInv, DeleteBuffer, At, config, files, Beginning, Ending, Looping, Files
<1> QED  BY <1>1, <1>2, <1>3, <1>4 DEF IInv

\* The status is OK.
LEMMA WriteStatusKeeps == IInv /\ WriteStatus => IInv'
<1> SUFFICES ASSUME IInv, WriteStatus PROVE IInv'
  OBVIOUS
<1>1. TypeOK'
  BY DEF IInv, WriteStatus, Status, config, pointers, TypeOK
<1>2. Counts' /\ Pointers' /\ UsedInputs'
  BY DEF IInv, WriteStatus, config, pointers, Counts, Pointers, Single, Prepared, UsedInputs
<1>3. Lifetimes'
  BY DEF IInv, WriteStatus, config, pointers, Lifetimes, Kept, Used
<1>4. Files'
  BY DEF IInv, WriteStatus, At, Status, config, Counts, Ending, Files
<1> QED  BY <1>1, <1>2, <1>3, <1>4 DEF IInv

\* The status file is cut.
LEMMA StatusCutShortKeeps == IInv /\ StatusCutShort => IInv'
<1> SUFFICES ASSUME IInv, StatusCutShort PROVE IInv'
  OBVIOUS
<1>1. TypeOK'
  BY ExecutionAssumption DEF IInv, StatusCutShort, Status, config, pointers, TypeOK
<1>2. Counts' /\ Pointers' /\ UsedInputs'
  BY DEF IInv, StatusCutShort, config, pointers, Counts, Pointers, Single, Prepared,
     UsedInputs
<1>3. Lifetimes'
  BY DEF IInv, StatusCutShort, config, pointers, Lifetimes, Kept, Used
<1>4. Files'
  BY DEF IInv, StatusCutShort, Status, config, Files
<1> QED  BY <1>1, <1>2, <1>3, <1>4 DEF IInv

\* error() writes the phase of this statement.
LEMMA FailKeeps == IInv /\ Fail => IInv'
<1> SUFFICES ASSUME IInv, Fail PROVE IInv'
  OBVIOUS
<1>1. TypeOK'
  BY ExecutionAssumption DEF IInv, Fail, Status, config, pointers, ErrorStatus, TypeOK
<1>2. Counts' /\ Pointers' /\ UsedInputs'
  BY DEF IInv, Fail, config, pointers, Counts, Pointers, Single, Prepared, UsedInputs
<1>3. Lifetimes'
  BY DEF IInv, Fail, config, pointers, Lifetimes, Kept, Used
<1>4. Files'
  BY DEF IInv, Fail, At, Status, config, ErrorStatus, CallsLibrary, CallsInternal,
     UsesFile, Files
<1> QED  BY <1>1, <1>2, <1>3, <1>4 DEF IInv

\* The process is gone.
LEMMA KilledKeeps == IInv /\ Killed => IInv'
<1> SUFFICES ASSUME IInv, Killed PROVE IInv'
  OBVIOUS
<1>1. TypeOK'
  BY DEF IInv, Killed, config, pointers, files, TypeOK
<1>2. Counts' /\ Pointers' /\ UsedInputs'
  BY DEF IInv, Killed, config, pointers, Counts, Pointers, Single, Prepared, UsedInputs
<1>3. Lifetimes'
  BY DEF IInv, Killed, config, pointers, Lifetimes, Kept, Used
<1>4. Files'
  BY DEF IInv, Killed, At, files, CallsLibrary, Files
<1> QED  BY <1>1, <1>2, <1>3, <1>4 DEF IInv

--------------------------------------------------------------------------------
(* What the invariant says of the properties, and the steps together. *)

\* Every step of execute() keeps the invariant.
LEMMA NextKeeps == IInv /\ [Next]_vars => IInv'
<1>1. ASSUME IInv, UNCHANGED vars PROVE IInv'
  BY <1>1 DEF vars, config, pointers, files, IInv, TypeOK, Status, Counts, Pointers,
     Lifetimes,
     UsedInputs, Files, Single, Kept, Prepared, Used
<1> QED
  BY <1>1, ReadInputKeeps, DeserializeOnceKeeps, StartLoopKeeps, IterateKeeps,
     PrepareInputKeeps,
     ExecuteKeeps, EndIterationKeeps, EndLoopKeeps, SerializeKeeps, OpenOutputKeeps,
     WriteOutputKeeps, FreeMemoryKeeps, PopThrowsKeeps, DeleteBufferKeeps, WriteStatusKeeps,
     StatusCutShortKeeps, FailKeeps, KilledKeeps DEF Next

\* execute() starts with two empty lifetimes and two files of before.
LEMMA InvStart == Init => IInv
<1> SUFFICES ASSUME Init PROVE IInv
  OBVIOUS
<1>1. /\ project \in Seq(SUBSET Object) /\ Len(project) \in 1 .. 2
      /\ algorithm \in Seq(SUBSET Object) /\ Len(algorithm) = 1
  BY StackTypes DEF Init
<1>2. TypeOK
  <2>1. times \in Times /\ times \in Nat
    BY ExecutionAssumption DEF Init
  <2>2. i \in 0 .. times /\ recorded \in 0 .. times
    BY <2>1 DEF Init
  <2>3. status_file \in [verdict : {"stale", "partial", "OK", "ERROR"}, phase : Phases,
                          calls : 0 .. times]
    BY <2>1 DEF Init, Status, Phases
  <2>4. each \in BOOLEAN /\ status_open \in BOOLEAN /\ buffer \in BOOLEAN
    BY DEF Init
  <2>5. /\ pc = "read" /\ phase \in Phases /\ proc = "running"
        /\ {input, iter_input, output, serialized} \subseteq Object \union {NULL}
        /\ dirty \subseteq Object /\ output_file \in Object \union {Stale, Empty}
    BY DEF Init, Phases
  <2> QED  BY <1>1, <2>1, <2>2, <2>3, <2>4, <2>5 DEF TypeOK
<1>3. Counts /\ Pointers /\ UsedInputs /\ Files
  BY DEF Init, Counts, Pointers, UsedInputs, Files, Beginning, Looping, Ending, Status
<1>4. Lifetimes
  BY DEF Init, Lifetimes, Beginning, Looping, Ending
<1> QED  BY <1>2, <1>3, <1>4 DEF IInv

\* The invariant of execute() by itself, for any number of calls.
THEOREM ExecutionInvariant == Spec => []IInv
BY InvStart, NextKeeps, PTL DEF Spec

\* What each call is given is in a lifetime that is still on a stack.
LEMMA InvLive == IInv => ArgumentsLive
<1> SUFFICES ASSUME IInv PROVE ArgumentsLive
  OBVIOUS
<1>1. i \in Nat /\ times \in Nat /\ i + 1 \in Nat /\ i <= times
  BY ExecutionAssumption DEF IInv, TypeOK
<1>2. Kept \in SUBSET Object
  BY ObjectFacts DEF Kept
<1>3. At("deserialize") \/ (At("prepare") /\ each) => buffer
  BY DEF IInv, Lifetimes, Looping, At
<1>4. ASSUME At("prepare"), ~each PROVE input \in Live
  <2>1. project = <<Kept, {}>> /\ input = <<"input", 0>>
    BY <1>4 DEF IInv, Lifetimes, Pointers, Single, At
  <2>2. Held(project) = Kept
    BY <2>1, <1>2, StackHeld
  <2> QED  BY <1>4, <2>1, <2>2 DEF Live, Kept
<1>5. ASSUME At("execute") PROVE iter_input \in Live
  <2>1. project = <<Kept, Used>> /\ iter_input = Prepared /\ input = Single
    BY <1>5 DEF IInv, Lifetimes, Pointers, At
  <2>2. iter_input \in Object
    BY <2>1, <1>1, ObjectFacts DEF Prepared
  <2>3. Used \in SUBSET Object
    BY <2>2 DEF Used
  <2>4. Held(project) = Kept \union Used
    BY <2>1, <2>3, <1>2, StackHeld
  <2>5. iter_input \in Kept \union Used
    BY <2>1, <2>2, ObjectFacts DEF Kept, Used, Single
  <2> QED  BY <2>4, <2>5 DEF Live
<1>6. ASSUME At("serialize"), times > 0 PROVE output \in Live
  <2>1. algorithm = <<{output}>> /\ output = <<"output", times>>
    BY <1>6, <1>1 DEF IInv, Counts, Lifetimes, Pointers, Ending, At
  <2>2. {output} \in SUBSET Object
    BY <2>1, <1>1, ObjectFacts
  <2>3. Held(algorithm) = {output}
    BY <2>1, <2>2, StackHeld
  <2> QED  BY <2>3 DEF Live
<1>7. ASSUME At("write") \/ At("write_body") PROVE serialized \in Live
  <2>1. serialized = <<"text", times>> /\ serialized \in Object
    BY <1>7, <1>1, ObjectFacts DEF IInv, Pointers, Ending, At
  <2>2. CASE times = 0
    <3>1. project = <<Kept \union {serialized}>>
      BY <2>2, <1>7 DEF IInv, Lifetimes, At
    <3>2. Held(project) = Kept \union {serialized}
      BY <3>1, <2>1, <1>2, StackHeld
    <3> QED  BY <3>2 DEF Live
  <2>3. CASE times /= 0
    <3>1. project = <<Kept, Used \union {serialized}>>
      BY <2>3, <1>7 DEF IInv, Lifetimes, At
    <3>2. iter_input \in Object
      BY <2>3, <1>1, <1>7 DEF IInv, Counts, Pointers, Ending, At
    <3>3. Held(project) = Kept \union (Used \union {serialized})
      BY <3>1, <3>2, <2>1, <1>2, StackHeld DEF Used
    <3> QED  BY <3>3 DEF Live
  <2> QED  BY <2>2, <2>3
<1> QED  BY <1>3, <1>4, <1>5, <1>6, <1>7 DEF ArgumentsLive

\* Its input is not one of those that were used.
LEMMA InvIsolation == IInv => Isolation
<1> SUFFICES ASSUME IInv PROVE Isolation
  OBVIOUS
<1>1. i \in Nat /\ times \in Nat
  BY ExecutionAssumption DEF IInv, TypeOK
<1>2. ASSUME At("execute") PROVE iter_input \notin dirty
  <2>1. iter_input = Prepared /\ recorded = i /\ i < times
    BY <1>2 DEF IInv, Counts, Pointers, At
  <2>2. Prepared = <<"input", i + 1>> \/ Prepared = <<"copy", i + 1>> \/ Prepared = <<"input", 0>>
    BY DEF Prepared
  <2>3. \A k \in 1 .. recorded : iter_input /= <<"input", k>> /\ iter_input /= <<"copy", k>>
    BY <1>1, <2>1, <2>2
  <2> QED  BY <1>1, <2>1, <2>3 DEF IInv, UsedInputs
<1>3. ASSUME At("prepare"), ~each PROVE input \notin dirty
  <2>1. input = <<"input", 0>> /\ recorded = i /\ i < times
    BY <1>3 DEF IInv, Counts, Pointers, Single, At
  <2>2. \A k \in 1 .. recorded : input /= <<"input", k>> /\ input /= <<"copy", k>>
    BY <1>1, <2>1
  <2> QED  BY <1>1, <2>1, <2>2 DEF IInv, UsedInputs
<1> QED  BY <1>2, <1>3 DEF Isolation

\* Before a call only the input that stays is held.
LEMMA InvNoAccumulation == IInv => NoAccumulation
<1> SUFFICES ASSUME IInv, At("prepare") PROVE Live \subseteq {input}
  BY DEF NoAccumulation
<1>1. project = <<Kept, {}>> /\ algorithm = <<{}>> /\ input = Single
  BY DEF IInv, Lifetimes, Pointers, At
<1>2. Kept \in SUBSET Object /\ {} \in SUBSET Object
  BY ObjectFacts DEF Kept
<1>3. Held(project) = Kept /\ Held(algorithm) = {}
  BY <1>1, <1>2, StackHeld
<1> QED  BY <1>1, <1>3 DEF Live, Kept, Single

\* After OK nothing is held, and the output is that of the last call.
LEMMA InvOKMeansDone == IInv => OKMeansDone
<1> SUFFICES ASSUME IInv, proc = "done"
             PROVE  /\ status_file.verdict = "OK" /\ status_file.calls = times
                    /\ output_file = <<"text", times>> /\ output = <<"output", times>>
                    /\ Live = {} /\ ~buffer
  BY DEF OKMeansDone
<1>1. pc = "status" /\ status_file.verdict = "OK" /\ status_file.calls = times
  BY DEF IInv, Files
<1>2. output_file = <<"text", times>>
  BY <1>1 DEF IInv, Files
<1>3. output = <<"output", times>>
  BY <1>1 DEF IInv, Counts, Pointers, Ending
<1>4. project = <<{}>> /\ algorithm = <<{}>> /\ ~buffer
  BY <1>1 DEF IInv, Lifetimes
<1>5. Held(<<{}>>) = {}
  BY StackHeld
<1> QED  BY <1>1, <1>2, <1>3, <1>4, <1>5 DEF Live

\* The phase of an error is that of the statement.
LEMMA InvPhaseTruthful == IInv => PhaseTruthful
<1> SUFFICES ASSUME IInv, status_file.verdict = "ERROR"
             PROVE  CASE phase \in {"PREPARATION", "COMPILATION"} -> pc = "main"
                      [] phase = "SETUP" -> recorded = 0 /\ iter_input = NULL
                      [] phase = "EXECUTION" -> output_file = Stale /\ serialized = NULL
                      [] phase = "TEARDOWN" -> recorded = times
  BY DEF PhaseTruthful, IInv, Files
<1>1. pc = "main" \/ pc \in Beginning \ {"main"} \/ pc \in Looping \/ pc \in Ending
  BY DEF IInv, TypeOK, Beginning, Looping, Ending
<1> QED
  BY <1>1 DEF IInv, Files, Counts, Pointers, Beginning, Looping, Ending

================================================================================
