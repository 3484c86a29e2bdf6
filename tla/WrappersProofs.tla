---------------------------- MODULE WrappersProofs -----------------------------
(***************************************************************************)
(* The calls into a library, for any project, any input, any sequence of   *)
(* single and bulk accesses to a stream and an exception at any point.     *)
(* The inductive invariant says what the output buffer holds while it is   *)
(* written, who owns it, where the get area is and which exception is      *)
(* still to be reported.                                                   *)
(***************************************************************************)
EXTENDS Wrappers, NaturalRecursion, SequenceTheorems

Calls ==
  {"validate", "rejected", "compiled", "idle", "reading", "writing", "plain", "ask", "failed"}
\* A cell of the buffer: a character that was put, or what was there.
Cell == Nat \union {JUNK}

Typed ==
  /\ pc \in Calls
  /\ source \in Projects \union {NULL}
  /\ cpp \in BOOLEAN /\ stream_in \in BOOLEAN /\ stream_out \in BOOLEAN
  /\ gptr \in 0 .. InputSize
  /\ read \in [at : 0 .. InputSize, asked : Nat, bytes : Seq(Nat)]
  /\ size_ \in Nat /\ pos_ \in Nat /\ written \in 0 .. MaxText /\ bulk \in Seq(Nat)
  /\ heap \subseteq {"buffer", "error"}
  /\ __error_var \in {NULL, "message", "unknown"}
  /\ threw \in BOOLEAN /\ wild \in BOOLEAN

\* Bulk reads count, and their characters are of the input.
ReadsOK ==
  /\ ReadsCount
  /\ \A k \in 1 .. Len(read.bytes) : read.bytes[k] < InputSize

\* Between its beginning and pos_ the buffer holds what was put.
Buffer ==
  /\ buffer_ \in Seq(Cell) /\ Len(buffer_) = size_
  /\ pos_ <= size_ /\ Len(bulk) = pos_
  /\ \A k \in 1 .. pos_ : buffer_[k] = bulk[k]

\* Characters are numbered as they are written.
Numbered ==
  /\ \A k \in 1 .. Len(bulk) : bulk[k] \in 1 .. written
  /\ \A i, j \in 1 .. Len(bulk) : i < j => bulk[i] < bulk[j]

\* The stream has the buffer until takeBuffer() gives it away.
Output ==
  /\ pc = "writing" => Buffer /\ text = NULL
  /\ pc /= "writing" => buffer_ = NULL
  /\ text /= NULL => text = bulk
  /\ "buffer" \in heap <=> pc = "writing" \/ text /= NULL

\* An exception is reported by the next get_error(), and there is only one.
Errors ==
  /\ ~wild
  /\ threw => pc \in {"ask", "failed"}
  /\ pc /= "ask" => __error_var = NULL
  /\ pc = "ask" => (threw <=> __error_var /= NULL)
  /\ pc = "failed" => threw /\ "error" \notin heap

\* What is compiled is what was accepted.
Built ==
  pc = "compiled" => /\ Accepted(source, cpp)
                     /\ stream_in = CppDeserialize(source, cpp)
                     /\ stream_out = CppSerialize(source, cpp)

IInv == Typed /\ ReadsOK /\ Output /\ Errors /\ Built /\ Numbered

--------------------------------------------------------------------------------
\* std::min and the like.
LEMMA MinIsLeast ==
  ASSUME NEW S \in SUBSET Nat, S /= {}
  PROVE  Min(S) \in S /\ \A x \in S : Min(S) <= x
<1>1. \E x \in S : \A y \in S : x <= y
  BY Smallest
<1> QED  BY <1>1 DEF Min

\* Of two.
LEMMA MinOfTwo ==
  ASSUME NEW a \in Nat, NEW b \in Nat
  PROVE  Min({a, b}) = IF a <= b THEN a ELSE b
<1>1. Min({a, b}) \in {a, b} /\ \A x \in {a, b} : Min({a, b}) <= x
  BY MinIsLeast
<1> QED  BY <1>1

\* The recursive definition of the powers of two is one.
LEMMA Powers ==
  /\ Power \in [Nat -> Nat] /\ Power[0] = 1
  /\ \A k \in Nat : Power[k + 1] = 2 * Power[k]
<1>1. \E f \in [Nat -> Nat] : f[0] = 1 /\ \A k \in Nat : f[k + 1] = 2 * f[k]
  <2> DEFINE step == [k \in Nat |-> [x \in Nat |-> 2 * x]]
  <2>1. step \in Steps(Nat) /\ \A k, x \in Nat : step[k][x] = 2 * x
    BY DEF Steps
  <2> HIDE DEF step
  <2>2. PICK f : Recurs(f, Nat, 1, step)
    BY <2>1, Recursion
  <2> QED  BY <2>1, <2>2 DEF Recurs
<1>2. PICK f \in [Nat -> Nat] : f[0] = 1 /\ \A k \in Nat : f[k + 1] = 2 * f[k]
  BY <1>1
<1>3. \A k \in Nat : f[k] = IF k = 0 THEN 1 ELSE 2 * f[k - 1]
  <2> SUFFICES ASSUME NEW k \in Nat, k /= 0 PROVE f[k] = 2 * f[k - 1]
    BY <1>2
  <2>1. k - 1 \in Nat /\ (k - 1) + 1 = k
    OBVIOUS
  <2> QED  BY <1>2, <2>1
<1>4. f = [k \in Nat |-> IF k = 0 THEN 1 ELSE 2 * f[k - 1]]
  BY <1>2, <1>3
<1>5. Power = [k \in Nat |-> IF k = 0 THEN 1 ELSE 2 * Power[k - 1]]
  BY <1>4 DEF Power
<1>6. Power[0] = 1 /\ \A k \in Nat : Power[k + 1] = 2 * Power[k]
  BY <1>5
<1>7. \A k \in Nat : Power[k] \in Nat
  <2> DEFINE U == {k \in Nat : Power[k] \in Nat}
  <2>1. 0 \in U /\ \A k \in Nat : k \in U => k + 1 \in U
    BY <1>6
  <2> HIDE DEF U
  <2>2. Nat \subseteq U
    BY <2>1, SetInduction
  <2> QED  BY <2>2 DEF U
<1>8. Power \in [Nat -> Nat]
  <2>1. Power = [k \in Nat |-> Power[k]]
    BY <1>5
  <2> QED  BY <1>7, <2>1
<1> QED  BY <1>6, <1>8

\* Some power of two is large enough.
LEMMA PowersGrow == \A k \in Nat : Power[k] >= k
<1> DEFINE U == {k \in Nat : Power[k] >= k /\ Power[k] >= 1}
<1>1. 0 \in U /\ \A k \in Nat : k \in U => k + 1 \in U
  BY Powers
<1> HIDE DEF U
<1>2. Nat \subseteq U
  BY <1>1, SetInduction
<1> QED  BY <1>2 DEF U

\* The size a buffer grows to is enough (OutputByteBuf.hpp).
LEMMA PowerOfTwoIsEnough == \A m \in Nat : PowerOfTwo(m) \in Nat /\ PowerOfTwo(m) >= m
<1> SUFFICES ASSUME NEW m \in Nat PROVE PowerOfTwo(m) \in Nat /\ PowerOfTwo(m) >= m
  OBVIOUS
<1> DEFINE S == {p \in {Power[k] : k \in 0 .. m} : p >= m}
<1>1. S \in SUBSET Nat
  BY Powers
<1>2. Power[m] \in S
  BY PowersGrow
<1>3. Min(S) \in S
  <2> HIDE DEF S
  <2> QED  BY <1>1, <1>2, MinIsLeast
<1> QED  BY <1>1, <1>3 DEF PowerOfTwo

--------------------------------------------------------------------------------
\* The first spelling of each type a validator accepts stands for the others.
LEMMA SpellingsAgree ==
  /\ \A t \in InputPointer : SameType("input *", t)
  /\ \A t \in OutputPointer : SameType("output *", t)
  /\ \A t \in ConstInputPointer : SameType("const input *", t)
  /\ \A t \in InputStream : SameType("istream &", t)
  /\ \A t \in OutputStream : SameType("ostream &", t)
  /\ \A t \in {"void"} : SameType("void", t)
  /\ \A t \in {"char *"} : SameType("char *", t)
  /\ \A t \in {"const char *"} : SameType("const char *", t)
  /\ \A t \in {"unsigned int"} : SameType("unsigned int", t)
  /\ \A t \in {"unsigned int *"} : SameType("unsigned int *", t)
BY DEF SameType, InputPointer, OutputPointer, ConstInputPointer, InputStream, OutputStream

\* A validator of a function of one argument finds the one that is called.
LEMMA OneArgument ==
  ASSUME NEW d, NEW n, NEW R, NEW A, IsFunction(d, n, R, <<A>>),
         NEW r, \A t \in R : SameType(r, t), NEW a, \A t \in A : SameType(a, t)
  PROVE  SameFunction(Function(n, r, <<a>>), d)
<1>1. d.kind = "function" /\ d.name = n /\ d.result \in R /\ Len(d.args) = 1 /\ d.args[1] \in A
  BY DEF IsFunction
<1>2. \A k \in DOMAIN <<a>> : SameType(<<a>>[k], d.args[k])
  BY <1>1
<1> QED  BY <1>1, <1>2 DEF SameFunction, Function

\* And of two arguments.
LEMMA TwoArguments ==
  ASSUME NEW d, NEW n, NEW R, NEW A, NEW B, IsFunction(d, n, R, <<A, B>>),
         NEW r, \A t \in R : SameType(r, t),
         NEW a, \A t \in A : SameType(a, t), NEW b, \A t \in B : SameType(b, t)
  PROVE  SameFunction(Function(n, r, <<a, b>>), d)
<1>1. /\ d.kind = "function" /\ d.name = n /\ d.result \in R /\ Len(d.args) = 2
      /\ d.args[1] \in A /\ d.args[2] \in B
  BY DEF IsFunction
<1>2. \A k \in DOMAIN <<a, b>> : SameType(<<a, b>>[k], d.args[k])
  BY <1>1
<1> QED  BY <1>1, <1>2 DEF SameFunction, Function

\* What each validator finds can be called the way the template calls it.
LEMMA FormsDeclared ==
  /\ \A d : Execute(d) => SameFunction(Function("execute", "output *", <<"input *">>), d)
  /\ \A d : InputDeepCopy(d) =>
       SameFunction(Function("input_deep_copy", "input *", <<"const input *">>), d)
  /\ \A d : CppDeserializeInput(d) =>
       SameFunction(Function("deserialize_input", "input *", <<"istream &">>), d)
  /\ \A d : CDeserializeInput(d) =>
       SameFunction(Function("deserialize_input", "input *", <<"const char *", "unsigned int">>), d)
  /\ \A d : CppSerializeOutput(d) =>
       SameFunction(Function("serialize_output", "void", <<"ostream &", "output *">>), d)
  /\ \A d : CSerializeOutput(d) =>
       SameFunction(Function("serialize_output", "char *", <<"output *", "unsigned int *">>), d)
<1>1. ASSUME NEW d, Execute(d)
      PROVE  SameFunction(Function("execute", "output *", <<"input *">>), d)
  BY <1>1, SpellingsAgree, OneArgument DEF Execute
<1>2. ASSUME NEW d, InputDeepCopy(d)
      PROVE  SameFunction(Function("input_deep_copy", "input *", <<"const input *">>), d)
  BY <1>2, SpellingsAgree, OneArgument DEF InputDeepCopy
<1>3. ASSUME NEW d, CppDeserializeInput(d)
      PROVE  SameFunction(Function("deserialize_input", "input *", <<"istream &">>), d)
  BY <1>3, SpellingsAgree, OneArgument DEF CppDeserializeInput
<1>4. ASSUME NEW d, CDeserializeInput(d)
      PROVE  SameFunction(
               Function("deserialize_input", "input *", <<"const char *", "unsigned int">>), d)
  <2> DEFINE A == {"const char *"}
            B == {"unsigned int"}
  <2>1. IsFunction(d, "deserialize_input", InputPointer, <<A, B>>)
    BY <1>4 DEF CDeserializeInput
  <2>2. (\A t \in A : SameType("const char *", t)) /\ \A t \in B : SameType("unsigned int", t)
    BY SpellingsAgree
  <2> HIDE DEF A, B
  <2> QED  BY <2>1, <2>2, SpellingsAgree, TwoArguments
<1>5. ASSUME NEW d, CppSerializeOutput(d)
      PROVE  SameFunction(Function("serialize_output", "void", <<"ostream &", "output *">>), d)
  <2> DEFINE R == {"void"}
  <2>1. IsFunction(d, "serialize_output", R, <<OutputStream, OutputPointer>>)
    BY <1>5 DEF CppSerializeOutput
  <2>2. \A t \in R : SameType("void", t)
    BY SpellingsAgree
  <2> HIDE DEF R
  <2> QED  BY <2>1, <2>2, SpellingsAgree, TwoArguments
<1>6. ASSUME NEW d, CSerializeOutput(d)
      PROVE  SameFunction(
               Function("serialize_output", "char *", <<"output *", "unsigned int *">>), d)
  <2> DEFINE R == {"char *"}
            B == {"unsigned int *"}
  <2>1. IsFunction(d, "serialize_output", R, <<OutputPointer, B>>)
    BY <1>6 DEF CSerializeOutput
  <2>2. (\A t \in R : SameType("char *", t)) /\ \A t \in B : SameType("unsigned int *", t)
    BY SpellingsAgree
  <2> HIDE DEF R, B
  <2> QED  BY <2>1, <2>2, SpellingsAgree, TwoArguments
<1> QED  BY <1>1, <1>2, <1>3, <1>4, <1>5, <1>6

\* A project that is accepted declares whatever the template calls
\* (TranslationUnit.cpp, Project.hpp, Algorithm.hpp).
LEMMA AcceptedIsCallable ==
  ASSUME NEW p, NEW c \in BOOLEAN, Accepted(p, c)
  PROVE  \A f \in TemplateCalls(CppDeserialize(p, c), CppSerialize(p, c)) :
           \E d \in p.input \union p.converter \union p.algorithm : SameFunction(f, d)
<1> DEFINE D == p.input \union p.converter \union p.algorithm
<1>1. \E d \in D : Execute(d)
  BY DEF Accepted
<1>2. \E d \in D : InputDeepCopy(d)
  BY DEF Accepted
<1>3. \E d \in D : IF CppDeserialize(p, c) THEN CppDeserializeInput(d) ELSE CDeserializeInput(d)
  BY DEF Accepted, HasDeserialize, CppDeserialize
<1>4. \E d \in D : IF CppSerialize(p, c) THEN CppSerializeOutput(d) ELSE CSerializeOutput(d)
  BY DEF Accepted, HasSerialize, CppSerialize
<1> HIDE DEF D
<1>5. ASSUME NEW f \in TemplateCalls(CppDeserialize(p, c), CppSerialize(p, c))
      PROVE  \E d \in D : SameFunction(f, d)
  BY <1>1, <1>2, <1>3, <1>4, FormsDeclared DEF TemplateCalls
<1> QED  BY <1>5 DEF D

--------------------------------------------------------------------------------
\* A function on 1 .. n is a sequence.
LEMMA SequenceMade ==
  ASSUME NEW S, NEW n \in Nat, NEW b \in [1 .. n -> S]
  PROVE  b \in Seq(S) /\ Len(b) = n
<1>1. b = [k \in 1 .. n |-> b[k]] /\ \A k \in 1 .. n : b[k] \in S
  OBVIOUS
<1> DEFINE e(k) == b[k]
<1>2. b \in Seq(S)
  BY SeqDef
<1> QED  BY <1>2, LenProperties

\* A buffer is not the null pointer.
LEMMA NoNullText == \A b \in Seq(Cell) : b /= NULL
BY WrappersAssumption DEF Cell

\* What write() makes of the size holds what is there and what comes.
LEMMA Grows ==
  ASSUME Typed, NEW by \in Nat
  PROVE  Grown(by) \in Nat /\ pos_ + by <= Grown(by) /\ size_ <= Grown(by)
<1>1. size_ \in Nat /\ pos_ + by \in Nat
  BY DEF Typed
<1>2. PowerOfTwo(pos_ + by) \in Nat /\ PowerOfTwo(pos_ + by) >= pos_ + by
  BY <1>1, PowerOfTwoIsEnough
<1> QED  BY <1>1, <1>2 DEF Grown

\* expandBuffer() keeps every character that was put.
LEMMA ExpandedKeeps ==
  ASSUME Typed, Buffer, NEW size \in Nat, size_ <= size
  PROVE  /\ Expanded(size) \in [1 .. size -> Cell]
         /\ \A k \in 1 .. pos_ : Expanded(size)[k] = bulk[k]
<1>1. \A k \in 1 .. size_ : buffer_[k] \in Cell
  BY ElementOfSeq DEF Buffer
<1>2. \A k \in 1 .. pos_ : k \in 1 .. size_ /\ k \in 1 .. size
  BY DEF Typed, Buffer
<1> QED  BY <1>1, <1>2 DEF Typed, Buffer, Expanded, Cell

\* Who writes nothing numbers nothing.
LEMMA NumberedKept == ASSUME Numbered, UNCHANGED <<written, bulk>> PROVE Numbered'
BY DEF Numbered

\* The forms that are compiled are those that were found.
LEMMA ValidateKeeps == IInv /\ Validate => IInv'
<1> SUFFICES ASSUME IInv, Validate PROVE IInv'
  OBVIOUS
<1>1. /\ pc = "validate"
      /\ UNCHANGED <<source, cpp, input, output, text, heap, __error_var, threw, wild>>
      /\ \/ /\ Accepted(source, cpp) /\ pc' = "compiled"
            /\ stream_in' = CppDeserialize(source, cpp) /\ stream_out' = CppSerialize(source, cpp)
         \/ pc' = "rejected" /\ UNCHANGED <<stream_in, stream_out>>
  BY DEF Validate, At
<1>2. CppDeserialize(source, cpp) \in BOOLEAN /\ CppSerialize(source, cpp) \in BOOLEAN
  BY DEF CppDeserialize, CppSerialize
<1>3. Typed'
  BY <1>1, <1>2 DEF IInv, Typed, Calls, input, output
<1>4. ReadsOK'
  BY <1>1 DEF IInv, ReadsOK, ReadsCount, input
<1>5. Output' /\ Errors'
  BY <1>1 DEF IInv, Output, Errors, output
<1>6. Built'
  BY <1>1, Zenon DEF Built
<1>7. Numbered'
  BY <1>1, NumberedKept DEF IInv, output
<1> QED  BY <1>3, <1>4, <1>5, <1>6, <1>7 DEF IInv

\* A step that leaves the streams and the errors alone.
LEMMA CallKeeps ==
  ASSUME IInv, pc' \in {"rejected", "idle", "reading", "plain", "ask"},
         pc /= "writing", pc /= "failed",
         pc' /= "ask" => pc /= "ask", pc' = "ask" => __error_var = NULL,
         source' \in Projects \union {NULL}, cpp' \in BOOLEAN,
         stream_in' = stream_in, stream_out' = stream_out,
         UNCHANGED <<input, output, text, heap, __error_var, threw, wild>>
  PROVE  IInv'
<1>1. Typed'
  BY DEF IInv, Typed, Calls, input, output
<1>2. ReadsOK'
  BY DEF IInv, ReadsOK, ReadsCount, input
<1>3. Output' /\ Errors'
  BY DEF IInv, Output, Errors, output
<1>4. Built'
  BY DEF Built
<1>5. Numbered'
  BY NumberedKept DEF IInv, output
<1> QED  BY <1>1, <1>2, <1>3, <1>4, <1>5 DEF IInv

\* A library has just been loaded.
LEMMA LoadLibraryKeeps == IInv /\ LoadLibrary => IInv'
BY CallKeeps DEF LoadLibrary, At, IInv, Typed

\* A call without streams begins or returns, and one with an input stream returns.
LEMMA PlainKeeps ==
  IInv /\ (CallPlain \/ PlainReturns \/ Deserialized) => IInv'
BY CallKeeps DEF CallPlain, PlainReturns, Deserialized, At, IInv, Typed, Errors, library

\* get_error() gives the message away.
LEMMA AskKeeps == IInv /\ AskError => IInv'
<1> SUFFICES ASSUME IInv, AskError PROVE IInv'
  OBVIOUS
<1>1. pc = "ask" /\ UNCHANGED <<library, input, output, text, threw, wild>>
      /\ \/ __error_var = NULL /\ pc' = "idle" /\ UNCHANGED <<heap, __error_var>>
         \/ /\ __error_var /= NULL /\ pc' = "failed"
            /\ heap' = heap \ {"error"} /\ __error_var' = NULL
  BY DEF AskError, At
<1>2. Typed'
  BY <1>1 DEF IInv, Typed, Calls, library, input, output
<1>3. ReadsOK'
  BY <1>1 DEF IInv, ReadsOK, ReadsCount, input
<1>4. Output' /\ Errors'
  BY <1>1 DEF IInv, Output, Errors, output
<1>5. Built'
  BY <1>1 DEF Built
<1>6. Numbered'
  BY <1>1, NumberedKept DEF IInv, output
<1> QED  BY <1>2, <1>3, <1>4, <1>5, <1>6 DEF IInv

\* An exception unwinds the stream and leaves a message.
LEMMA ThrowsKeeps ==
  ASSUME IInv, NEW what \in {"message", "unknown"}, Throws(what)
  PROVE  IInv'
<1>1. /\ pc \in {"reading", "writing", "plain"} /\ pc' = "ask" /\ threw' = TRUE
      /\ wild' = (__error_var /= NULL) /\ __error_var' = what
      /\ heap' = (heap \union {"error"}) \ (IF buffer_ = NULL THEN {} ELSE {"buffer"})
      /\ buffer_' = NULL
      /\ UNCHANGED <<library, input, pos_, size_, written, bulk, text>>
  BY DEF Throws, Report
<1>2. __error_var = NULL /\ what /= NULL
  BY <1>1, WrappersAssumption DEF IInv, Errors
<1>3. pc = "writing" => buffer_ /= NULL
  BY NoNullText DEF IInv, Output, Buffer
<1>4. Typed'
  BY <1>1, <1>2 DEF IInv, Typed, Calls, library, input
<1>5. ReadsOK'
  BY <1>1 DEF IInv, ReadsOK, ReadsCount, input
<1>6. Output'
  <2>1. "buffer" \in heap' <=> text /= NULL
    <3>1. CASE pc = "writing"
      BY <1>1, <1>3, <3>1 DEF IInv, Output
    <3>2. CASE pc /= "writing"
      BY <1>1, <3>2 DEF IInv, Output
    <3> QED  BY <3>1, <3>2
  <2> QED  BY <1>1, <2>1 DEF IInv, Output
<1>7. Errors'
  BY <1>1, <1>2 DEF Errors
<1>8. Built'
  BY <1>1 DEF Built
<1>9. Numbered'
  BY <1>1, NumberedKept DEF IInv
<1> QED  BY <1>4, <1>5, <1>6, <1>7, <1>8, <1>9 DEF IInv

\* A step of the get area.
LEMMA ReadKeeps ==
  ASSUME IInv, pc \in {"idle", "reading"}, pc' = "reading", gptr' \in 0 .. InputSize,
         read' \in [at : 0 .. InputSize, asked : Nat, bytes : Seq(Nat)], ReadsOK',
         UNCHANGED <<library, output, text, heap, __error_var, threw, wild>>
  PROVE  IInv'
<1>1. Typed'
  BY DEF IInv, Typed, Calls, library, output
<1>2. Output' /\ Errors'
  BY DEF IInv, Output, Errors, output
<1>3. Built'
  BY DEF Built
<1>4. Numbered'
  BY NumberedKept DEF IInv, output
<1> QED  BY <1>1, <1>2, <1>3, <1>4 DEF IInv

\* A stream over the whole input.
LEMMA DeserializeKeeps == IInv /\ Deserialize => IInv'
<1> SUFFICES ASSUME IInv, Deserialize PROVE IInv'
  OBVIOUS
<1>1. read' = NoRead /\ gptr' = 0 /\ 0 \in 0 .. InputSize
  BY WrappersAssumption DEF Deserialize
<1>2. NoRead \in [at : 0 .. InputSize, asked : Nat, bytes : Seq(Nat)] /\ Len(NoRead.bytes) = 0
  BY <1>1 DEF NoRead
<1>3. Min({0, InputSize - 0}) = 0
  BY MinOfTwo, WrappersAssumption
<1>4. ReadsOK'
  BY <1>1, <1>2, <1>3 DEF ReadsOK, ReadsCount, NoRead
<1> QED  BY <1>1, <1>2, <1>4, ReadKeeps DEF Deserialize, At

\* One character, or the end.
LEMMA ReadCharKeeps == IInv /\ ReadChar => IInv'
<1> SUFFICES ASSUME IInv, ReadChar PROVE IInv'
  OBVIOUS
<1>1. gptr \in 0 .. InputSize /\ InputSize \in Nat
  BY WrappersAssumption DEF IInv, Typed
<1>2. Min({1, InputSize - gptr}) = IF gptr < InputSize THEN 1 ELSE 0
  BY <1>1, MinOfTwo
<1>3. CASE gptr < InputSize
  <2>1. gptr' = gptr + 1 /\ read' = [at |-> gptr, asked |-> 1, bytes |-> <<gptr>>]
    BY <1>3 DEF ReadChar
  <2>2. read' \in [at : 0 .. InputSize, asked : Nat, bytes : Seq(Nat)]
    BY <1>1, <2>1
  <2>3. ReadsOK'
    BY <1>1, <1>2, <1>3, <2>1 DEF ReadsOK, ReadsCount
  <2> QED  BY <1>1, <1>3, <2>1, <2>2, <2>3, ReadKeeps DEF ReadChar, At
<1>4. CASE ~(gptr < InputSize)
  <2>1. gptr' = gptr /\ read' = [at |-> gptr, asked |-> 1, bytes |-> <<>>]
    BY <1>4 DEF ReadChar
  <2>2. read' \in [at : 0 .. InputSize, asked : Nat, bytes : Seq(Nat)]
    BY <1>1, <2>1
  <2>3. ReadsOK'
    BY <1>1, <1>2, <1>4, <2>1 DEF ReadsOK, ReadsCount
  <2> QED  BY <1>1, <2>1, <2>2, <2>3, ReadKeeps DEF ReadChar, At
<1> QED  BY <1>3, <1>4

\* One character back, if there is one.
LEMMA UngetKeeps == IInv /\ Unget => IInv'
<1> SUFFICES ASSUME IInv, Unget PROVE IInv'
  OBVIOUS
<1>1. gptr' \in 0 .. InputSize
  BY WrappersAssumption DEF Unget, IInv, Typed
<1>2. ReadsOK'
  BY DEF Unget, IInv, ReadsOK, ReadsCount
<1> QED  BY <1>1, <1>2, ReadKeeps DEF Unget, At, IInv, Typed

\* xsgetn() takes what was asked or what is left.
LEMMA ReadBulkKeeps == ASSUME IInv, NEW n \in Chunks, ReadBulk(n) PROVE IInv'
<1>1. gptr \in 0 .. InputSize /\ InputSize \in Nat /\ n \in Nat
  BY WrappersAssumption DEF IInv, Typed
<1>2. Num(n) = Min({n, InputSize - gptr}) /\ Num(n) \in Nat /\ gptr + Num(n) <= InputSize
  <2>1. Min({n, InputSize - gptr}) = IF n <= InputSize - gptr THEN n ELSE InputSize - gptr
    BY <1>1, MinOfTwo
  <2>2. CASE gptr = InputSize
    BY <1>1, <2>1, <2>2 DEF Num, showmanyc
  <2>3. CASE gptr /= InputSize
    BY <1>1, <2>1, <2>3 DEF Num, showmanyc
  <2> QED  BY <2>2, <2>3
<1>3. Copied(Num(n)) \in Seq(Nat) /\ Len(Copied(Num(n))) = Num(n)
  <2>1. Copied(Num(n)) \in [1 .. Num(n) -> Nat]
    BY <1>2 DEF Copied
  <2> QED  BY <1>2, <2>1, SequenceMade
<1>4. gptr' = gptr + Num(n) /\ read' = [at |-> gptr, asked |-> n, bytes |-> Copied(Num(n))]
  BY DEF ReadBulk
<1>5. ReadsOK'
  BY <1>1, <1>2, <1>3, <1>4 DEF ReadsOK, ReadsCount, Copied
<1> QED  BY <1>1, <1>2, <1>3, <1>4, <1>5, ReadKeeps DEF ReadBulk, At

\* A step that leaves the input and the errors alone and fills the buffer.
LEMMA WriteKeeps ==
  ASSUME IInv, pc \in {"idle", "writing"}, pc' = "writing", text = NULL,
         size_' \in Nat, pos_' \in Nat, written' \in 0 .. MaxText, bulk' \in Seq(Nat),
         Buffer', Numbered', "buffer" \in heap', heap' \subseteq {"buffer", "error"}, wild' = FALSE,
         UNCHANGED <<library, input, text, __error_var, threw>>
  PROVE  IInv'
<1>1. Typed'
  <2>1. pc' \in Calls /\ wild' \in BOOLEAN
    BY DEF Calls
  <2>2. /\ source' \in Projects \union {NULL} /\ gptr' \in 0 .. InputSize
        /\ read' \in [at : 0 .. InputSize, asked : Nat, bytes : Seq(Nat)]
        /\ cpp' \in BOOLEAN /\ stream_in' \in BOOLEAN /\ stream_out' \in BOOLEAN
        /\ __error_var' \in {NULL, "message", "unknown"} /\ threw' \in BOOLEAN
    BY DEF IInv, Typed, library, input
  <2> QED  BY <2>1, <2>2 DEF Typed
<1>2. ReadsOK'
  BY DEF IInv, ReadsOK, ReadsCount, input
<1>3. Output' /\ Errors' /\ Built'
  BY DEF IInv, Output, Errors, Built
<1> QED  BY <1>1, <1>2, <1>3 DEF IInv

\* A new buffer of the initial size.
LEMMA SerializeKeeps == IInv /\ Serialize => IInv'
<1> SUFFICES ASSUME IInv, Serialize PROVE IInv'
  OBVIOUS
<1>1. /\ pc = "idle" /\ pc' = "writing" /\ text = NULL
      /\ buffer_' = [k \in 1 .. Initial |-> JUNK]
      /\ size_' = Initial /\ pos_' = 0 /\ written' = 0 /\ bulk' = <<>>
      /\ heap' = heap \union {"buffer"}
      /\ UNCHANGED <<library, input, text, __error_var, threw, wild>>
  BY DEF Serialize, At
<1>2. size_' \in Nat /\ pos_' \in Nat /\ written' \in 0 .. MaxText /\ bulk' \in Seq(Nat)
  BY <1>1, WrappersAssumption
<1>3. buffer_' \in [1 .. Initial -> Cell]
  BY <1>1 DEF Cell
<1>4. buffer_' \in Seq(Cell) /\ Len(buffer_') = size_'
  BY <1>1, <1>3, SequenceMade, WrappersAssumption
<1>5. Buffer'
  BY <1>1, <1>2, <1>4 DEF Buffer
<1>6. heap' \subseteq {"buffer", "error"} /\ wild' = FALSE
  BY <1>1 DEF IInv, Typed, Errors
<1>7. Numbered'
  BY <1>1 DEF Numbered
<1> QED  BY <1>1, <1>2, <1>5, <1>6, <1>7, WriteKeeps

\* overflow() grows the buffer before it writes.
LEMMA WriteCharKeeps == IInv /\ WriteChar => IInv'
<1> SUFFICES ASSUME IInv, WriteChar PROVE IInv'
  OBVIOUS
<1>1. /\ pc = "writing" /\ pc' = pc /\ written < MaxText /\ written' = written + 1
      /\ size_' = (IF pos_ = size_ THEN Grown(1) ELSE size_)
      /\ buffer_' = [Expanded(size_') EXCEPT ![pos_ + 1] = written + 1]
      /\ wild' = (pos_ >= size_')
      /\ UNCHANGED <<library, input, pos_, bulk, text, heap, __error_var, threw>>
  BY DEF WriteChar, At, SizeForChar
<1>2. Typed /\ Buffer /\ text = NULL /\ "buffer" \in heap
  BY <1>1 DEF IInv, Output
<1>3. size_' \in Nat /\ size_ <= size_' /\ pos_ + 1 <= size_'
  <2>1. size_ \in Nat /\ pos_ \in Nat /\ pos_ <= size_
    BY <1>2 DEF Typed, Buffer
  <2>2. Grown(1) \in Nat /\ pos_ + 1 <= Grown(1) /\ size_ <= Grown(1)
    BY <1>2, Grows
  <2> QED  BY <1>1, <2>1, <2>2
<1>4. /\ Expanded(size_') \in [1 .. size_' -> Cell]
      /\ \A k \in 1 .. pos_ : Expanded(size_')[k] = bulk[k]
  BY <1>2, <1>3, ExpandedKeeps
<1>5. buffer_' \in [1 .. size_' -> Cell] /\ \A k \in 1 .. pos_ : buffer_'[k] = bulk[k]
  <2>1. written + 1 \in Cell
    BY <1>2 DEF Typed, Cell
  <2>2. \A k \in 1 .. pos_ : k \in 1 .. size_' /\ k /= pos_ + 1
    BY <1>2, <1>3 DEF Typed
  <2> QED  BY <1>1, <1>4, <2>1, <2>2
<1>6. buffer_' \in Seq(Cell) /\ Len(buffer_') = size_'
  BY <1>3, <1>5, SequenceMade
<1>7. Buffer'
  BY <1>1, <1>2, <1>3, <1>5, <1>6 DEF Buffer, Typed
<1>8. written' \in 0 .. MaxText /\ pos_' \in Nat
  BY <1>1, <1>2, WrappersAssumption DEF Typed
<1>9. wild' = FALSE
  <2>1. (pos_ >= size_') = FALSE
    BY <1>2, <1>3 DEF Typed
  <2>2. wild' = (pos_ >= size_')
    BY <1>1, Zenon
  <2> QED  BY <2>1, <2>2, Zenon
<1>10. Numbered'
  BY <1>1, <1>2 DEF IInv, Numbered, Typed
<1> QED  BY <1>1, <1>2, <1>3, <1>7, <1>8, <1>9, <1>10, WriteKeeps DEF Typed

\* xsputn() grows it for the whole chunk.
LEMMA WriteBulkKeeps == ASSUME IInv, NEW n \in Chunks, WriteBulk(n) PROVE IInv'
<1> DEFINE s == [k \in 1 .. n |-> written + k]
<1>1. /\ pc = "writing" /\ pc' = pc /\ written + n <= MaxText /\ written' = written + n
      /\ size_' = (IF pos_ + n > size_ THEN Grown(n) ELSE size_)
      /\ buffer_' = [k \in 1 .. size_' |->
                       IF k \in pos_ + 1 .. pos_ + n THEN s[k - pos_] ELSE Expanded(size_')[k]]
      /\ bulk' = bulk \o s
      /\ pos_' = pos_ + n /\ wild' = (pos_ + n > size_')
      /\ UNCHANGED <<library, input, text, heap, __error_var, threw>>
  BY DEF WriteBulk, At, PosAfter
<1>2. Typed /\ Buffer /\ text = NULL /\ "buffer" \in heap /\ n \in Nat
  BY <1>1, WrappersAssumption DEF IInv, Output
<1>3. size_' \in Nat /\ size_ <= size_' /\ pos_ + n <= size_'
  <2>1. size_ \in Nat /\ pos_ \in Nat
    BY <1>2 DEF Typed
  <2>2. Grown(n) \in Nat /\ pos_ + n <= Grown(n) /\ size_ <= Grown(n)
    BY <1>2, Grows
  <2> QED  BY <1>1, <1>2, <2>1, <2>2
<1>4. /\ Expanded(size_') \in [1 .. size_' -> Cell]
      /\ \A k \in 1 .. pos_ : Expanded(size_')[k] = bulk[k]
  BY <1>2, <1>3, ExpandedKeeps
<1>5. s \in Seq(Nat) /\ Len(s) = n /\ \A k \in 1 .. n : s[k] \in Cell
  <2>1. s \in [1 .. n -> Nat]
    BY <1>2 DEF Typed
  <2> QED  BY <1>2, <2>1, SequenceMade DEF Cell
<1> HIDE DEF s
<1>6. /\ bulk' \in Seq(Nat) /\ Len(bulk') = pos_ + n
      /\ \A k \in 1 .. pos_ + n : bulk'[k] = IF k <= pos_ THEN bulk[k] ELSE s[k - pos_]
  <2>1. bulk \in Seq(Nat) /\ Len(bulk) = pos_
    BY <1>2 DEF Typed, Buffer
  <2> QED  BY <1>1, <1>5, <2>1, ConcatProperties
<1>7. /\ buffer_' \in [1 .. size_' -> Cell]
      /\ \A k \in 1 .. pos_ + n : buffer_'[k] = bulk'[k]
  <2>1. \A k \in pos_ + 1 .. pos_ + n : k - pos_ \in 1 .. n /\ ~(k <= pos_)
    BY <1>2 DEF Typed
  <2>2. buffer_' \in [1 .. size_' -> Cell]
    BY <1>1, <1>4, <1>5, <2>1
  <2>3. ASSUME NEW k \in 1 .. pos_ + n PROVE buffer_'[k] = bulk'[k]
    <3>1. k \in 1 .. size_' /\ pos_ \in Nat
      BY <1>2, <1>3 DEF Typed
    <3>2. CASE k <= pos_
      <4>1. k \in 1 .. pos_ /\ k \notin pos_ + 1 .. pos_ + n
        BY <3>1, <3>2
      <4> QED  BY <1>1, <1>4, <1>6, <3>1, <3>2, <4>1
    <3>3. CASE ~(k <= pos_)
      <4>1. k \in pos_ + 1 .. pos_ + n
        BY <1>2, <3>1, <3>3
      <4> QED  BY <1>1, <1>6, <3>1, <3>3, <4>1
    <3> QED  BY <3>2, <3>3
  <2> QED  BY <2>2, <2>3
<1>8. buffer_' \in Seq(Cell) /\ Len(buffer_') = size_'
  BY <1>3, <1>7, SequenceMade
<1>9. Buffer'
  BY <1>1, <1>3, <1>6, <1>7, <1>8 DEF Buffer
<1>10. written' \in 0 .. MaxText /\ pos_' \in Nat
  BY <1>1, <1>2, WrappersAssumption DEF Typed
<1>11. wild' = FALSE
  <2>1. (pos_ + n > size_') = FALSE
    BY <1>2, <1>3 DEF Typed
  <2>2. wild' = (pos_ + n > size_')
    BY <1>1, Zenon
  <2> QED  BY <2>1, <2>2, Zenon
<1>12. Numbered'
  <2>1. \A k \in 1 .. n : s[k] = written + k
    BY DEF s
  <2>2. /\ pos_ \in Nat /\ written \in Nat /\ Len(bulk) = pos_ /\ bulk \in Seq(Nat)
        /\ \A k \in 1 .. pos_ : bulk[k] \in Nat /\ bulk[k] <= written /\ bulk[k] >= 1
        /\ \A i, j \in 1 .. pos_ : i < j => bulk[i] < bulk[j]
    BY <1>2 DEF IInv, Typed, Buffer, Numbered
  <2>3. \A k \in 1 .. pos_ + n : bulk'[k] =
          IF k <= pos_ THEN bulk[k] ELSE written + (k - pos_)
    <3> SUFFICES ASSUME NEW k \in 1 .. pos_ + n
                 PROVE  bulk'[k] = IF k <= pos_ THEN bulk[k] ELSE written + (k - pos_)
      OBVIOUS
    <3>1. bulk'[k] = IF k <= pos_ THEN bulk[k] ELSE s[k - pos_]
      BY <1>6
    <3>2. ~(k <= pos_) => k - pos_ \in 1 .. n
      BY <1>2, <2>2
    <3> QED  BY <2>1, <3>1, <3>2
  <2>4. ASSUME NEW k \in 1 .. pos_ + n PROVE bulk'[k] \in 1 .. written'
    <3>0. written' = written + n /\ k \in Nat /\ 1 <= k
      BY <1>1, <1>2, <2>2
    <3>1. CASE k <= pos_
      <4>1. k \in 1 .. pos_ /\ bulk'[k] = bulk[k]
        BY <2>2, <2>3, <3>0, <3>1
      <4> QED  BY <1>2, <2>2, <3>0, <4>1
    <3>2. CASE ~(k <= pos_)
      <4>1. bulk'[k] = written + (k - pos_) /\ k <= pos_ + n
        BY <1>2, <2>2, <2>3, <3>2
      <4> QED  BY <1>2, <2>2, <3>0, <3>2, <4>1
    <3> QED  BY <3>1, <3>2
  <2>5. ASSUME NEW i \in 1 .. pos_ + n, NEW j \in 1 .. pos_ + n, i < j
        PROVE  bulk'[i] < bulk'[j]
    <3>1. CASE j <= pos_
      BY <1>2, <2>2, <2>3, <2>5, <3>1
    <3>2. CASE ~(j <= pos_) /\ i <= pos_
      BY <1>2, <2>2, <2>3, <2>5, <3>2
    <3>3. CASE ~(i <= pos_)
      BY <1>2, <2>2, <2>3, <2>5, <3>3
    <3> QED  BY <1>2, <2>2, <3>1, <3>2, <3>3
  <2> QED  BY <1>6, <2>4, <2>5 DEF Numbered
<1> QED  BY <1>1, <1>2, <1>3, <1>6, <1>9, <1>10, <1>11, <1>12, WriteKeeps DEF Typed

\* What takeBuffer() gives away is what was put.
LEMMA TakenText == ASSUME Typed, Buffer PROVE SubSeq(buffer_, 1, pos_) = bulk
<1> DEFINE t == SubSeq(buffer_, 1, pos_)
<1>1. \A k \in 1 .. pos_ : buffer_[k] \in Nat
  BY ElementOfSeq DEF Typed, Buffer
<1>2. /\ t \in Seq(Nat) /\ Len(t) = (IF 1 <= pos_ THEN pos_ - 1 + 1 ELSE 0)
      /\ \A k \in 1 .. pos_ - 1 + 1 : t[k] = buffer_[1 + k - 1]
  BY <1>1, SubSeqProperties DEF Typed
<1> HIDE DEF t
<1>3. Len(t) = pos_ /\ \A k \in 1 .. pos_ : t[k] = bulk[k]
  <2>1. pos_ \in Nat /\ pos_ - 1 + 1 = pos_
    BY DEF Typed
  <2>2. \A k \in 1 .. pos_ : 1 + k - 1 = k
    BY <2>1
  <2>3. Len(t) = pos_
    BY <1>2, <2>1
  <2> QED  BY <1>2, <2>1, <2>2, <2>3 DEF Buffer
<1>4. t = bulk
  BY <1>2, <1>3, SeqEqual DEF Typed, Buffer
<1> QED  BY <1>4 DEF t

\* The buffer goes to the caller.
LEMMA SerializedKeeps == IInv /\ Serialized => IInv'
<1> SUFFICES ASSUME IInv, Serialized PROVE IInv'
  OBVIOUS
<1>1. /\ pc = "writing" /\ pc' = "ask" /\ text' = SubSeq(buffer_, 1, pos_)
      /\ heap' = heap /\ buffer_' = NULL
      /\ UNCHANGED <<library, input, pos_, size_, written, bulk, __error_var, threw, wild>>
  BY DEF Serialized, At, AfterTake
<1>2. Typed /\ Buffer /\ "buffer" \in heap
  BY <1>1 DEF IInv, Output
<1>3. text' = bulk /\ text' /= NULL
  <2>1. bulk \in Seq(Cell)
    BY <1>2, SeqMonotonic DEF Typed, Cell
  <2> QED  BY <1>1, <1>2, <2>1, TakenText, NoNullText
<1>4. Typed'
  BY <1>1 DEF IInv, Typed, Calls, library, input
<1>5. ReadsOK'
  BY <1>1 DEF IInv, ReadsOK, ReadsCount, input
<1>6. Output' /\ Errors' /\ Built'
  BY <1>1, <1>2, <1>3 DEF IInv, Output, Errors, Built
<1>7. Numbered'
  BY <1>1, NumberedKept DEF IInv
<1> QED  BY <1>4, <1>5, <1>6, <1>7 DEF IInv

\* Every step keeps the invariant.
LEMMA NextKeeps == IInv /\ [Next]_vars => IInv'
<1> SUFFICES ASSUME IInv, [Next]_vars PROVE IInv'
  OBVIOUS
<1>1. CASE UNCHANGED vars
  BY <1>1 DEF vars, library, input, output, IInv, Typed, ReadsOK, ReadsCount, Output,
     Buffer, Errors, Built, Numbered
<1>2. ASSUME NEW n \in Chunks, ReadBulk(n) \/ WriteBulk(n) PROVE IInv'
  BY <1>2, ReadBulkKeeps, WriteBulkKeeps
<1>3. ASSUME NEW what \in {"message", "unknown"}, Throws(what) PROVE IInv'
  BY <1>3, ThrowsKeeps
<1> QED
  BY <1>1, <1>2, <1>3, ValidateKeeps, LoadLibraryKeeps, DeserializeKeeps, ReadCharKeeps,
     UngetKeeps,
            SerializeKeeps, WriteCharKeeps, SerializedKeeps, PlainKeeps, AskKeeps DEF Next

\* Nothing has been called.
LEMMA InvStart == Init => IInv
<1> SUFFICES ASSUME Init PROVE IInv
  OBVIOUS
<1>1. Typed
  <2>1. NoRead \in [at : 0 .. InputSize, asked : Nat, bytes : Seq(Nat)]
    BY WrappersAssumption DEF NoRead
  <2>2. /\ 0 \in 0 .. InputSize /\ 0 \in 0 .. MaxText /\ 0 \in Nat /\ <<>> \in Seq(Nat)
    BY WrappersAssumption
  <2>3. pc \in Calls /\ source \in Projects \union {NULL} /\ cpp \in BOOLEAN
        /\ stream_in \in BOOLEAN /\ stream_out \in BOOLEAN
        /\ __error_var \in {NULL, "message", "unknown"} /\ threw \in BOOLEAN /\ wild \in BOOLEAN
    BY DEF Init, Calls
  <2>4. heap \subseteq {"buffer", "error"}
    BY DEF Init
  <2> QED  BY <2>1, <2>2, <2>3, <2>4 DEF Init, Typed
<1>2. ReadsOK
  <2>1. Min({0, InputSize - 0}) = 0
    BY MinOfTwo, WrappersAssumption
  <2> QED  BY <2>1 DEF Init, ReadsOK, ReadsCount, NoRead
<1>3. Output /\ Errors /\ Built /\ Numbered
  BY DEF Init, Output, Errors, Built, Numbered
<1> QED  BY <1>1, <1>2, <1>3 DEF IInv

\* The invariant holds throughout.
LEMMA Invariance == Spec => []IInv
BY InvStart, NextKeeps, PTL DEF Spec

--------------------------------------------------------------------------------
\* Types, for any project, input, chunks and text.
THEOREM WrappersTyped == Spec => []TypeOK
<1>1. IInv => TypeOK
  <2> SUFFICES ASSUME IInv PROVE TypeOK
    OBVIOUS
  <2>1. buffer_ = NULL \/ (size_ = Len(buffer_) /\ pos_ <= size_)
    BY DEF IInv, Output, Buffer
  <2> QED  BY <2>1 DEF IInv, Typed, Calls, TypeOK
<1> QED  BY <1>1, Invariance, PTL

\* No stream reads or writes outside its buffer, for any sequence of single and
\* bulk accesses (InputByteBuf.hpp, OutputByteBuf.hpp).
THEOREM AccessesInBounds == Spec => []InBounds
<1>1. IInv => InBounds
  <2> SUFFICES ASSUME IInv PROVE InBounds
    OBVIOUS
  <2>1. DOMAIN read.bytes = 1 .. Len(read.bytes)
    BY DEF IInv, Typed
  <2> QED  BY <2>1 DEF IInv, ReadsOK, Errors, InBounds
<1> QED  BY <1>1, Invariance, PTL

\* A bulk read returns what was asked for or what is left, from where the stream is
\* (InputByteBuf.hpp).
THEOREM ReadsAreCounted == Spec => []ReadsCount
<1>1. IInv => ReadsCount
  BY DEF IInv, ReadsOK
<1> QED  BY <1>1, Invariance, PTL

\* What is given away has every character that was put in bulk, and nothing but
\* characters that were put, each once and in order, however often the buffer has
\* grown (OutputByteBuf.hpp).  Characters put one by one may be missing.
THEOREM BulkTextIsKept == Spec => []BulkTextKept
<1>1. IInv => BulkTextKept
  <2> SUFFICES ASSUME IInv PROVE BulkTextKept
    OBVIOUS
  <2>1. Keeps(bulk)
    <3>1. DOMAIN bulk = 1 .. Len(bulk)
      BY DEF IInv, Typed
    <3> QED  BY <3>1 DEF IInv, Numbered, Keeps
  <2>2. At("writing") => SubSeq(buffer_, 1, pos_) = bulk
    BY TakenText DEF IInv, Output, At
  <2>3. text /= NULL => text = bulk
    BY DEF IInv, Output
  <2> QED  BY <2>1, <2>2, <2>3 DEF BulkTextKept
<1> QED  BY <1>1, Invariance, PTL

\* The buffer is owned by the stream or the caller and is freed on every other way
\* out (OutputByteBuf.hpp, Project.hpp).
THEOREM BufferHasOneOwner == Spec => []BufferOwnedOnce
<1>1. IInv => BufferOwnedOnce
  <2> SUFFICES ASSUME IInv PROVE BufferOwnedOnce
    OBVIOUS
  <2>1. pc = "writing" <=> buffer_ /= NULL
    BY NoNullText DEF IInv, Output, Buffer
  <2> QED  BY <2>1 DEF IInv, Output, BufferOwnedOnce
<1> QED  BY <1>1, Invariance, PTL

\* An exception is reported by the call it ended, and by no other
\* (ErrorReporting.hpp).
THEOREM ThrowsAreReported == Spec => []ThrowsReported
<1>1. IInv => ThrowsReported
  BY DEF IInv, Errors, ThrowsReported
<1> QED  BY <1>1, Invariance, PTL

\* Whatever the validators accept, the templates call only what is declared
\* (TranslationUnit.cpp, Project.hpp, Algorithm.hpp).
THEOREM CallsAreDeclared == Spec => []CallsDeclared
<1>1. IInv => CallsDeclared
  BY AcceptedIsCallable DEF IInv, Typed, Built, CallsDeclared, At
<1> QED  BY <1>1, Invariance, PTL
================================================================================
