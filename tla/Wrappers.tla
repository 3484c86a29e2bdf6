-------------------------------- MODULE Wrappers --------------------------------
(***************************************************************************)
(* src/CompilationTemplates: the functions that are compiled with the      *)
(* user's C++ sources.  The program calls __deserialize_input, __execute,  *)
(* __serialize_output and so on; they call the user's functions, hand them *)
(* the streams the user's signature asks for (InputByteBuf over the input, *)
(* OutputByteBuf that grows a text), and turn exceptions into __error_var, *)
(* which the program asks for after every call (see Guard).  Which streams *)
(* there are is decided by SourceValidation, before the library is built.  *)
(*                                                                         *)
(* The bytes of the input are their positions; the characters user code    *)
(* writes are numbered in the order in which it writes them.  malloc() and *)
(* realloc() give the output buffer its memory; that they fail, which      *)
(* expandBuffer() does not test (OutputByteBuf.hpp:53, 60), is left out.   *)
(***************************************************************************)
EXTENDS Integers, FiniteSetsExt, SourceValidation

CONSTANTS
  Projects,   \* the declarations in a project's files, see SourceValidation
  InputSize,  \* the length of the input file
  Initial,    \* the first size of an output buffer (512 in the code)
  Chunks,     \* how many characters one bulk read or write may ask for
  MaxText,    \* a bound on the characters written in one call
  NULL, JUNK  \* nullptr, and the content of memory nobody wrote

ASSUME WrappersAssumption ==
  /\ InputSize \in Nat /\ Initial \in Nat \ {0} /\ Chunks \subseteq Nat
  /\ MaxText \in Nat /\ JUNK \notin Nat
  /\ NULL \notin Nat \union {"message", "unknown"} /\ NULL \notin Seq(Nat \union {JUNK})

VARIABLES
  pc,               \* the call that goes on: see TypeOK
  source, cpp,      \* until it is loaded: the project, and which program runs
  stream_in,        \* the library is compiled with CPP_DESERIALIZE_INPUT
  stream_out,       \* ... and with CPP_SERIALIZE_OUTPUT
  gptr,             \* InputByteBuf: the position of the next byte
  read,             \* ghost: the last read: where, how much was asked, what came
  buffer_,          \* OutputByteBuf: the cells of the buffer, or NULL
  pos_, size_,
  written,          \* ghost: how many characters user code has written
  bulk,             \* ghost: those written in bulk, in order
  text,             \* the buffer __serialize_output returned, or NULL
  heap,             \* ghost: what is allocated: "buffer", "error"
  __error_var,      \* the error a wrapper reported, or NULL
  threw,            \* ghost: user code has thrown an exception
  wild              \* an access out of bounds, or a second free

library == <<source, cpp, stream_in, stream_out>>
input == <<gptr, read>>
output == <<buffer_, pos_, size_, written, bulk>>
vars == <<pc, library, input, output, text, heap, __error_var, threw, wild>>

NoRead == [at |-> 0, asked |-> 0, bytes |-> <<>>]

Init ==
  /\ pc = "validate"
  /\ source \in Projects /\ cpp \in BOOLEAN
  /\ stream_in = FALSE /\ stream_out = FALSE
  /\ gptr = 0 /\ read = NoRead
  /\ buffer_ = NULL /\ pos_ = 0 /\ size_ = 0 /\ written = 0 /\ bulk = <<>>
  /\ text = NULL
  /\ heap = {}
  /\ __error_var = NULL /\ threw = FALSE
  /\ wild = FALSE

At(l) == pc = l /\ ~wild

--------------------------------------------------------------------------------
(* The library is built for what the sources declare. *)

\* validateSourceFiles() and compilationDefines().
Validate ==
  /\ At("validate")
  /\ IF Accepted(source, cpp)
     THEN /\ pc' = "compiled"
          /\ stream_in' = CppDeserialize(source, cpp)
          /\ stream_out' = CppSerialize(source, cpp)
     ELSE pc' = "rejected" /\ UNCHANGED <<stream_in, stream_out>>
  /\ UNCHANGED <<source, cpp, input, output, text, heap, __error_var, threw, wild>>

\* The library is loaded; the sources are not looked at any more.
LoadLibrary ==
  /\ At("compiled")
  /\ pc' = "idle"
  /\ source' = NULL /\ cpp' = FALSE
  /\ UNCHANGED <<stream_in, stream_out, input, output, text, heap, __error_var, threw, wild>>

--------------------------------------------------------------------------------
(* Reading: __deserialize_input with a stream. *)

Deserialize ==
  /\ At("idle") /\ stream_in
  /\ pc' = "reading"
  /\ gptr' = 0 /\ read' = NoRead
  /\ UNCHANGED <<library, output, text, heap, __error_var, threw, wild>>

\* A character taken from the get area, or none at its end: std::streambuf,
\* which is given the whole input as its get area.
ReadChar ==
  /\ At("reading")
  /\ gptr' = IF gptr < InputSize THEN gptr + 1 ELSE gptr
  /\ read' = [at |-> gptr, asked |-> 1,
              bytes |-> IF gptr < InputSize THEN <<gptr>> ELSE <<>>]
  /\ UNCHANGED <<pc, library, output, text, heap, __error_var, threw, wild>>

Unget ==
  /\ At("reading") /\ gptr > 0
  /\ gptr' = gptr - 1
  /\ UNCHANGED <<pc, library, read, output, text, heap, __error_var, threw, wild>>

\* showmanyc(): what is left.
showmanyc == IF gptr = InputSize THEN -1 ELSE InputSize - gptr

\* How much xsgetn(n) reads (mutant: as much as it is asked for).
NumAsked(n) == n
Num(n) == IF showmanyc = -1 THEN 0 ELSE Min({n, showmanyc})

\* The bytes xsgetn copies: it copies from arr_, not from gptr.
Copied(num) == [k \in 1 .. num |-> k - 1]

ReadBulk(n) ==
  /\ At("reading")
  /\ gptr' = gptr + Num(n)
  /\ read' = [at |-> gptr, asked |-> n, bytes |-> Copied(Num(n))]
  /\ UNCHANGED <<pc, library, output, text, heap, __error_var, threw, wild>>

Deserialized ==
  /\ At("reading")
  /\ pc' = "ask"
  /\ UNCHANGED <<library, input, output, text, heap, __error_var, threw, wild>>

--------------------------------------------------------------------------------
(* Writing: __serialize_output with a stream. *)

\* std::pow(2, std::ceil(std::log2(m))): the least power of two that is at least m.
Power[k \in Nat] == IF k = 0 THEN 1 ELSE 2 * Power[k - 1]
PowerOfTwo(m) == Min({p \in {Power[k] : k \in 0 .. m} : p >= m})

\* The size after expandBuffer(by) (mutant: of a buffer that is in use, too,
\* only the new part is counted).
GrownBy(by) == IF by <= size_ THEN size_ ELSE PowerOfTwo(by)
Grown(by) == IF pos_ + by <= size_ THEN size_ ELSE PowerOfTwo(pos_ + by)

\* realloc() keeps the cells there were.
Expanded(size) == [k \in 1 .. size |-> IF k <= size_ THEN buffer_[k] ELSE JUNK]

\* The first expandBuffer(512), in the constructor.
Serialize ==
  /\ At("idle") /\ stream_out /\ text = NULL
  /\ pc' = "writing"
  /\ buffer_' = [k \in 1 .. Initial |-> JUNK]
  /\ size_' = Initial /\ pos_' = 0 /\ written' = 0 /\ bulk' = <<>>
  /\ heap' = heap \union {"buffer"}
  /\ UNCHANGED <<library, input, text, __error_var, threw, wild>>

\* overflow(c): sputc() always gets here, since there is no put area.  The
\* character is stored and pos_ stays (mutant: a full buffer is not expanded).
SizeKept == size_
SizeForChar == IF pos_ = size_ THEN Grown(1) ELSE size_

WriteChar ==
  /\ At("writing") /\ written < MaxText
  /\ size_' = SizeForChar
  /\ buffer_' = [Expanded(size_') EXCEPT ![pos_ + 1] = written + 1]
  /\ wild' = (pos_ >= size_')
  /\ written' = written + 1
  /\ UNCHANGED <<pc, library, input, pos_, bulk, text, heap, __error_var, threw>>

\* xsputn(s, n) (mutant: pos_ is left where it was).
PosKept(n) == pos_
PosAfter(n) == pos_ + n

WriteBulk(n) ==
  /\ At("writing") /\ written + n <= MaxText
  /\ LET s == [k \in 1 .. n |-> written + k]
     IN  /\ size_' = IF pos_ + n > size_ THEN Grown(n) ELSE size_
         /\ buffer_' = [k \in 1 .. size_' |->
                          IF k \in pos_ + 1 .. pos_ + n THEN s[k - pos_] ELSE Expanded(size_')[k]]
         /\ bulk' = bulk \o s
  /\ wild' = (pos_ + n > size_')
  /\ pos_' = PosAfter(n)
  /\ written' = written + n
  /\ UNCHANGED <<pc, library, input, text, heap, __error_var, threw>>

\* What takeBuffer() leaves to the destructor (mutant: the buffer).
StillMine == buffer_
AfterTake == NULL

\* takeBuffer(*n), and then the destructor, which frees what is left to it.
Serialized ==
  /\ At("writing")
  /\ text' = SubSeq(buffer_, 1, pos_)
  /\ heap' = IF AfterTake = NULL THEN heap ELSE heap \ {"buffer"}
  /\ buffer_' = NULL
  /\ pc' = "ask"
  /\ UNCHANGED <<library, input, pos_, size_, written, bulk, __error_var, threw, wild>>

--------------------------------------------------------------------------------
(* Exceptions, and the calls that have no stream. *)

\* __input_deep_copy, __execute, and the two others with raw pointers.
CallPlain ==
  /\ At("idle")
  /\ pc' = "plain"
  /\ UNCHANGED <<library, input, output, text, heap, __error_var, threw, wild>>

PlainReturns ==
  /\ At("plain")
  /\ pc' = "ask"
  /\ UNCHANGED <<library, input, output, text, heap, __error_var, threw, wild>>

\* What __report_error(what) leaves in __error_var (mutant: an exception that
\* is no std::exception is caught and not reported).
ReportKnown(what) == IF what = "unknown" THEN NULL ELSE what
Report(what) == what

\* The user's function throws; both catch clauses report and return nullptr,
\* and ~OutputByteBuf() frees a buffer that goes out of scope.
Throws(what) ==
  /\ pc \in {"reading", "writing", "plain"} /\ ~wild
  /\ threw' = TRUE
  /\ wild' = (__error_var /= NULL)
  /\ __error_var' = Report(what)
  /\ heap' = (heap \union {"error"}) \ (IF buffer_ = NULL THEN {} ELSE {"buffer"})
  /\ buffer_' = NULL
  /\ pc' = "ask"
  /\ UNCHANGED <<library, input, pos_, size_, written, bulk, text>>

\* guardVoid() asks __error(): with an error it copies the message, calls
\* __clear_error() and ends the run; without one the call is over.
AskError ==
  /\ At("ask")
  /\ IF __error_var = NULL
     THEN pc' = "idle" /\ UNCHANGED <<heap, __error_var>>
     ELSE pc' = "failed" /\ heap' = heap \ {"error"} /\ __error_var' = NULL
  /\ UNCHANGED <<library, input, output, text, threw, wild>>

Next ==
  \/ Validate \/ LoadLibrary
  \/ Deserialize \/ ReadChar \/ Unget \/ Deserialized
  \/ Serialize \/ WriteChar \/ Serialized
  \/ \E n \in Chunks : ReadBulk(n) \/ WriteBulk(n)
  \/ CallPlain \/ PlainReturns \/ AskError
  \/ \E what \in {"message", "unknown"} : Throws(what)

Spec == Init /\ [][Next]_vars

--------------------------------------------------------------------------------
TypeOK ==
  /\ pc \in {"validate", "rejected", "compiled", "idle", "reading", "writing", "plain", "ask", "failed"}
  /\ source \in Projects \union {NULL}
  /\ {cpp, stream_in, stream_out} \subseteq BOOLEAN
  /\ gptr \in 0 .. InputSize
  /\ read.at \in 0 .. InputSize /\ read.asked \in Nat /\ read.bytes \in Seq(Nat)
  /\ buffer_ = NULL \/ (size_ = Len(buffer_) /\ pos_ <= size_)
  /\ size_ \in Nat /\ pos_ \in Nat /\ written \in 0 .. MaxText
  /\ heap \subseteq {"buffer", "error"}
  /\ __error_var \in {NULL, "message", "unknown"}
  /\ threw \in BOOLEAN /\ wild \in BOOLEAN

\* A library that is built calls only what the user's sources declare, in the
\* very form the template was compiled for, whatever mixture of converters
\* they declare (ProjectCompilationInput.cpp:101-155 against Project.hpp).
CallsDeclared ==
  At("compiled") => \A f \in TemplateCalls(stream_in, stream_out) :
    \E d \in source.input \union source.converter \union source.algorithm : SameFunction(f, d)

\* Every access of the stream buffers is inside the input or the buffer, over
\* any mix of single and bulk reads and writes that make the buffer grow
\* (InputByteBuf.hpp:26, OutputByteBuf.hpp:20-28, 57-60).
InBounds ==
  /\ ~wild
  /\ \A k \in DOMAIN read.bytes : read.bytes[k] < InputSize

\* A bulk read takes as much as it is asked for, or what is left: the position
\* stays the number of bytes user code has consumed, whatever it ungets
\* (InputByteBuf.hpp:21-29).
ReadsCount == Len(read.bytes) = Min({read.asked, InputSize - read.at})

\* "receives strem of content of <io_filename_root>.input" (README.md:32): a
\* read delivers the bytes from where the one before it has stopped.
ReadsInOrder == \A k \in DOMAIN read.bytes : read.bytes[k] = read.at + k - 1

\* A text that lacks nothing of what was written in bulk and has nothing else
\* than characters that were written, each once and in their order.
Keeps(t) ==
  /\ \A k \in DOMAIN bulk : \E i \in DOMAIN t : t[i] = bulk[k]
  /\ \A i \in DOMAIN t : t[i] \in 1 .. written
  /\ \A i, j \in DOMAIN t : i < j => t[i] < t[j]

\* What is written in bulk is in the text, complete and in order, although
\* single characters are stored in between and the buffer moves; no cell that
\* nobody wrote is (OutputByteBuf.hpp:17-31, 57-60).  It says nothing of the
\* single characters: see TextComplete.
BulkTextKept ==
  /\ At("writing") => Keeps(SubSeq(buffer_, 1, pos_))
  /\ text /= NULL => Keeps(text)

\* serialize_output(std::ostream&, output*) "writes its serialized representation
\* to the stream" (README.md:35), and the .output file has it (README.md:39):
\* the text is all that user code wrote, character by character or in bulk.  The
\* code does not keep that: overflow() loses its character, so that this is no
\* property of Spec, and BulkTextKept is what is left of it.
TextComplete == text /= NULL => text = [k \in 1 .. written |-> k]

\* The buffer belongs to the stream while it is written, to the caller once it
\* was returned, and to no one after an exception; it is never freed twice, and
\* a text that was returned is still allocated.
BufferOwnedOnce ==
  ("buffer" \in heap) <=> (buffer_ /= NULL \/ text /= NULL)

\* No call that threw is taken for one that returned: the run ends, with the
\* error cleared and freed (Project.hpp:53-62, ErrorReporting.hpp:27-39).
ThrowsReported ==
  /\ threw => pc \in {"ask", "failed"}
  /\ pc = "failed" => threw /\ "error" \notin heap

================================================================================
