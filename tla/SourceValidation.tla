---------------------------- MODULE SourceValidation ----------------------------
(***************************************************************************)
(* src/Compilation/CodeValidator: what a compilation input asks of the     *)
(* declarations libclang finds in the user's sources, which of the two     *)
(* forms of a converter it compiles the library for, and what the compiled *)
(* template then calls.  A declaration is what the validators look at:     *)
(* kind, name, and the spellings of the result and argument types.  A      *)
(* project is a set of declarations for each of its source files.          *)
(***************************************************************************)
EXTENDS Sequences

Function(name, result, args) ==
  [kind |-> "function", name |-> name, result |-> result, args |-> args]
Type(kind, name) == [kind |-> kind, name |-> name, result |-> "", args |-> <<>>]

InputPointer == {"input *", "struct input *"}
OutputPointer == {"output *", "struct output *"}
ConstInputPointer == {"const input *", "const struct input *"}
InputStream == {"istream &", "std::istream &"}
OutputStream == {"ostream &", "std::ostream &"}

--------------------------------------------------------------------------------
(* The validators. *)

\* ClassValidator: a declaration will do, it need not be a definition.
IsClass(d, name) == d.kind \in {"struct", "class"} /\ d.name = name

\* FunctionValidator: the name, the result, and as many arguments as types.
IsFunction(d, name, results, args) ==
  /\ d.kind = "function" /\ d.name = name
  /\ d.result \in results
  /\ Len(d.args) = Len(args) /\ \A k \in DOMAIN args : d.args[k] \in args[k]

InputDeepCopy(d) == IsFunction(d, "input_deep_copy", InputPointer, <<ConstInputPointer>>)
CDeserializeInput(d) ==
  IsFunction(d, "deserialize_input", InputPointer, <<{"const char *"}, {"unsigned int"}>>)
CppDeserializeInput(d) ==
  IsFunction(d, "deserialize_input", InputPointer, <<InputStream>>)
CSerializeOutput(d) ==
  IsFunction(d, "serialize_output", {"char *"}, <<OutputPointer, {"unsigned int *"}>>)
CppSerializeOutput(d) ==
  IsFunction(d, "serialize_output", {"void"}, <<OutputStream, OutputPointer>>)
Execute(d) == IsFunction(d, "execute", OutputPointer, <<InputPointer>>)

--------------------------------------------------------------------------------
(* The two validateSourceFiles(); cpp says which of the two programs they   *)
(* are compiled into.                                                       *)

HasDeserialize(p, cpp) ==
  \E d \in p.converter : CDeserializeInput(d) \/ (cpp /\ CppDeserializeInput(d))
HasSerialize(p, cpp) ==
  \E d \in p.converter : CSerializeOutput(d) \/ (cpp /\ CppSerializeOutput(d))

Accepted(p, cpp) ==
  /\ \E d \in p.input : IsClass(d, "input")
  /\ \E d \in p.input : InputDeepCopy(d)
  /\ \E d \in p.output : IsClass(d, "output")
  /\ HasDeserialize(p, cpp)
  /\ HasSerialize(p, cpp)
  /\ \E d \in p.algorithm : Execute(d)

\* use_cpp_deserialize_input_ and use_cpp_serialize_output_: the form without a
\* stream wins when both are declared (mutant: each direction follows the other).
CppDeserialize(p, cpp) == cpp /\ ~\E d \in p.converter : CDeserializeInput(d)
CppSerializeAsDeserialize(p, cpp) == CppDeserialize(p, cpp)
CppSerialize(p, cpp) == cpp /\ ~\E d \in p.converter : CSerializeOutput(d)

--------------------------------------------------------------------------------
(* The functions Algorithm.hpp and Project.hpp declare and call, the latter *)
(* compiled with CPP_DESERIALIZE_INPUT (in) and CPP_SERIALIZE_OUTPUT (out)  *)
(* or without.                                                              *)

TemplateCalls(in, out) ==
  { Function("execute", "output *", <<"input *">>),
    Function("input_deep_copy", "input *", <<"const input *">>),
    IF in THEN Function("deserialize_input", "input *", <<"istream &">>)
          ELSE Function("deserialize_input", "input *", <<"const char *", "unsigned int">>),
    IF out THEN Function("serialize_output", "void", <<"ostream &", "output *">>)
           ELSE Function("serialize_output", "char *", <<"output *", "unsigned int *">>) }

\* Two spellings of one type.
SameType(s, t) ==
  s = t \/ \E class \in {InputPointer, OutputPointer, ConstInputPointer, InputStream,
                         OutputStream} : {s, t} \subseteq class

\* Two declarations of one function, for the compiler and the linker.
SameFunction(d, e) ==
  /\ d.kind = e.kind /\ d.name = e.name
  /\ SameType(d.result, e.result)
  /\ Len(d.args) = Len(e.args)
  /\ \A k \in DOMAIN d.args : SameType(d.args[k], e.args[k])

================================================================================
