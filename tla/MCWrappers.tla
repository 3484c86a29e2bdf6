------------------------------- MODULE MCWrappers -------------------------------
(***************************************************************************)
(* Small instances of Wrappers for TLC: an output buffer of two characters *)
(* grows twice, to four and eight.                                         *)
(***************************************************************************)
EXTENDS Wrappers

MCChunks == 0 .. 3

\* Each declaration the validators look for, in one spelling or another, and
\* some that are nearly right.
MCInput ==
  { Type("class", "input"), Type("struct", "input"),
    Function("input_deep_copy", "struct input *", <<"const struct input *">>),
    Function("input_deep_copy", "input *", <<"input *">>) }

MCOutput == { Type("struct", "output"), Type("class", "outputs") }

MCConverter ==
  { Function("deserialize_input", "input *", <<"const char *", "unsigned int">>),
    Function("deserialize_input", "input *", <<"const char *", "unsigned long">>),
    Function("deserialize_input", "input *", <<"std::istream &">>),
    Function("serialize_output", "char *", <<"struct output *", "unsigned int *">>),
    Function("serialize_output", "char *", <<"struct output *">>),
    Function("serialize_output", "void", <<"ostream &", "output *">>) }

MCAlgorithm ==
  { Function("execute", "struct output *", <<"struct input *">>),
    Function("execute", "output *", <<"input *", "int">>) }

MCProjects == [input : SUBSET MCInput, output : SUBSET MCOutput,
               converter : SUBSET MCConverter, algorithm : SUBSET MCAlgorithm]

================================================================================
