----------------------------- MODULE Configuration -----------------------------
(***************************************************************************)
(* src/Support/Configuration: what Configuration::parse() makes of a       *)
(* command line, and next to it what the usage line (README.md:6-14) says  *)
(* of one.  No state: parse() runs once, before anything else.             *)
(*                                                                         *)
(* A command line is the sequence of its words without the program's name: *)
(* <project_name>, <algorithm_name>, <io_filename_root>,                   *)
(* <times_to_execute> and options.  The fourth word is the Number its text *)
(* begins with, the others are names.  A path is a sequence of names; the  *)
(* prefixes and suffixes of file names are left out where the place of the *)
(* name tells what it is.                                                  *)
(***************************************************************************)
EXTENDS Integers, Sequences, FiniteSetsExt

CONSTANTS
  IntMax,    \* INT_MAX
  ULongMax,  \* ULONG_MAX
  Absolute,  \* the words that are absolute paths; all others are relative
  None       \* no number, no path

ASSUME ConfigurationAssumption ==
  IntMax \in Nat /\ ULongMax \in Nat /\ IntMax < ULongMax /\ None \notin Nat

\* minus: the text has a minus sign; digits: the number after it, or None.
Number(minus, digits) == [minus |-> minus, digits |-> digits]

--------------------------------------------------------------------------------
(* <times_to_execute> *)

\* std::stoul: of a negative number, what is left modulo ULONG_MAX + 1.
StoulThrows(w) == w.digits = None \/ w.digits > ULongMax
Stoul(w) == IF w.minus THEN (ULongMax + 1 - w.digits) % (ULongMax + 1) ELSE w.digits

\* (Mutant: INT_MAX is not checked.)
TimesFitULong(w) == ~StoulThrows(w)
TimesFit(w) == ~StoulThrows(w) /\ Stoul(w) <= IntMax

--------------------------------------------------------------------------------
(* The options. *)

PathOptions == {"-dr", "-dl"}
Options == PathOptions \union {"-c", "-d"}
Positions(argv) == 5 .. Len(argv)

\* The loop looks at every word from the fifth on, also at the one behind a
\* path option, and stops at the first it does not know.
OptionsParse(argv) ==
  \A k \in Positions(argv) :
    /\ argv[k] \in Options
    /\ argv[k] \in PathOptions => k < Len(argv)

Given(argv, option) == \E k \in Positions(argv) : argv[k] = option

\* The path behind the last such option.
PathOf(argv, option) ==
  IF Given(argv, option)
  THEN <<argv[Max({k \in Positions(argv) : argv[k] = option}) + 1]>>
  ELSE None

--------------------------------------------------------------------------------
(* The paths a run works with. *)

Resolved(p) == IF p /= <<>> /\ p[1] \in Absolute THEN p ELSE <<"cwd">> \o p

\* When one of the paths is not given, ALGATOR_ROOT is asked, and the one that
\* is given is not assigned (mutant: the local data is looked for in data_root).
DefaultDirAlways(own, name, root) == <<root, "data_root">>
DefaultDir(own, name, root) == IF own = None THEN <<root, name>> ELSE <<>>

DataDir(argv, option, name, root) ==
  LET own == PathOf(argv, option)
      both == Given(argv, "-dr") /\ Given(argv, "-dl")
  IN Resolved(IF both THEN own ELSE DefaultDir(own, name, root))

\* Where everything is, for the two data directories.
Located(argv, data_root, data_local) ==
  LET project == argv[1]
      io == Resolved(<<argv[3]>>)
      proj == data_root \o <<"projects", project>>
      local == data_local \o <<"projects", project>>
  IN [ input_file |-> Append(io, "input"),
       output_file |-> Append(io, "output"),
       status_file |-> Append(io, "status"),
       project_dir |-> proj,
       input_src |-> proj \o <<"proj", "src", "input">>,
       output_src |-> proj \o <<"proj", "src", "output">>,
       data_converter_src |-> proj \o <<"proj", "src", "data_converter">>,
       algorithm_src |-> proj \o <<"algs", argv[2], "src", "algorithm">>,
       temporary_dir |-> data_local \o <<"tmp", project>>,
       algorithm_bin |-> local \o <<"algs", argv[2], "bin">>,
       project_bin |-> local \o <<"proj", "bin">> ]

\* The files parse() wants to find, of those it locates.
Wanted == {"input_file", "project_dir", "input_src", "output_src", "data_converter_src",
           "algorithm_src"}

--------------------------------------------------------------------------------
(* Configuration::parse(): the configuration, or None where it ends in       *)
(* error(), for ALGATOR_ROOT (None when it is not set) and the files there   *)
(* are.                                                                      *)

Parse(argv, root, files) ==
  LET paths == Located(argv, DataDir(argv, "-dr", "data_root", root),
                             DataDir(argv, "-dl", "data_local", root))
  IN IF /\ Len(argv) >= 4
        /\ TimesFit(argv[4])
        /\ OptionsParse(argv)
        /\ root /= None \/ (Given(argv, "-dr") /\ Given(argv, "-dl"))
        /\ \A w \in Wanted : paths[w] \in files
     THEN [times |-> Stoul(argv[4]), paths |-> paths,
           force |-> Given(argv, "-c"), each |-> Given(argv, "-d")]
     ELSE None

--------------------------------------------------------------------------------
(* What the usage line says. *)

\* The words that are operands of the word before them.
IsOperand(argv) ==
  LET operand[k \in Positions(argv)] ==
        k > 5 /\ argv[k - 1] \in PathOptions /\ ~operand[k - 1]
  IN operand

\* The words that are options, and the operand of one that takes a path.
Stands(argv, option) ==
  {k \in Positions(argv) : argv[k] = option /\ ~IsOperand(argv)[k]}
OperandOf(argv, option, default) ==
  IF Stands(argv, option) = {} THEN Resolved(default)
  ELSE Resolved(<<argv[Min(Stands(argv, option)) + 1]>>)

\* [-dr <path>] [-dl <path>] [-c] [-d], each at most once, in any order, after
\* the four words and a number of calls that is one.
FitsUsage(argv) ==
  /\ Len(argv) >= 4
  /\ argv[4].digits /= None /\ ~argv[4].minus /\ argv[4].digits <= IntMax
  /\ \A k \in Positions(argv) : ~IsOperand(argv)[k] =>
       argv[k] \in Options /\ (argv[k] \in PathOptions => k < Len(argv))
  /\ \A o \in Options : \A j, k \in Stands(argv, o) : j = k

Meant(argv, root) ==
  [ times |-> argv[4].digits,
    paths |-> Located(argv, OperandOf(argv, "-dr", <<root, "data_root">>),
                            OperandOf(argv, "-dl", <<root, "data_local">>)),
    force |-> Stands(argv, "-c") /= {}, each |-> Stands(argv, "-d") /= {} ]

\* A command line that fits, for which everything is there.
Usable(argv, root, files) ==
  /\ FitsUsage(argv)
  /\ root /= None \/ (Stands(argv, "-dr") /= {} /\ Stands(argv, "-dl") /= {})
  /\ \A w \in Wanted : Meant(argv, root).paths[w] \in files

================================================================================
