--------------------------------- MODULE MCMain ---------------------------------
(***************************************************************************)
(* Small instances of Main for TLC: ULONG_MAX is 15 and INT_MAX 3, so that *)
(* numbers wrap and overflow, and a run of three calls has a first, a      *)
(* middle and a last iteration.                                            *)
(***************************************************************************)
EXTENDS Main

MCTimes == 0 .. 3

\* Up to three words after the four, and every number with no more words.
Words == {"-dr", "-dl", "-c", "-d", "/data"}
Beginning(n) == <<"Sorting", "QuickSort", "test1", n>>
MCCommandLines ==
  {Beginning(Number(FALSE, 2)) \o w : w \in UNION {[1 .. n -> Words] : n \in 0 .. 4}}
  \union {Beginning(Number(m, d)) : m \in BOOLEAN, d \in {None} \union 0 .. 17}
  \union {<<"--help">>, <<"Sorting", "QuickSort", "test1">>}

\* The files of the project below one data directory, and an input file.
ProjectFiles(dir) ==
  LET line == Beginning(Number(FALSE, 2))
  IN {Located(line, dir, dir)[w] : w \in Wanted}

MCSurroundings ==
  { [root |-> "/algator", files |-> ProjectFiles(<<"/algator", "data_root">>)],
    [root |-> None, files |-> ProjectFiles(<<"/data">>)],
    [root |-> "/algator", files |-> ProjectFiles(<<"cwd">>)],
    [root |-> "/algator", files |->
       {f \in ProjectFiles(<<"/algator", "data_root">>) : f[Len(f)] /= "algorithm"}] }

================================================================================
