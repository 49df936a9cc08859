------------------------------ MODULE MCIniParse ------------------------------
(***************************************************************************)
(* Instances of IniParse: an excerpt of the table with every type that is  *)
(* checked differently, with and without a default, and all texts of up to *)
(* four of these lines.  As in the tables of test/ini-test.c the mandatory *)
(* option has no default.  One option is made up, thinkTime: no float of   *)
(* the table of io500 is without a default.                                *)
(***************************************************************************)
EXTENDS IniParse

Option(name, type, mandatory, default) ==
  [name |-> name, type |-> type, mandatory |-> mandatory, default |-> default]

MCSections ==
  << [name |-> "global", option |-> << Option("datadir", "INI_STRING", TRUE, Null),
                                       Option("scc", "INI_BOOL", FALSE, "FALSE") >>],
     [name |-> "find",   option |-> << Option("external-mpi-args", "INI_STRING", FALSE, None),
                                       Option("nproc", "INI_UINT", FALSE, Null),
                                       Option("pfind-queue-length", "INI_INT", FALSE, "1") >>],
     [name |-> "mdtest-hard", option |-> << Option("files-per-dir", "INI_UINT64", FALSE, Null) >>],
     [name |-> "mdworkbench", option |-> << Option("waitingTime", "INI_FLOAT", FALSE, "0.0"),
                                            Option("thinkTime", "INI_FLOAT", FALSE, Null) >>] >>

MCNames == {"global", "find", "datadir", "scc", "external-mpi-args", "nproc",
            "pfind-queue-length", "mdtest-hard", "files-per-dir", "mdworkbench", "waitingTime",
            "thinkTime", "nosuch", "SCC"}
MCLower == [name \in MCNames |-> IF name = "SCC" THEN "scc" ELSE name]

MCMatches == [INI_INT |-> {"1", "128"}, INI_UINT |-> {"1", "255"}, INI_UINT64 |-> {"65535"},
              INI_FLOAT |-> {"0.0", "1", "99"}]
\* 128 and 255 are beyond an int of eight bits, 65535 beyond a long of sixteen.
MCNumber == [v \in {"0.0", "1", "99", "128", "255", "65535"} |->
               CASE v = "0.0" -> 0 [] v = "1" -> 1 [] v = "99" -> 99 [] v = "128" -> 128
                 [] v = "255" -> 255 [] v = "65535" -> 65535]
\* A float of three bits, with 100 in the place of 1e38.
MCFloat == [n \in {0, 1, 99, 100} |-> IF n < 8 THEN n ELSE 16 * ((n + 8) \div 16)]
MCTruth == [v \in {"1", "true", "TRUE", "FALSE"} |-> IF v = "FALSE" THEN v ELSE "TRUE"]

MCVals == {None, "./data", "0.0", "1", "2", "99", "128", "255", "65535", "true", "TRUE", "FALSE"}

MCLines == { Section("global"), Section("find"), Section("mdtest-hard"),
             Section("mdworkbench"), Section("nosuch"),
             Assign("datadir", "./data"), Assign("datadir", None),
             Assign("SCC", "true"), Assign("scc", "FALSE"), Assign("scc", "2"),
             Assign("nproc", "1"), Assign("nproc", "255"), Assign("pfind-queue-length", "128"),
             Assign("files-per-dir", "65535"),
             Assign("waitingTime", "1"), Assign("thinkTime", "99"),
             Empty, Other, Newline }

MCTexts == UNION {[1..n -> MCLines] : n \in 0..4}

===============================================================================
