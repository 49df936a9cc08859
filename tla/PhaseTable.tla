------------------------------ MODULE PhaseTable ------------------------------
(***************************************************************************)
(* The static table of the benchmark: one row per u_phase_t, in the order  *)
(* of phases[].  A row keeps what the control flow of main() looks at:     *)
(*                                                                         *)
(*   type    the bits of io500_phase_type, as a set of flags               *)
(*   kind    what run() executes; "none" is a NULL run pointer             *)
(*   gates   the ini sections whose "run" option run() tests before it     *)
(*           starts its benchmark                                          *)
(*   verify_stonewall, group   as in the structure                         *)
(*                                                                         *)
(* The argument vectors that run() hands to IOR, mdtest and pfind are not  *)
(* kept.                                                                   *)
(***************************************************************************)
EXTENDS Sequences

Flags  == {"DUMMY", "WRITE", "READ", "REMOVE", "OPTIONAL"}
Groups == {"NO_SCORE", "MD", "BW"}
Kinds  == {"none", "ior_write", "ior_read", "mdtest", "mdworkbench",
           "find", "timestamp"}

Row(name, type, group, kind, gates, verify_stonewall) ==
  [name |-> name, type |-> type, group |-> group, kind |-> kind,
   gates |-> gates, verify_stonewall |-> verify_stonewall]

\* A section that only carries options: its run pointer is NULL.
Section(name, type) == Row(name, type, "NO_SCORE", "none", {}, FALSE)

-------------------------------------------------------------------------------
p_opt              == Section("global", {"DUMMY"})
p_debug            == Section("debug", {"DUMMY"})
p_ior_easy         == Section("ior-easy", {"DUMMY"})
p_mdtest_easy      == Section("mdtest-easy", {"DUMMY"})
p_mdworkbench      == Section("mdworkbench", {"DUMMY", "OPTIONAL"})
p_ior_hard         == Section("ior-hard", {"DUMMY"})
p_mdtest_hard      == Section("mdtest-hard", {"DUMMY"})
p_timestamp        == Row("timestamp", {"DUMMY"}, "NO_SCORE", "timestamp", {}, FALSE)

p_ior_easy_write   == Row("ior-easy-write", {"WRITE"}, "BW", "ior_write",
                          {"ior-easy", "ior-easy-write"}, TRUE)
p_ior_easy_read    == Row("ior-easy-read", {"READ"}, "BW", "ior_read",
                          {"ior-easy", "ior-easy-read"}, FALSE)
p_ior_hard_write   == Row("ior-hard-write", {"WRITE"}, "BW", "ior_write",
                          {"ior-hard", "ior-hard-write"}, TRUE)
p_ior_hard_read    == Row("ior-hard-read", {"READ"}, "BW", "ior_read",
                          {"ior-hard", "ior-hard-read"}, FALSE)
p_ior_rnd4K_easy_read == Row("ior-rnd4K-easy-read", {"READ"}, "NO_SCORE", "ior_read",
                          {"ior-easy", "ior-rnd4K-easy-read"}, FALSE)

p_mdtest_easy_write  == Row("mdtest-easy-write", {"WRITE"}, "MD", "mdtest",
                            {"mdtest-easy", "mdtest-easy-write"}, TRUE)
p_mdtest_easy_stat   == Row("mdtest-easy-stat", {"READ"}, "MD", "mdtest",
                            {"mdtest-easy", "mdtest-easy-stat"}, FALSE)
p_mdtest_easy_delete == Row("mdtest-easy-delete", {"REMOVE"}, "MD", "mdtest",
                            {"mdtest-easy", "mdtest-easy-delete"}, FALSE)
p_mdtest_hard_write  == Row("mdtest-hard-write", {"WRITE"}, "MD", "mdtest",
                            {"mdtest-hard", "mdtest-hard-write"}, TRUE)
p_mdtest_hard_stat   == Row("mdtest-hard-stat", {"READ"}, "MD", "mdtest",
                            {"mdtest-hard", "mdtest-hard-stat"}, FALSE)
p_mdtest_hard_read   == Row("mdtest-hard-read", {"READ"}, "MD", "mdtest",
                            {"mdtest-hard", "mdtest-hard-read"}, FALSE)
p_mdtest_hard_delete == Row("mdtest-hard-delete", {"REMOVE"}, "MD", "mdtest",
                            {"mdtest-hard", "mdtest-hard-delete"}, FALSE)

\* The md-workbench phases have a "run" option of their own, but run() tests
\* only that of [mdworkbench].
p_mdworkbench_create == Row("mdworkbench-create", {"WRITE", "OPTIONAL"},
                            "NO_SCORE", "mdworkbench", {"mdworkbench"}, FALSE)
p_mdworkbench_bench  == Row("mdworkbench-bench", {"WRITE", "OPTIONAL"},
                            "MD", "mdworkbench", {"mdworkbench"}, FALSE)
p_mdworkbench_delete == Row("mdworkbench-delete", {"REMOVE", "OPTIONAL"},
                            "NO_SCORE", "mdworkbench", {"mdworkbench"}, FALSE)

p_find      == Row("find", {"READ"}, "MD", "find", {"find"}, FALSE)
p_find_easy == Row("find-easy", {"READ", "OPTIONAL"}, "MD", "find", {"find-easy"}, FALSE)
p_find_hard == Row("find-hard", {"READ", "OPTIONAL"}, "MD", "find", {"find-hard"}, FALSE)

phases == <<
  p_opt, p_debug, p_ior_easy, p_ior_easy_write, p_mdtest_easy, p_mdtest_easy_write,
  p_mdworkbench, p_mdworkbench_create, p_timestamp, p_find_easy, p_ior_hard,
  p_ior_hard_write, p_mdtest_hard, p_mdtest_hard_write, p_find, p_find_hard,
  p_mdworkbench_bench, p_ior_easy_read, p_mdtest_easy_stat, p_ior_hard_read,
  p_mdtest_hard_stat, p_mdworkbench_delete, p_mdtest_easy_delete,
  p_mdtest_hard_read, p_mdtest_hard_delete, p_ior_rnd4K_easy_read >>

PhaseRows == [name : STRING, type : SUBSET Flags, group : Groups, kind : Kinds,
              gates : SUBSET STRING, verify_stonewall : BOOLEAN]

-------------------------------------------------------------------------------
Optional(p) == "OPTIONAL" \in p.type
Dummy(p)    == "DUMMY" \in p.type

\* The macro of the same name.
RUN_PHASE(p, mode) == ~ (Optional(p) /\ mode = "standard")

\* The three continues at the head of main's phase loop.
Scheduled(p, mode, cleanup_only) ==
  /\ p.kind # "none"
  /\ cleanup_only => "REMOVE" \in p.type
  /\ RUN_PHASE(p, mode)

===============================================================================
