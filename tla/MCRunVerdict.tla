----------------------------- MODULE MCRunVerdict -----------------------------
(***************************************************************************)
(* Instances of RunVerdict: an excerpt of phases[] with one phase of every *)
(* kind, mandatory and optional, and the option records worth telling      *)
(* apart.                                                                  *)
(***************************************************************************)
EXTENDS RunVerdict

\* Both groups, both write kinds, an optional phase before and after mandatory
\* ones, and the two sections whose validate() complains.
MCPhases ==
  << p_debug, p_ior_easy_write, p_timestamp, p_mdtest_hard, p_mdtest_hard_write,
     p_find, p_mdworkbench_bench, p_mdtest_hard_delete >>

\* One runtime below both minimum times, one between them, one above.
MCTimes == {1, 30, 300}

Plain == [mode |-> "standard", cleanup_only |-> FALSE, dry_run |-> FALSE,
          pause_dir |-> FALSE, scc |-> FALSE, stonewall |-> 300,
          files_per_dir |-> 0, off |-> {}, ext_find |-> {}]

\* Single departures from the defaults, in both modes and both rule sets.
MCOptions ==
  UNION {{o, [o EXCEPT !.mode = "extended"]} : o \in
    {Plain,
     [Plain EXCEPT !.scc = TRUE, !.stonewall = 30],
     [Plain EXCEPT !.scc = TRUE],
     [Plain EXCEPT !.stonewall = 1],
     [Plain EXCEPT !.files_per_dir = 1],
     [Plain EXCEPT !.dry_run = TRUE],
     [Plain EXCEPT !.pause_dir = TRUE],
     [Plain EXCEPT !.cleanup_only = TRUE],
     [Plain EXCEPT !.dry_run = TRUE, !.cleanup_only = TRUE],
     [Plain EXCEPT !.off = {"find"}],
     [Plain EXCEPT !.off = {"ior-easy"}],
     [Plain EXCEPT !.off = {"mdworkbench", "mdtest-hard-delete"}],
     [Plain EXCEPT !.ext_find = {"find"}]}}

DebugOptions == {[Plain EXCEPT !.files_per_dir = 1], [Plain EXCEPT !.stonewall = 1]}

===============================================================================
