----------------------------- MODULE MCResultFile -----------------------------
(***************************************************************************)
(* Instances of ResultFile: a short table with a phase of every class the  *)
(* hash distinguishes.                                                     *)
(***************************************************************************)
EXTENDS ResultFile

\* Scored, scored and optional, not scored, dummy.
MCPhases == << p_ior_easy_write, p_timestamp, p_find, p_find_easy,
               p_ior_rnd4K_easy_read, p_mdworkbench_delete >>

MCTimes == {1, 300}

MCConfigs == {"config.ini", "another.ini"}

Plain == [mode |-> "standard", cleanup_only |-> FALSE, dry_run |-> FALSE,
          pause_dir |-> FALSE, scc |-> FALSE, stonewall |-> 300,
          files_per_dir |-> 0, off |-> {}, ext_find |-> {"find"}]

MCOptions == {Plain, [Plain EXCEPT !.mode = "extended"],
              [Plain EXCEPT !.mode = "extended", !.cleanup_only = TRUE],
              [Plain EXCEPT !.dry_run = TRUE], [Plain EXCEPT !.pause_dir = TRUE]}

===============================================================================
