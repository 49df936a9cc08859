------------------------------- MODULE MCCleanup -------------------------------
(***************************************************************************)
(* Instances of Cleanup.                                                   *)
(***************************************************************************)
EXTENDS Cleanup

Default == [filePerProc |-> TRUE, uniqueDir |-> FALSE, off |-> {}]

\* The defaults, one shared file, a directory per file, and a benchmark of which
\* some phases are off, one that deletes among them.
MCConfigs == { Default, [Default EXCEPT !.filePerProc = FALSE],
               [Default EXCEPT !.uniqueDir = TRUE], [Default EXCEPT !.off = {3, 6}] }

===============================================================================
