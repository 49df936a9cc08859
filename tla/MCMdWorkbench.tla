---------------------------- MODULE MCMdWorkbench ----------------------------
(***************************************************************************)
(* Instances of MdWorkbench.                                               *)
(***************************************************************************)
EXTENDS MdWorkbench

Full    == [cleanup |-> FALSE, dry |-> FALSE, off |-> FALSE, given |-> FALSE]
Cleanup == [Full EXCEPT !.cleanup = TRUE]

\* Full runs, cleanup runs, and cleanup runs that only print; with the number of
\* objects given by the user too.
MCKinds == {Full, Cleanup, [Cleanup EXCEPT !.dry = TRUE],
            [Full EXCEPT !.given = TRUE], [Cleanup EXCEPT !.given = TRUE]}

\* Also full runs that only print.
DryKinds == {Full, Cleanup, [Full EXCEPT !.dry = TRUE]}

\* Not measured, slower and faster than the default rate.
MCRates == {0, 1, 25}

===============================================================================
