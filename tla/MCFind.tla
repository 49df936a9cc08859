-------------------------------- MODULE MCFind --------------------------------
(***************************************************************************)
(* Instances of Find.                                                      *)
(***************************************************************************)
EXTENDS Find

\* The three find phases of the extended mode: two that share MPI_COMM_WORLD with
\* a search on fewer ranks, on no rank, or on one rank in between; two searches on
\* different communicators; and more processes than there are ranks.
MCSections == { <<Unset, 2, Unset>>, <<Unset, 0, Unset>>, <<1, Unset, 2>>, <<Unset, 4>> }

===============================================================================
