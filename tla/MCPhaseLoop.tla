----------------------------- MODULE MCPhaseLoop -----------------------------
(***************************************************************************)
(* Instances of PhaseLoop.                                                 *)
(***************************************************************************)
EXTENDS PhaseLoop

\* Every kind of run() once, with a benchmark before the timestamp and after the
\* two find phases.
MCSchedule == <<"bench", "timestamp", "pfind", "script", "nothing", "bench">>

\* A find phase that is the last of the schedule: a rank that is out of step
\* then reaches the final barrier.
MCScriptLast == <<"bench", "timestamp", "script", "bench", "script">>

===============================================================================
