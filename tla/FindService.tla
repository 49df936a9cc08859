----------------------------- MODULE FindService -----------------------------
(***************************************************************************)
(* What the find phases promise to whoever reads their results: each is    *)
(* one search of the whole job.  It either yields nothing, or a report of  *)
(* one row per process that took part, all of that search, and the answer  *)
(* whether anything was found by any of them.  Module Find is shown to     *)
(* implement this.                                                         *)
(***************************************************************************)
EXTENDS Naturals, Sequences

VARIABLES
  members,   \* for each find phase, the processes that take part in it
  reports    \* the reports of the find phases that are over

vars == <<members, reports>>

Nothing == [rows |-> <<>>, found |-> FALSE]

\* Process m has found something in search k exactly if it is in hits.
Counts(k, m, hits) == [find |-> k, hit |-> m \in hits]

\* Rows are told by the errors and the monitor counters of a process; the row of
\* process m is the one with number m + 1.
Report(k, hits) ==
  [rows  |-> [j \in {m + 1 : m \in members[k]} |->
                <<Counts(k, j - 1, hits), Counts(k, j - 1, hits)>>],
   found |-> hits # {}]

Init == reports = <<>>

Search ==
  LET k == Len(reports) + 1
  IN
  /\ k <= Len(members)
  /\ \/ reports' = Append(reports, Nothing)
     \/ /\ members[k] # {}
        /\ \E hits \in SUBSET members[k] : reports' = Append(reports, Report(k, hits))
  /\ UNCHANGED members

Spec == Init /\ [][Search]_vars

===============================================================================
