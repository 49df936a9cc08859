------------------------------- MODULE Lockstep -------------------------------
(***************************************************************************)
(* What the phase loop of io500 promises to whoever measures: a            *)
(* bulk-synchronous run.  Every rank executes every phase of the schedule  *)
(* once and in order, and nobody begins a phase before everybody has ended *)
(* the one before it.  Module PhaseLoop is shown to implement this.        *)
(***************************************************************************)
EXTENDS Naturals

CONSTANTS
  Ranks,   \* the processes of the job
  Last     \* the number of scheduled phases

VARIABLES
  phase,   \* the phase that is open; Last + 1 when the run is over
  began,   \* began[r]: how many phases rank r has begun
  ended    \* ended[r]: how many phases rank r has ended

vars == <<phase, began, ended>>

Init == /\ phase = 0
        /\ began = [r \in Ranks |-> 0]
        /\ ended = [r \in Ranks |-> 0]

\* A rank calls run() of the open phase.
Begin(r) == /\ phase <= Last
            /\ began[r] = ended[r] /\ ended[r] < phase
            /\ began' = [began EXCEPT ![r] = phase]
            /\ UNCHANGED <<phase, ended>>

\* run() returns on a rank.
End(r) == /\ ended[r] < began[r]
          /\ ended' = [ended EXCEPT ![r] = began[r]]
          /\ UNCHANGED <<phase, began>>

\* The next phase opens once every rank has ended the open one.
Advance == /\ phase <= Last
           /\ \A r \in Ranks : ended[r] = phase
           /\ phase' = phase + 1
           /\ UNCHANGED <<began, ended>>

Next == Advance \/ \E r \in Ranks : Begin(r) \/ End(r)

Spec == Init /\ [][Next]_vars

===============================================================================
