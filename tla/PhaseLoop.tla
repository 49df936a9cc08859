------------------------------ MODULE PhaseLoop ------------------------------
(***************************************************************************)
(* The phase loop of main() as the processes of an MPI job execute it: the *)
(* barriers around run(), the collectives inside it, the pause between     *)
(* phases, the final barrier and the exit.  Every rank runs the same       *)
(* program; rank 0 also judges, prints and polls the pause directory.      *)
(*                                                                         *)
(* MPI matches the collectives of MPI_COMM_WORLD by the order in which     *)
(* each rank calls them, so a rank is described by how many it has called  *)
(* and what the latest one was.  A benchmark program called by run() is    *)
(* one collective of kind "bench" that synchronises the ranks: a rank      *)
(* leaves it after all ranks have entered it.  Two different collectives   *)
(* never match, which leaves the ranks waiting.                            *)
(***************************************************************************)
EXTENDS Integers, Sequences

CONSTANTS
  Size,           \* the number of ranks (opt.mpi_size)
  Schedule,       \* what run() does, for each phase that is not skipped
  Nproc,          \* the option nproc of the find phases that use pfind
  Pause,          \* is pause-dir set?
  PopenMayFail,   \* may popen() fail in run_find?
  MayBeFatal      \* may run() end in FATAL on rank 0?

\* "bench"      IOR, mdtest, md-workbench, or pfind on all ranks (nproc not set)
\* "pfind"      pfind on the communicator split off for nproc
\* "script"     a find phase with an external script
\* "timestamp"  the timestamp phase
\* "nothing"    --dry-run or run = FALSE: run() returns at once on every rank
RunKinds == {"bench", "pfind", "script", "timestamp", "nothing"}

ASSUME SizeAssumption     == Size \in Nat \ {0}
ASSUME ScheduleAssumption == Schedule \in Seq(RunKinds)
ASSUME NprocAssumption    == Nproc \in 0..Size   \* more is FATAL in validate()
ASSUME SwitchAssumption   == {Pause, PopenMayFail, MayBeFatal} \subseteq BOOLEAN

Ranks   == 0..(Size - 1)
Members == {r \in Ranks : r < Nproc}
Last    == Len(Schedule)

VARIABLES
  pc,            \* where each rank is
  i,             \* the phase each rank is at, as an index of Schedule
  ncoll,         \* how many collectives of MPI_COMM_WORLD each rank has called
  kind,          \* the kind of the latest of them
  pause_files,   \* the phases whose pause file lies in pause-dir
  stamped,       \* is there a timestampfile?
  popen_failed,  \* has popen() failed?
  reported,      \* has rank 0 written the [SCORE] line?
  dead           \* ranks that have exited early or were killed

vars == <<pc, i, ncoll, kind, pause_files, stamped, popen_failed, reported, dead>>
environment == <<pause_files, dead>>

-------------------------------------------------------------------------------
Alive(r) == r \notin dead

Goto(r, from, to) == /\ Alive(r) /\ pc[r] = from
                     /\ pc' = [pc EXCEPT ![r] = to]

\* Rank r calls a collective of MPI_COMM_WORLD.
Enter(r, k) == /\ ncoll' = [ncoll EXCEPT ![r] = @ + 1]
               /\ kind' = [kind EXCEPT ![r] = k]

\* The collective that rank r is in completes: every other rank has left it, or
\* has called it too.
CanLeave(r) == \A q \in Ranks : \/ ncoll[q] > ncoll[r]
                                \/ ncoll[q] = ncoll[r] /\ kind[q] = kind[r]

Task(r) == Schedule[i[r]]

-------------------------------------------------------------------------------
Init ==
  /\ pc = [r \in Ranks |-> "top"]
  /\ i = [r \in Ranks |-> 1]
  /\ ncoll = [r \in Ranks |-> 0]
  /\ kind = [r \in Ranks |-> "none"]
  /\ pause_files \in SUBSET (IF Pause THEN 1..Last ELSE {})
  /\ stamped = FALSE /\ popen_failed = FALSE /\ reported = FALSE
  /\ dead = {}

EnterLoopBarrier_Omitted(r) ==
  /\ i[r] <= Last
  /\ Goto(r, "top", IF Pause THEN "pausing" ELSE "run")
  /\ UNCHANGED <<i, ncoll, kind, stamped, popen_failed, reported, environment>>

EnterLoopBarrier(r) ==
  /\ i[r] <= Last
  /\ Goto(r, "top", "loop_barrier")
  /\ Enter(r, "barrier")
  /\ UNCHANGED <<i, stamped, popen_failed, reported, environment>>

LeaveLoopBarrier_RootPausesAlone(r) ==
  /\ CanLeave(r)
  /\ Goto(r, "loop_barrier", IF Pause /\ r = 0 THEN "pausing" ELSE "run")
  /\ UNCHANGED <<i, ncoll, kind, stamped, popen_failed, reported, environment>>

LeaveLoopBarrier(r) ==
  /\ CanLeave(r)
  /\ Goto(r, "loop_barrier", IF Pause THEN "pausing" ELSE "run")
  /\ UNCHANGED <<i, ncoll, kind, stamped, popen_failed, reported, environment>>

\* Rank 0 calls the second barrier when stat() no longer finds the pause file,
\* the others at once.
PauseOver(r) == r = 0 => i[r] \notin pause_files

EnterPauseBarrier(r) ==
  /\ pc[r] = "pausing" /\ PauseOver(r)
  /\ Goto(r, "pausing", "pause_barrier")
  /\ Enter(r, "barrier")
  /\ UNCHANGED <<i, stamped, popen_failed, reported, environment>>

LeavePauseBarrier(r) ==
  /\ CanLeave(r)
  /\ Goto(r, "pause_barrier", "run")
  /\ UNCHANGED <<i, ncoll, kind, stamped, popen_failed, reported, environment>>

-------------------------------------------------------------------------------
\* run() on a rank for which it does nothing that the other ranks notice.
RunAlone(r) ==
  /\ pc[r] = "run"
  /\ \/ Task(r) \in {"nothing", "timestamp"}
     \/ Task(r) = "pfind" /\ r \notin Members
  /\ Goto(r, "run", "after")
  /\ stamped' = (stamped \/ (r = 0 /\ Task(r) = "timestamp"))
  /\ UNCHANGED <<i, ncoll, kind, popen_failed, reported, environment>>

RunBench(r) ==
  /\ pc[r] = "run" /\ Task(r) = "bench"
  /\ Goto(r, "run", "bench")
  /\ Enter(r, "bench")
  /\ UNCHANGED <<i, stamped, popen_failed, reported, environment>>

RunPfind(r) ==
  /\ pc[r] = "run" /\ Task(r) = "pfind" /\ r \in Members
  /\ Goto(r, "run", "pfind")
  /\ UNCHANGED <<i, ncoll, kind, stamped, popen_failed, reported, environment>>

StartScript_NoBarrier ==
  /\ pc[0] = "run" /\ Task(0) = "script"
  /\ Goto(0, "run", "after")
  /\ UNCHANGED <<i, ncoll, kind, stamped, popen_failed, reported, environment>>

\* One process runs the external script, the others wait for it in a barrier.
StartScript ==
  /\ pc[0] = "run" /\ Task(0) = "script"
  /\ Goto(0, "run", "script")
  /\ UNCHANGED <<i, ncoll, kind, stamped, popen_failed, reported, environment>>

\* popen() fails: run_find returns -1 without the barrier the others are in.
PopenFails ==
  /\ PopenMayFail
  /\ pc[0] = "run" /\ Task(0) = "script"
  /\ Goto(0, "run", "after")
  /\ popen_failed' = TRUE
  /\ UNCHANGED <<i, ncoll, kind, stamped, reported, environment>>

EnterFindBarrier(r) ==
  /\ \/ r = 0 /\ pc[r] = "script"
     \/ r # 0 /\ pc[r] = "run" /\ Task(r) = "script"
  /\ Goto(r, pc[r], "find_barrier")
  /\ Enter(r, "barrier")
  /\ UNCHANGED <<i, stamped, popen_failed, reported, environment>>

\* pfind synchronises the ranks of its communicator.
PfindCanEnd(r) ==
  \A q \in Members : i[q] > i[r] \/ (i[q] = i[r] /\ pc[q] \in {"pfind", "after"})

\* run() returns from a collective.
EndRun(r) ==
  /\ \/ pc[r] \in {"bench", "find_barrier"} /\ CanLeave(r)
     \/ pc[r] = "pfind" /\ PfindCanEnd(r)
  /\ Goto(r, pc[r], "after")
  /\ UNCHANGED <<i, ncoll, kind, stamped, popen_failed, reported, environment>>

NextPhase(r) ==
  /\ Goto(r, "after", "top")
  /\ i' = [i EXCEPT ![r] = @ + 1]
  /\ UNCHANGED <<ncoll, kind, stamped, popen_failed, reported, environment>>

-------------------------------------------------------------------------------
EnterFinalBarrier_Omitted(r) ==
  /\ i[r] = Last + 1
  /\ Goto(r, "top", "cleanup")
  /\ reported' = (reported \/ r = 0)
  /\ UNCHANGED <<i, ncoll, kind, stamped, popen_failed, environment>>

EnterFinalBarrier_OffByOne(r) ==
  /\ i[r] >= Last
  /\ Goto(r, "top", "final_barrier")
  /\ Enter(r, "barrier")
  /\ UNCHANGED <<i, stamped, popen_failed, reported, environment>>

EnterFinalBarrier(r) ==
  /\ i[r] = Last + 1
  /\ Goto(r, "top", "final_barrier")
  /\ Enter(r, "barrier")
  /\ UNCHANGED <<i, stamped, popen_failed, reported, environment>>

\* Rank 0 writes the report; every rank goes on to its cleanup functions.
LeaveFinalBarrier(r) ==
  /\ CanLeave(r)
  /\ Goto(r, "final_barrier", "cleanup")
  /\ reported' = (reported \/ r = 0)
  /\ UNCHANGED <<i, ncoll, kind, stamped, popen_failed, environment>>

EnterFinalize(r) ==
  /\ Goto(r, "cleanup", "finalize")
  /\ Enter(r, "finalize")
  /\ UNCHANGED <<i, stamped, popen_failed, reported, environment>>

Exit(r) ==
  /\ CanLeave(r)
  /\ Goto(r, "finalize", "exited")
  /\ UNCHANGED <<i, ncoll, kind, stamped, popen_failed, reported, environment>>

\* FATAL in run(): the files it opens are opened by rank 0 only.
Fatal ==
  /\ MayBeFatal
  /\ Alive(0) /\ pc[0] \in {"run", "script"} /\ Task(0) # "nothing"
  /\ dead' = dead \cup {0}
  /\ UNCHANGED <<pc, i, ncoll, kind, pause_files, stamped, popen_failed, reported>>

\* FATAL calls exit(), not MPI_Abort: it is the launcher of the job that kills
\* the other ranks, each at a time of its own.
Kill(r) ==
  /\ dead # {} /\ Alive(r) /\ pc[r] # "exited"
  /\ dead' = dead \cup {r}
  /\ UNCHANGED <<pc, i, ncoll, kind, pause_files, stamped, popen_failed, reported>>

\* The operator removes a pause file.  Files are not created during the run: one
\* that appears before rank 0 polls for it may as well have been there from the
\* start, and one that appears later is never looked at.
RemovePauseFile(k) ==
  /\ pause_files' = pause_files \ {k}
  /\ UNCHANGED <<pc, i, ncoll, kind, stamped, popen_failed, reported, dead>>

\* A step of the program on rank r, FATAL and a failing popen() apart.
Step(r) ==
  \/ EnterLoopBarrier(r) \/ LeaveLoopBarrier(r)
  \/ EnterPauseBarrier(r) \/ LeavePauseBarrier(r)
  \/ RunAlone(r) \/ RunBench(r) \/ RunPfind(r)
  \/ EnterFindBarrier(r) \/ EndRun(r) \/ NextPhase(r)
  \/ EnterFinalBarrier(r) \/ LeaveFinalBarrier(r) \/ EnterFinalize(r) \/ Exit(r)

Next ==
  \/ \E r \in Ranks : Step(r) \/ Kill(r)
  \/ StartScript \/ PopenFails \/ Fatal
  \/ \E k \in pause_files : RemovePauseFile(k)

Spec == Init /\ [][Next]_vars

\* Every rank is a process the operating system schedules, the external script
\* ends, the launcher kills the ranks of a broken job, and the operator removes
\* every pause file in the end.  Nothing makes popen() fail or FATAL happen.
Fairness ==
  /\ \A r \in Ranks : WF_vars(Step(r)) /\ WF_vars(Kill(r))
  /\ WF_vars(StartScript)
  /\ \A k \in 1..Last : WF_vars(RemovePauseFile(k))

FairSpec == Spec /\ Fairness

-------------------------------------------------------------------------------
States == {"top", "loop_barrier", "pausing", "pause_barrier", "run", "bench", "pfind",
           "script", "find_barrier", "after", "final_barrier", "cleanup", "finalize",
           "exited"}

\* The variables have their types, and no rank loses its place in the schedule:
\* inside the loop it is at a phase, after it at the end.
TypeOK ==
  /\ pc \in [Ranks -> States]
  /\ i \in [Ranks -> 1..(Last + 1)]
  /\ ncoll \in [Ranks -> Nat]
  /\ kind \in [Ranks -> {"none", "barrier", "bench", "finalize"}]
  /\ pause_files \subseteq 1..Last
  /\ stamped \in BOOLEAN
  /\ popen_failed \in BOOLEAN
  /\ reported \in BOOLEAN
  /\ dead \subseteq Ranks
  /\ \A r \in Ranks : /\ pc[r] \in {"final_barrier", "cleanup", "finalize", "exited"} =>
                           i[r] = Last + 1
                      /\ i[r] = Last + 1 => pc[r] \in {"top", "final_barrier", "cleanup",
                                                       "finalize", "exited"}

\* The phases rank r has entered the loop barrier of, begun, and ended.
Running == {"run", "bench", "pfind", "script", "find_barrier"}
Entered(r) == IF pc[r] = "top" THEN i[r] - 1 ELSE i[r]
Began(r)   == IF pc[r] \in Running \cup {"after"} THEN i[r] ELSE i[r] - 1
Ended(r)   == IF pc[r] = "after" THEN i[r] ELSE i[r] - 1
InRun(r)   == pc[r] \in Running

\* While a rank is inside run(), no other rank is inside run() of another phase,
\* and none is still behind: the I/O of one phase is never measured together
\* with that of another.  This is what the barrier at the head of the loop is
\* for; a popen() failure, which leaves a barrier out, is the only thing that
\* can break it.
PhaseIsolation ==
  ~ popen_failed =>
    \A r, q \in Ranks : InRun(r) => /\ Entered(q) >= i[r]
                                    /\ InRun(q) => i[q] = i[r]

\* Two ranks that have called equally many collectives of MPI_COMM_WORLD are in,
\* or have just left, the same one: all paths through the loop body, those of
\* rank 0 included, call the same collectives in the same order.
CollectivesMatch ==
  ~ popen_failed =>
    \A r, q \in Ranks : ncoll[r] = ncoll[q] => kind[r] = kind[q]

\* The find phase counts files "-newer timestampfile".  When rank 0 creates the
\* file, every rank has ended all phases before the timestamp phase and none has
\* begun one after it, though the other ranks do not take part in that phase.
TimestampSeparatesPhases ==
  [][stamped' # stamped /\ ~ popen_failed =>
       \A q \in Ranks : Ended(q) >= i[0] - 1 /\ Began(q) <= i[0]]_vars

\* "Pause between phases while in this directory lies a file with the phase
\* name": no rank runs a phase whose pause file has been there all the time,
\* though only rank 0 looks for it.
PauseHoldsEveryRank ==
  ~ popen_failed => \A q \in Ranks : InRun(q) => i[q] \notin pause_files

\* Rank 0 writes the [SCORE] line after every rank has ended its last phase.
ReportComesLast ==
  reported /\ ~ popen_failed => \A q \in Ranks : i[q] = Last + 1

\* Rank r is in a collective of MPI_COMM_WORLD.
Waiting(r) == pc[r] \in {"loop_barrier", "pause_barrier", "bench", "find_barrier",
                         "final_barrier", "finalize"}

\* It cannot go on before another rank does.
WaitsForRanks(r) == \/ Waiting(r) /\ ~ CanLeave(r)
                    \/ pc[r] = "pfind" /\ ~ PfindCanEnd(r)

\* The ranks never all wait for each other, in the collectives of MPI_COMM_WORLD and
\* in pfind on its own communicator at once: as long as nobody has died and popen()
\* has not failed, somebody can go on, or polls for a pause file, until all have exited.
NeverAllWait ==
  ~ popen_failed /\ dead = {} =>
    \/ \A r \in Ranks : pc[r] = "exited"
    \/ \E r \in Ranks : pc[r] # "exited" /\ ~ WaitsForRanks(r)

\* Every rank exits or is killed: no rank waits for ever in a collective, unless
\* popen() has failed.
Termination == <>(popen_failed \/ \A r \in Ranks : pc[r] = "exited" \/ r \in dead)

\* The abstract run: a phase is open from the moment the last rank has entered
\* its loop barrier.
OpenPhase == CHOOSE k \in 0..(Last + 1) : /\ \A r \in Ranks : Entered(r) >= k
                                          /\ \E r \in Ranks : Entered(r) = k

L == INSTANCE Lockstep WITH
       phase <- OpenPhase,
       began <- [r \in Ranks |-> Began(r)],
       ended <- [r \in Ranks |-> Ended(r)]

\* The job without a failing popen() is a bulk-synchronous run.
ImplementsLockstep == L!Spec

===============================================================================
