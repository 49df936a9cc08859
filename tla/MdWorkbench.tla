------------------------------ MODULE MdWorkbench ------------------------------
(***************************************************************************)
(* How the md-workbench phases agree on the number of objects, within a    *)
(* run and from one run to the next.  mdworkbench_add_params derives it    *)
(* from the rate mdtest-easy-write has measured; the create phase stores   *)
(* the rate in the file mdworkbench-size of the result directory, where a  *)
(* later run with --cleanup, which measures nothing, reads it back.        *)
(*                                                                         *)
(* The runs of this module follow each other with --mode=extended in one   *)
(* result directory and one data directory (the same --timestamp, or       *)
(* none).  The ranks go through a phase together (module PhaseLoop), so    *)
(* that a step is taken by all of them; only rank 0 touches the file.      *)
(***************************************************************************)
EXTENDS Integers

CONSTANTS
  Size,        \* the number of ranks
  Stonewall,   \* opt.stonewall, in seconds
  Rates,       \* the rates mdtest-easy-write may measure, in kIOPS
  UserSize,    \* the value the user gives precreatePerSet and filesPerProc
  Kinds,       \* the ways the operator starts io500
  MaxRuns      \* bound on the number of runs

\* What the command line and the configuration say: --cleanup, --dry-run, and
\* whether [mdworkbench] has run = FALSE and gives precreatePerSet and filesPerProc.
RunKinds == [cleanup : BOOLEAN, dry : BOOLEAN, off : BOOLEAN, given : BOOLEAN]

ASSUME SizeAssumption  == Size \in Nat \ {0} /\ Stonewall \in Nat /\ UserSize \in Nat
ASSUME RatesAssumption == Rates \subseteq Nat
ASSUME KindsAssumption == Kinds \subseteq RunKinds /\ MaxRuns \in Nat

Ranks == 0..(Size - 1)

VARIABLES
  runs,        \* how many runs have been started
  kind,        \* how the latest was started
  phase,       \* the phase it is in
  stage,       \* where in the phase the ranks are
  rate,        \* mdtest->rate in the memory of each rank
  precreate,   \* precreate_per_set on each rank
  size_file,   \* the file mdworkbench-size
  objects      \* objects per set and rank on storage

vars   == <<runs, kind, phase, stage, rate, precreate, size_file, objects>>
memory == <<rate, precreate>>
disk   == <<size_file, objects>>

-------------------------------------------------------------------------------
\* "down"       no run is active
\* "phase"      at the head of a phase
\* "opened"     rank 0 has opened the size file for writing
\* "sized"      the number of objects is known
\* "undefined"  rank 0 has called fclose(NULL)
Stages == {"down", "phase", "opened", "sized", "undefined"}

First(k) == IF k.cleanup THEN "mdworkbench-delete" ELSE "mdtest-easy-write"

After(p) == CASE p = "mdtest-easy-write"  -> "mdworkbench-create"
              [] p = "mdworkbench-create" -> "mdworkbench-bench"
              [] p = "mdworkbench-bench"  -> "mdworkbench-delete"
              [] OTHER                    -> "none"

Launches(k) == ~ k.dry /\ ~ k.off

\* run for 60s
Time == IF Stonewall < 60 THEN Stonewall ELSE 60

PrecreatePerSet(r) == ((r * Time * 1000) \div Size) \div 10

DefaultRate == 10

Bcast_Omitted(v) == v

Bcast(v) == [q \in Ranks |-> v[0]]

OrDefault(v) == [q \in Ranks |-> IF v[q] <= 0 THEN DefaultRate ELSE v[q]]

Init ==
  /\ runs = 0 /\ phase = "none" /\ stage = "down"
  /\ kind = [cleanup |-> FALSE, dry |-> FALSE, off |-> FALSE, given |-> FALSE]
  /\ rate = [q \in Ranks |-> 0] /\ precreate = [q \in Ranks |-> 0]
  /\ size_file = [state |-> "absent", rate |-> 0]
  /\ objects = 0

\* A cleanup follows another run and uses its configuration file, and the operator
\* removes what a failed run has left before starting another full run: this is
\* what --cleanup is for.
StartRun ==
  /\ stage \in {"down", "undefined"} /\ runs < MaxRuns
  /\ \E k \in Kinds : /\ k.cleanup => runs > 0 /\ k.given = kind.given
                      /\ objects > 0 => k.cleanup \/ ~ Launches(k)
                      /\ kind' = k /\ phase' = First(k)
  /\ runs' = runs + 1 /\ stage' = "phase"
  /\ rate' = [q \in Ranks |-> 0] /\ precreate' = [q \in Ranks |-> 0]
  /\ UNCHANGED disk

NextPhase_NoEnd == /\ phase' = After(phase)
                   /\ stage' = "phase"

\* The phase is over; after the last one so is the run.
NextPhase == /\ phase' = After(phase)
             /\ stage' = IF After(phase) = "none" THEN "down" ELSE "phase"

\* mdtest reports its rate to rank 0; what the other ranks hold is not specified.
MdtestEasyWrite ==
  /\ stage = "phase" /\ phase = "mdtest-easy-write"
  /\ IF kind.dry THEN rate' = rate ELSE rate' \in [Ranks -> Rates \cup {0}]
  /\ NextPhase
  /\ UNCHANGED <<runs, kind, precreate, disk>>

\* The user has given the number of objects: nothing is broadcast, stored or read.
GivenSize ==
  /\ stage = "phase" /\ kind.given /\ phase # "mdtest-easy-write"
  /\ precreate' = [q \in Ranks |-> UserSize] /\ stage' = "sized"
  /\ UNCHANGED <<runs, kind, phase, rate, disk>>

Sized(r) == /\ rate' = OrDefault(r)
            /\ precreate' = [q \in Ranks |-> PrecreatePerSet(OrDefault(r)[q])]
            /\ stage' = "sized"

OpenSizeFile_OfMeasuredRate ==
  /\ stage = "phase" /\ phase = "mdworkbench-create" /\ ~ kind.given
  /\ IF rate[0] > 0
       THEN /\ rate' = Bcast(rate) /\ stage' = "opened"
            /\ size_file' = [state |-> "empty", rate |-> 0]
            /\ UNCHANGED precreate
       ELSE Sized(Bcast(rate)) /\ UNCHANGED size_file
  /\ UNCHANGED <<runs, kind, phase, objects>>

\* The create phase empties the file, in a dry run and with run = FALSE too.
OpenSizeFile ==
  /\ stage = "phase" /\ phase = "mdworkbench-create" /\ ~ kind.given
  /\ rate' = Bcast(rate)
  /\ size_file' = [state |-> "empty", rate |-> 0]
  /\ stage' = "opened"
  /\ UNCHANGED <<runs, kind, phase, precreate, objects>>

WriteSizeFile_Omitted ==
  /\ stage = "opened"
  /\ Sized(rate)
  /\ UNCHANGED <<runs, kind, phase, disk>>

\* The rate is stored before the default replaces it.
WriteSizeFile ==
  /\ stage = "opened"
  /\ size_file' = [state |-> "written", rate |-> rate[0]]
  /\ Sized(rate)
  /\ UNCHANGED <<runs, kind, phase, objects>>

NotCreate == phase \in {"mdworkbench-bench", "mdworkbench-delete"} /\ ~ kind.given

\* The file cannot be opened for writing; the fclose() is called all the same.
CannotOpenSizeFile ==
  /\ stage = "phase" /\ phase = "mdworkbench-create" /\ ~ kind.given
  /\ stage' = "undefined" /\ phase' = "none"
  /\ UNCHANGED <<runs, kind, memory, disk>>

\* A later phase of the same run: the rate is still in memory.
RateInMemory ==
  /\ stage = "phase" /\ NotCreate
  /\ rate[0] > 0
  /\ Sized(Bcast(rate))
  /\ UNCHANGED <<runs, kind, phase, disk>>

\* A deletion run.  A file that does not hold a rate leaves it as it is.
ReadSizeFile ==
  /\ stage = "phase" /\ NotCreate
  /\ rate[0] <= 0 /\ size_file.state # "absent"
  /\ Sized([q \in Ranks |-> IF size_file.state = "written" THEN size_file.rate ELSE rate[0]])
  /\ UNCHANGED <<runs, kind, phase, disk>>

\* fopen() fails; the fclose() after the warning is called all the same.
SizeFileMissing ==
  /\ stage = "phase" /\ NotCreate
  /\ rate[0] <= 0 /\ size_file.state = "absent"
  /\ stage' = "undefined" /\ phase' = "none"
  /\ UNCHANGED <<runs, kind, memory, disk>>

\* md-workbench creates, uses or removes its objects; a run that is killed in
\* between has created or removed all of them or none.
Execute ==
  /\ stage = "sized"
  /\ objects' = CASE Launches(kind) /\ phase = "mdworkbench-create" -> precreate[0]
                  [] Launches(kind) /\ phase = "mdworkbench-delete" ->
                       IF objects <= precreate[0] THEN 0 ELSE objects - precreate[0]
                  [] OTHER -> objects
  /\ NextPhase
  /\ UNCHANGED <<runs, kind, memory, size_file>>

\* The job is killed.  A size file that has been opened stays empty.
Crash ==
  /\ stage \in {"phase", "opened", "sized"}
  /\ stage' = "down" /\ phase' = "none"
  /\ UNCHANGED <<runs, kind, memory, disk>>

Next == \/ StartRun \/ MdtestEasyWrite
        \/ GivenSize \/ OpenSizeFile \/ CannotOpenSizeFile \/ WriteSizeFile
        \/ RateInMemory \/ ReadSizeFile \/ SizeFileMissing \/ Execute \/ Crash

Spec == Init /\ [][Next]_vars

-------------------------------------------------------------------------------
\* The variables have their types, and a run that has ended has no phase left.
TypeOK ==
  /\ runs \in 0..MaxRuns
  /\ kind \in RunKinds
  /\ stage \in Stages
  /\ phase \in {"none", "mdtest-easy-write", "mdworkbench-create", "mdworkbench-bench",
                "mdworkbench-delete"}
  /\ rate \in [Ranks -> Nat]
  /\ precreate \in [Ranks -> Nat]
  /\ size_file \in [state : {"absent", "empty", "written"}, rate : Nat]
  /\ objects \in Nat
  /\ stage \in {"down", "undefined"} <=> phase = "none"

\* All ranks hand md-workbench the same number of objects, though only rank 0
\* knows the measured rate for sure and only rank 0 reads the file.
RanksAgreeOnSize ==
  stage = "sized" => \A q \in Ranks : precreate[q] = precreate[0]

\* "store the actual processed size, allows easy deletion": whenever md-workbench
\* is started on existing objects, in the run that created them or in a cleanup
\* run after that run has failed, it is told their number.
DeletionMatchesCreation ==
  stage = "sized" /\ Launches(kind) /\ objects > 0 => precreate[0] = objects

\* "--cleanup: Run only the delete phases (useful to clean up failed runs)": a run
\* that dies in fclose(NULL), because the size file is missing or cannot be made,
\* leaves no objects behind that nobody can remove.
UndefinedOnlyWithoutObjects == stage = "undefined" => objects = 0

===============================================================================
