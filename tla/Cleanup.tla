-------------------------------- MODULE Cleanup --------------------------------
(***************************************************************************)
(* The life of one data directory over several runs of io500 in standard   *)
(* mode with the same configuration and timestamp: runs that may be killed *)
(* anywhere, runs with --cleanup and dry runs, each with its own number of *)
(* ranks.  validate() makes the directories, the phases fill and empty     *)
(* them in lockstep (module PhaseLoop), and at the end each rank walks     *)
(* through the cleanup() functions by itself, without a barrier.           *)
(*                                                                         *)
(* External: what IOR and mdtest create and remove.  The phases that only  *)
(* read are left out.  rmdir and unlink fail silently, as in the code,     *)
(* which ignores their result.                                             *)
(***************************************************************************)
EXTENDS Integers, FiniteSets

CONSTANTS
  Size,      \* the largest number of ranks
  Configs,   \* configurations: [filePerProc, uniqueDir, off], off the phases with run = FALSE
  MaxRuns    \* bound on the number of runs

ASSUME SizeAssumption   == Size \in Nat \ {0}
ASSUME RunsAssumption   == MaxRuns \in Nat
ASSUME ConfigAssumption ==
  \A c \in Configs : c.filePerProc \in BOOLEAN /\ c.uniqueDir \in BOOLEAN /\ c.off \subseteq 1..6

VARIABLES
  config,
  dirs, files,   \* what is in the data directory, itself included
  stonewalls,    \* the stonewall files in the result directory
  kind,          \* "run", "cleanup" or "dry"
  ranks,         \* the number of ranks of this run
  stage,         \* "idle", "phases" or "cleanup"
  at,            \* the phase of the loop
  step,          \* where each rank is in the cleanup() functions
  runs,          \* the number of runs so far
  completed,     \* has the last one come to its end?
  before         \* the files there were when cleanup() began

vars == <<config, dirs, files, stonewalls, kind, ranks, stage, at, step, runs, completed,
          before>>
run  == <<config, kind, ranks, runs, completed>>

-------------------------------------------------------------------------------
datadir == "datadir"
Dirs    == {"ior-easy", "ior-hard", "mdtest-easy", "mdtest-hard"}
Shared  == -1

File(dir, rank) == [dir |-> dir, rank |-> rank, unique |-> FALSE]

\* phases[]: validate() of two sections, then run() of those that write or remove.
Phase == << [does |-> "write",  dir |-> "ior-easy"],
            [does |-> "write",  dir |-> "mdtest-easy"],
            [does |-> "write",  dir |-> "ior-hard"],
            [does |-> "write",  dir |-> "mdtest-hard"],
            [does |-> "remove", dir |-> "mdtest-easy"],
            [does |-> "remove", dir |-> "mdtest-hard"] >>

Mine == 0..(ranks - 1)

\* What a write phase makes in its directory; with uniqueDir IOR puts the file of
\* each process into a directory of its own.
Output(dir) ==
  CASE dir = "ior-easy" /\ config.filePerProc ->
         {[File(dir, r) EXCEPT !.unique = config.uniqueDir] : r \in Mine}
    [] dir = "ior-hard" \/ (dir = "ior-easy" /\ ~ config.filePerProc) -> {File(dir, Shared)}
    [] OTHER -> {File(dir, r) : r \in Mine}

HasFiles(dir) == \E f \in files : f.dir = dir

-------------------------------------------------------------------------------
Init ==
  /\ config \in Configs
  /\ dirs = {} /\ files = {} /\ stonewalls = {} /\ before = {}
  /\ kind = "run" /\ ranks = 1 /\ stage = "idle" /\ at = 0
  /\ step = [r \in 0..(Size - 1) |-> "done"]
  /\ runs = 0 /\ completed = FALSE

\* main() up to the loop: rank 0 makes the directories in validate().
Start(k, n) ==
  /\ stage = "idle" /\ runs < MaxRuns
  /\ kind' = k /\ ranks' = n /\ runs' = runs + 1 /\ completed' = FALSE
  /\ stage' = "phases" /\ at' = 1
  /\ dirs' = dirs \cup {datadir, "ior-easy", "ior-hard"}
  /\ UNCHANGED <<config, files, stonewalls, step, before>>

\* The phases this run executes.
Runs(k) == /\ kind # "dry" /\ k \notin config.off
           /\ kind = "cleanup" => Phase[k].does = "remove"

SkipPhase_OffByOne ==
  /\ stage = "phases" /\ at \in 1..7 /\ (at = 7 \/ ~ Runs(at))
  /\ at' = at + 1
  /\ UNCHANGED <<run, dirs, files, stonewalls, stage, step, before>>

SkipPhase ==
  /\ stage = "phases" /\ at \in 1..6 /\ ~ Runs(at)
  /\ at' = at + 1
  /\ UNCHANGED <<run, dirs, files, stonewalls, stage, step, before>>

\* A benchmark that writes; when it is killed, only some of the files are there.
Write(made, dir) ==
  /\ made \subseteq Output(dir)
  /\ dirs' = dirs \cup {dir}
  /\ files' = files \cup made

WritePhase ==
  /\ stage = "phases" /\ at \in 1..6 /\ Runs(at) /\ Phase[at].does = "write"
  /\ Write(Output(Phase[at].dir), Phase[at].dir)
  /\ stonewalls' = stonewalls \cup {Phase[at].dir}
  /\ at' = at + 1
  /\ UNCHANGED <<run, stage, step, before>>

\* mdtest -r removes what as many processes have made; it makes its directory if
\* that is missing, and leaves it.
RemovePhase ==
  LET dir == Phase[at].dir IN
  /\ stage = "phases" /\ at \in 1..6 /\ Runs(at) /\ Phase[at].does = "remove"
  /\ dirs' = dirs \cup {dir}
  /\ files' = {f \in files : f.dir # dir \/ f.rank >= ranks}
  /\ at' = at + 1
  /\ UNCHANGED <<run, stonewalls, stage, step, before>>

\* cleanup() returns at once in a dry run, and rank 0 goes on to the data
\* directory itself.
FirstStep_IgnoresDryRun(r) == IF r \in Mine THEN "ior-easy file" ELSE "done"

FirstStep(r) == CASE r \in Mine /\ kind # "dry" -> "ior-easy file"
                  [] r = 0 /\ kind = "dry"       -> "datadir"
                  [] OTHER                       -> "done"

\* The barrier after the loop.
LoopEnds ==
  /\ stage = "phases" /\ at = 7
  /\ stage' = "cleanup" /\ before' = files
  /\ step' = [r \in 0..(Size - 1) |-> FirstStep(r)]
  /\ UNCHANGED <<run, dirs, files, stonewalls, at>>

-------------------------------------------------------------------------------
\* Rank r executes one step of the cleanup() functions.
Step(r, from, to) ==
  /\ stage = "cleanup" /\ step[r] = from
  /\ step' = [step EXCEPT ![r] = to]
  /\ UNCHANGED <<run, stage, at, before>>

u_purge_file(f)   == files' = files \ {f}
u_purge_datadir(dir) ==
  dirs' = IF HasFiles(dir) \/ (dir = datadir /\ dirs # {datadir}) THEN dirs ELSE dirs \ {dir}

PurgeOwnFile_RankZeroOnly(r) ==
  /\ Step(r, "ior-easy file", IF r = 0 THEN "ior-easy" ELSE "done")
  /\ IF config.filePerProc THEN u_purge_file(File("ior-easy", 0))
     ELSE UNCHANGED files
  /\ stonewalls' = IF r = 0 THEN stonewalls \ {"ior-easy"} ELSE stonewalls
  /\ UNCHANGED dirs

\* cleanup() of ior-easy: every rank removes its file, and rank 0 the shared one.
PurgeOwnFile(r) ==
  /\ Step(r, "ior-easy file", IF r = 0 THEN "ior-easy" ELSE "done")
  /\ IF config.filePerProc THEN u_purge_file(File("ior-easy", r))
     ELSE IF r = 0 THEN u_purge_file(File("ior-easy", Shared))
     ELSE UNCHANGED files
  /\ stonewalls' = IF r = 0 THEN stonewalls \ {"ior-easy"} ELSE stonewalls
  /\ UNCHANGED dirs

\* ... and rank 0 removes the directory, without waiting for the others.
PurgeIorEasy ==
  /\ Step(0, "ior-easy", "mdtest-easy")
  /\ u_purge_datadir("ior-easy")
  /\ UNCHANGED <<files, stonewalls>>

\* cleanup() of mdtest-easy and of mdtest-hard.
PurgeMdtest(dir, next) ==
  /\ Step(0, dir, next)
  /\ u_purge_datadir(dir)
  /\ stonewalls' = stonewalls \ {dir}
  /\ UNCHANGED files

PurgeIorHard_DirFirst ==
  /\ Step(0, "ior-hard", "mdtest-hard")
  /\ u_purge_datadir("ior-hard")
  /\ u_purge_file(File("ior-hard", Shared))
  /\ stonewalls' = stonewalls \ {"ior-hard"}

\* cleanup() of ior-hard: the file, then the directory, which is empty by then.
PurgeIorHard ==
  /\ Step(0, "ior-hard", "mdtest-hard")
  /\ u_purge_file(File("ior-hard", Shared))
  /\ dirs' = dirs \ {"ior-hard"}
  /\ stonewalls' = stonewalls \ {"ior-hard"}

\* main() after the cleanup() functions.
PurgeDatadir ==
  /\ Step(0, "datadir", "done")
  /\ u_purge_datadir(datadir)
  /\ UNCHANGED <<files, stonewalls>>

CleanupStep ==
  \/ \E r \in Mine : PurgeOwnFile(r)
  \/ PurgeIorEasy
  \/ PurgeMdtest("mdtest-easy", "ior-hard") \/ PurgeIorHard
  \/ PurgeMdtest("mdtest-hard", "datadir") \/ PurgeDatadir

\* MPI_Finalize.
End ==
  /\ stage = "cleanup" /\ \A r \in Mine : step[r] = "done"
  /\ stage' = "idle" /\ completed' = TRUE
  /\ UNCHANGED <<config, dirs, files, stonewalls, kind, ranks, at, step, runs, before>>

\* The run is killed, or ends in FATAL: between two steps, or in a benchmark.
Kill ==
  /\ stage # "idle"
  /\ \/ UNCHANGED <<dirs, files>>
     \/ /\ stage = "phases" /\ at \in 1..6 /\ Runs(at) /\ Phase[at].does = "write"
        /\ \E made \in SUBSET Output(Phase[at].dir) : Write(made, Phase[at].dir)
  /\ stage' = "idle"
  /\ step' = [r \in 0..(Size - 1) |-> "done"]
  /\ UNCHANGED <<run, stonewalls, at, before>>

Next ==
  \/ \E k \in {"run", "cleanup", "dry"}, n \in 1..Size : Start(k, n)
  \/ SkipPhase \/ WritePhase \/ RemovePhase \/ LoopEnds
  \/ CleanupStep
  \/ End \/ Kill

Spec == Init /\ [][Next]_vars

-------------------------------------------------------------------------------
Steps == {"ior-easy file", "ior-easy", "mdtest-easy", "ior-hard", "mdtest-hard", "datadir",
          "done"}

\* The variables have their types.
TypeOK ==
  /\ config \in Configs
  /\ dirs \subseteq Dirs \cup {datadir}
  /\ files \cup before \subseteq [dir : Dirs, rank : -1..(Size - 1), unique : BOOLEAN]
  /\ stonewalls \subseteq Dirs
  /\ kind \in {"run", "cleanup", "dry"}
  /\ ranks \in 1..Size
  /\ stage \in {"idle", "phases", "cleanup"} /\ at \in 0..7
  /\ step \in [0..(Size - 1) -> Steps]
  /\ runs \in 0..MaxRuns /\ completed \in BOOLEAN

\* The end of a run that removes files.
Cleaned == stage = "idle" /\ completed /\ kind # "dry"

\* The files this run can remove: those of its own ranks, unless uniqueDir hides
\* them or the phase that deletes them is off.
Removable(f) ==
  /\ f.rank < ranks /\ ~ f.unique
  /\ f.dir \in {"mdtest-easy", "mdtest-hard"} =>
       \E k \in (1..6) \ config.off : Phase[k].does = "remove" /\ Phase[k].dir = f.dir

\* A run that comes to its end, a benchmark or a --cleanup after runs that were
\* killed anywhere, leaves neither a stonewall file nor a file of one of its ranks:
\* "Run only the delete phases (useful to clean up failed runs)".
NothingRemovableIsLeft ==
  Cleaned => stonewalls = {} /\ \A f \in files : ~ Removable(f)

\* Rank 0 removes ior-easy while the others may still be removing their files in
\* it, and nobody tries again: that is the only way for an empty directory to be
\* left, and there is none after a second --cleanup.
DirectoryIsLeftOnlyByRace ==
  Cleaned => \A d \in dirs :
    \/ HasFiles(d)
    \/ d = datadir /\ dirs # {datadir}
    \/ d = "ior-easy" /\ \E r \in 1..(ranks - 1) : File(d, r) \in before

\* A dry run passes through validate(), all cleanup() functions and the rmdir of
\* the data directory, and removes nothing of what earlier runs have left.
DryRunRemovesNothing ==
  [][kind = "dry" /\ stage # "idle" => dirs \subseteq dirs' /\ files \subseteq files']_vars

===============================================================================
