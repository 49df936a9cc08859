---------------------------- MODULE CleanupProofs ----------------------------
(***************************************************************************)
(* Proofs about Cleanup, for every number of ranks, every configuration    *)
(* and any number of runs.                                                 *)
(*                                                                         *)
(* The argument.  Where a file may be follows from the configuration       *)
(* (Laid).  While a run lasts, and after it until the next one starts, the *)
(* delete phases it is past have left no file of its ranks (Deleted), and  *)
(* each step of the cleanup() functions a rank is past has left neither    *)
(* its file (OwnFilesGone), nor its stonewall file (StonewallsGone), nor   *)
(* an empty directory, unless a file that is gone now was in it            *)
(* (DirsGone).  A dry run always finds ior-easy in the data directory,     *)
(* and none of its ranks is at a step that removes another directory       *)
(* (Dry).                                                                  *)
(***************************************************************************)
EXTENDS Cleanup, TLAPS

\* This run is not over, or nothing has happened since it came to its end.
Current == stage # "idle" \/ completed

\* The end of the loop over the phases has been reached.
Over == stage = "cleanup" \/ (stage = "idle" /\ completed)

Behind(d) ==
  CASE d = "ior-easy"    -> {"mdtest-easy", "ior-hard", "mdtest-hard", "datadir", "done"}
    [] d = "mdtest-easy" -> {"ior-hard", "mdtest-hard", "datadir", "done"}
    [] d = "ior-hard"    -> {"mdtest-hard", "datadir", "done"}
    [] d = "mdtest-hard" -> {"datadir", "done"}
    [] OTHER             -> {"done"}

Stage ==
  /\ stage # "idle" => ~ completed
  /\ Over => at = 7
  /\ stage = "idle" /\ completed => \A r \in Mine : step[r] = "done"

LaidOut(f) ==
  /\ f.dir = "ior-easy" => IF config.filePerProc THEN f.rank \in 0..(Size - 1)
                           ELSE f = File("ior-easy", Shared)
  /\ f.dir = "ior-hard" => f = File("ior-hard", Shared)

Laid == \A f \in files : LaidOut(f)

Deleted ==
  Current /\ kind # "dry" =>
    \A k \in {5, 6} : at > k /\ k \notin config.off =>
      \A f \in files : f.dir = Phase[k].dir => f.rank >= ranks

OwnFilesGone ==
  Over /\ kind # "dry" =>
    /\ config.filePerProc =>
         \A r \in Mine : step[r] # "ior-easy file" => File("ior-easy", r) \notin files
    /\ ~ config.filePerProc /\ step[0] # "ior-easy file" =>
         File("ior-easy", Shared) \notin files
    /\ step[0] \in Behind("ior-hard") => File("ior-hard", Shared) \notin files

StonewallsGone ==
  Over /\ kind # "dry" =>
    /\ step[0] # "ior-easy file" => "ior-easy" \notin stonewalls
    /\ \A d \in {"mdtest-easy", "ior-hard", "mdtest-hard"} :
         step[0] \in Behind(d) => d \notin stonewalls

DirsGone ==
  Over /\ kind # "dry" =>
    /\ files \subseteq before
    /\ step[0] \in Behind("ior-easy") /\ "ior-easy" \in dirs =>
         HasFiles("ior-easy") \/ \E r \in 1..(ranks - 1) : File("ior-easy", r) \in before
    /\ \A d \in {"mdtest-easy", "ior-hard", "mdtest-hard"} :
         step[0] \in Behind(d) /\ d \in dirs => HasFiles(d)
    /\ step[0] = "done" => dirs # {datadir}

Dry ==
  stage # "idle" /\ kind = "dry" =>
    /\ "ior-easy" \in dirs
    /\ stage = "cleanup" => \A r \in 0..(Size - 1) : step[r] \in {"datadir", "done"}

CleanupInv == TypeOK /\ Stage /\ Laid /\ Deleted /\ OwnFilesGone /\ StonewallsGone
                     /\ DirsGone /\ Dry

-------------------------------------------------------------------------------
LEMMA MineFacts == ASSUME TypeOK PROVE 0 \in Mine /\ Mine \subseteq 0..(Size - 1)
BY SizeAssumption DEF TypeOK, Mine

\* The table, row by row.
LEMMA PhaseFacts ==
  /\ \A k \in 1..6 : Phase[k].dir \in Dirs \ {datadir}
  /\ \A k \in 1..4 : Phase[k].does = "write"
  /\ \A k \in 5..6 : Phase[k].does = "remove"
  /\ Phase[5].dir = "mdtest-easy" /\ Phase[6].dir = "mdtest-hard"
<1>1. /\ Phase[1] = [does |-> "write",  dir |-> "ior-easy"]
      /\ Phase[2] = [does |-> "write",  dir |-> "mdtest-easy"]
      /\ Phase[3] = [does |-> "write",  dir |-> "ior-hard"]
      /\ Phase[4] = [does |-> "write",  dir |-> "mdtest-hard"]
      /\ Phase[5] = [does |-> "remove", dir |-> "mdtest-easy"]
      /\ Phase[6] = [does |-> "remove", dir |-> "mdtest-hard"]
  BY DEF Phase
<1>2. \A k \in 1..6 : k \in {1, 2, 3, 4, 5, 6}
  OBVIOUS
<1>3. \A k \in 1..4 : k \in {1, 2, 3, 4}
  OBVIOUS
<1>4. \A k \in 5..6 : k \in {5, 6}
  OBVIOUS
<1> QED
  BY <1>1, <1>2, <1>3, <1>4 DEF Dirs, datadir

FileType == [dir : Dirs, rank : -1..(Size - 1), unique : BOOLEAN]

\* Where the benchmarks put their files.
LEMMA OutputFacts ==
  ASSUME TypeOK, NEW d \in Dirs
  PROVE  \A f \in Output(d) : f \in FileType /\ f.dir = d /\ LaidOut(f)
<1>1. \A r \in Mine : r \in 0..(Size - 1)
  BY MineFacts
<1>2. config.uniqueDir \in BOOLEAN
  BY ConfigAssumption DEF TypeOK
<1>3. CASE d = "ior-easy" /\ config.filePerProc
  <2>1. Output(d) = {[File(d, r) EXCEPT !.unique = config.uniqueDir] : r \in Mine}
    BY <1>3 DEF Output
  <2>2. \A r \in Mine : [File(d, r) EXCEPT !.unique = config.uniqueDir]
                         = [dir |-> d, rank |-> r, unique |-> config.uniqueDir]
    BY DEF File
  <2>3. SUFFICES ASSUME NEW r \in Mine, NEW f, f = [dir |-> d, rank |-> r, unique |-> config.uniqueDir]
                 PROVE  f \in FileType /\ f.dir = d /\ LaidOut(f)
    BY <2>1, <2>2
  <2>4. f.dir = d /\ f.rank = r
    BY <2>3
  <2>5. r \in -1..(Size - 1) /\ r \in 0..(Size - 1)
    BY <1>1, SizeAssumption
  <2>6. f \in FileType
    BY <1>2, <2>3, <2>5 DEF FileType
  <2> QED
    BY <1>3, <2>4, <2>5, <2>6 DEF LaidOut
<1>4. CASE d = "ior-hard" \/ (d = "ior-easy" /\ ~ config.filePerProc)
  <2>1. Output(d) = {File(d, Shared)}
    BY <1>4 DEF Output
  <2>2. -1 \in -1..(Size - 1)
    BY SizeAssumption
  <2>3. File(d, Shared) \in FileType /\ File(d, Shared).dir = d
    BY <2>2 DEF FileType, File, Shared
  <2>4. LaidOut(File(d, Shared))
    BY <1>4, <2>3 DEF LaidOut
  <2> QED
    BY <2>1, <2>3, <2>4
<1>5. CASE d \notin {"ior-easy", "ior-hard"}
  <2>1. Output(d) = {File(d, r) : r \in Mine}
    BY <1>5 DEF Output
  <2>2. \A r \in Mine : r \in -1..(Size - 1)
    BY <1>1, SizeAssumption
  <2>3. \A r \in Mine : File(d, r) \in FileType /\ File(d, r).dir = d
    BY <2>2 DEF FileType, File
  <2> QED
    BY <1>5, <2>1, <2>3 DEF LaidOut
<1> QED
  BY <1>3, <1>4, <1>5

-------------------------------------------------------------------------------
LEMMA InitInv == Init => CleanupInv
<1> SUFFICES ASSUME Init PROVE CleanupInv
  OBVIOUS
<1>1. TypeOK
  <2>1. files \cup before = {}
    BY DEF Init
  <2>2. step \in [0..(Size - 1) -> Steps]
    BY DEF Init, Steps
  <2>3. ranks \in 1..Size /\ runs \in 0..MaxRuns /\ at \in 0..7
    BY SizeAssumption, RunsAssumption DEF Init
  <2> QED
    BY <2>1, <2>2, <2>3 DEF Init, TypeOK
<1> QED
  BY <1>1 DEF Init, CleanupInv, Stage, Laid, Deleted, OwnFilesGone, StonewallsGone, DirsGone,
              Dry, Current, Over

\* Every step keeps the types.
LEMMA StepType == TypeOK /\ [Next]_vars => TypeOK'
<1> SUFFICES ASSUME TypeOK, [Next]_vars PROVE TypeOK'
  OBVIOUS
<1> USE DEF TypeOK
<1>1. ASSUME NEW k \in {"run", "cleanup", "dry"}, NEW n \in 1..Size, Start(k, n) PROVE TypeOK'
  <2>1. runs' \in 0..MaxRuns /\ at' \in 0..7
    BY <1>1, RunsAssumption DEF Start
  <2>2. dirs' \subseteq Dirs \cup {datadir}
    BY <1>1 DEF Start, Dirs
  <2> QED
    BY <1>1, <2>1, <2>2 DEF Start
<1>2. CASE SkipPhase
  BY <1>2 DEF SkipPhase, run
<1>3. ASSUME NEW d \in Dirs, NEW made \in SUBSET Output(d), Write(made, d)
      PROVE  /\ dirs' \subseteq Dirs \cup {datadir}
             /\ files' \subseteq FileType
  BY <1>3, OutputFacts DEF Write, FileType
<1>4. CASE WritePhase
  <2>1. Phase[at].dir \in Dirs
    BY <1>4, PhaseFacts DEF WritePhase
  <2> QED
    BY <1>3, <1>4, <2>1 DEF WritePhase, run, FileType
<1>5. CASE RemovePhase
  <2>1. Phase[at].dir \in Dirs
    BY <1>5, PhaseFacts DEF RemovePhase
  <2> QED
    BY <1>5, <2>1 DEF RemovePhase, run
<1>6. CASE LoopEnds
  <2>1. step' \in [0..(Size - 1) -> Steps]
    BY <1>6 DEF LoopEnds, FirstStep, Steps
  <2> QED
    BY <1>6, <2>1 DEF LoopEnds, run
<1>7. CASE CleanupStep
  <2>1. PICK r \in Mine, from \in Steps, to \in Steps : Step(r, from, to)
    BY <1>7, MineFacts DEF CleanupStep, PurgeOwnFile, PurgeIorEasy, PurgeMdtest, PurgeIorHard,
                           PurgeDatadir, Steps
  <2>2. dirs' \subseteq dirs /\ files' \subseteq files /\ stonewalls' \subseteq stonewalls
    BY <1>7 DEF CleanupStep, PurgeOwnFile, PurgeIorEasy, PurgeMdtest, PurgeIorHard,
                PurgeDatadir, u_purge_file, u_purge_datadir
  <2> QED
    BY <2>1, <2>2 DEF Step, run
<1>8. CASE End
  BY <1>8 DEF End
<1>9. CASE Kill
  <2>1. dirs' \subseteq Dirs \cup {datadir} /\ files' \subseteq FileType
    BY <1>3, <1>9, PhaseFacts DEF Kill, FileType
  <2>2. step' \in [0..(Size - 1) -> Steps]
    BY <1>9 DEF Kill, Steps
  <2> QED
    BY <1>9, <2>1, <2>2 DEF Kill, run, FileType
<1>10. CASE UNCHANGED vars
  BY <1>10 DEF vars
<1> QED
  BY <1>1, <1>2, <1>4, <1>5, <1>6, <1>7, <1>8, <1>9, <1>10 DEF Next

-------------------------------------------------------------------------------
\* What a step of the cleanup() functions does, whichever it is.
LEMMA CleanupFrame ==
  ASSUME CleanupStep
  PROVE  /\ stage = "cleanup" /\ UNCHANGED <<run, stage, at, before>>
         /\ files' \subseteq files
BY DEF CleanupStep, PurgeOwnFile, PurgeIorEasy, PurgeMdtest, PurgeIorHard, PurgeDatadir, Step,
       u_purge_file

LEMMA StepStage == CleanupInv /\ [Next]_vars => Stage'
<1> SUFFICES ASSUME CleanupInv, [Next]_vars PROVE Stage'
  OBVIOUS
<1>0. TypeOK /\ Stage
  BY DEF CleanupInv
<1> USE DEF Stage, Over, Mine
<1>1. ASSUME NEW k \in {"run", "cleanup", "dry"}, NEW n \in 1..Size, Start(k, n) PROVE Stage'
  BY <1>1 DEF Start
<1>2. CASE SkipPhase \/ WritePhase \/ RemovePhase
  BY <1>0, <1>2 DEF SkipPhase, WritePhase, RemovePhase, run
<1>3. CASE LoopEnds
  BY <1>0, <1>3 DEF LoopEnds, run
<1>4. CASE CleanupStep
  BY <1>0, <1>4, CleanupFrame DEF run
<1>5. CASE End
  BY <1>0, <1>5 DEF End
<1>6. CASE Kill
  BY <1>0, <1>6 DEF Kill, run
<1>7. CASE UNCHANGED vars
  BY <1>0, <1>7 DEF vars
<1> QED
  BY <1>1, <1>2, <1>3, <1>4, <1>5, <1>6, <1>7 DEF Next

LEMMA StepLaid == CleanupInv /\ [Next]_vars => Laid'
<1> SUFFICES ASSUME CleanupInv, [Next]_vars PROVE Laid'
  OBVIOUS
<1>0. TypeOK /\ Laid
  BY DEF CleanupInv
<1>1. config' = config
  BY DEF Next, Start, SkipPhase, WritePhase, RemovePhase, LoopEnds, CleanupStep, PurgeOwnFile,
         PurgeIorEasy, PurgeMdtest, PurgeIorHard, PurgeDatadir, Step, End, Kill, vars, run
<1>2. SUFFICES ASSUME NEW f \in files', f \notin files PROVE LaidOut(f)
  BY <1>0, <1>1 DEF Laid, LaidOut
<1>3. ASSUME NEW d \in Dirs, NEW made \in SUBSET Output(d), Write(made, d) PROVE LaidOut(f)
  BY <1>0, <1>2, <1>3, OutputFacts DEF Write
<1>4. CASE WritePhase
  <2>1. Phase[at].dir \in Dirs
    BY <1>4, PhaseFacts DEF WritePhase
  <2> QED
    BY <1>3, <1>4, <2>1 DEF WritePhase
<1>5. CASE Kill
  <2>1. stage = "phases" /\ at \in 1..6
        /\ \E made \in SUBSET Output(Phase[at].dir) : Write(made, Phase[at].dir)
    BY <1>2, <1>5 DEF Kill
  <2> QED
    BY <1>3, <2>1, PhaseFacts
<1>6. ~ WritePhase /\ ~ Kill => files' \subseteq files
  BY CleanupFrame DEF Next, Start, SkipPhase, RemovePhase, LoopEnds, End, vars
<1> QED
  BY <1>2, <1>4, <1>5, <1>6

LEMMA StepDeleted == CleanupInv /\ [Next]_vars => Deleted'
<1> SUFFICES ASSUME CleanupInv, [Next]_vars,
                    (Current /\ kind # "dry")',
                    NEW k \in {5, 6}, at' > k, k \notin config'.off,
                    NEW f \in files', f.dir = Phase[k].dir
             PROVE  f.rank >= ranks'
  BY DEF Deleted
<1>0. TypeOK /\ Stage /\ Deleted
  BY DEF CleanupInv
<1>1. ASSUME NEW l \in {"run", "cleanup", "dry"}, NEW n \in 1..Size, Start(l, n) PROVE FALSE
  BY <1>1 DEF Start
<1>2. CASE SkipPhase
  <2>1. at # k
    BY <1>2, PhaseFacts DEF SkipPhase, Runs, run
  <2>2. at > k
    BY <1>0, <1>2, <2>1 DEF SkipPhase, TypeOK
  <2> QED
    BY <1>0, <1>2, <2>2 DEF SkipPhase, run, Deleted, Current
<1>3. CASE WritePhase
  <2>1. at \in 1..4
    BY <1>3, PhaseFacts DEF WritePhase
  <2> QED
    BY <1>3, <2>1 DEF WritePhase
<1>4. CASE RemovePhase
  <2>1. f \in files
    BY <1>4 DEF RemovePhase
  <2>2. CASE at = k
    <3>1. f.rank >= ranks
      BY <1>4, <2>2 DEF RemovePhase
    <3> QED
      BY <1>4, <3>1 DEF RemovePhase, run
  <2>3. CASE at # k
    <3>1. at > k
      BY <1>0, <1>4, <2>3 DEF RemovePhase, TypeOK
    <3> QED
      BY <1>0, <1>4, <2>1, <3>1 DEF RemovePhase, run, Deleted, Current
  <2> QED
    BY <2>2, <2>3
<1>5. CASE LoopEnds
  BY <1>0, <1>5 DEF LoopEnds, run, Deleted, Current
<1>6. CASE CleanupStep
  BY <1>0, <1>6, CleanupFrame DEF run, Deleted, Current
<1>7. CASE End
  BY <1>0, <1>7 DEF End, Deleted, Current
<1>8. CASE Kill
  BY <1>0, <1>8 DEF Kill, run, Current, Stage
<1>9. CASE UNCHANGED vars
  BY <1>0, <1>9 DEF vars, Deleted, Current
<1> QED
  BY <1>1, <1>2, <1>3, <1>4, <1>5, <1>6, <1>7, <1>8, <1>9 DEF Next

LEMMA StepOwnFiles == CleanupInv /\ [Next]_vars => OwnFilesGone'
<1> SUFFICES ASSUME CleanupInv, [Next]_vars, (Over /\ kind # "dry")' PROVE OwnFilesGone'
  BY DEF OwnFilesGone
<1>0. TypeOK /\ Stage /\ OwnFilesGone /\ 0 \in Mine
  BY MineFacts DEF CleanupInv
<1>1. ASSUME NEW k \in {"run", "cleanup", "dry"}, NEW n \in 1..Size, Start(k, n) PROVE FALSE
  BY <1>1 DEF Start, Over
<1>2. ~ SkipPhase /\ ~ WritePhase /\ ~ RemovePhase
  BY DEF SkipPhase, WritePhase, RemovePhase, Over
<1>3. CASE LoopEnds
  <2>1. \A r \in Mine : step'[r] = "ior-easy file"
    BY <1>0, <1>3, MineFacts DEF LoopEnds, FirstStep, run
  <2> QED
    <3>1. Mine' = Mine
      BY <1>3 DEF LoopEnds, run, Mine
    <3>2. "ior-easy file" \notin Behind("ior-hard")
      BY DEF Behind
    <3> QED
      BY <1>0, <2>1, <3>1, <3>2 DEF OwnFilesGone
<1>4. CASE CleanupStep
  <2>1. OwnFilesGone /\ Over /\ kind # "dry"
    BY <1>0, <1>4, CleanupFrame DEF Over, run
  <2>2. ASSUME NEW r \in Mine, PurgeOwnFile(r) PROVE OwnFilesGone'
    <3>1. /\ step[r] = "ior-easy file"
          /\ step' = [step EXCEPT ![r] = IF r = 0 THEN "ior-easy" ELSE "done"]
          /\ UNCHANGED <<run, stage>> /\ files' \subseteq files
      BY <2>2 DEF PurgeOwnFile, Step, u_purge_file
    <3>2. r \in 0..(Size - 1) /\ step \in [0..(Size - 1) -> Steps]
      BY <1>0, MineFacts DEF TypeOK
    <3>3. config.filePerProc => File("ior-easy", r) \notin files'
      BY <2>2 DEF PurgeOwnFile, u_purge_file
    <3>4. ~ config.filePerProc /\ r = 0 => File("ior-easy", Shared) \notin files'
      BY <2>2 DEF PurgeOwnFile, u_purge_file
    <3> QED
      BY <1>0, <2>1, <3>1, <3>2, <3>3, <3>4, MineFacts DEF OwnFilesGone, run, Mine, Behind
  <2>3. ASSUME NEW from, NEW to, Step(0, from, to), from # "ior-easy file",
               files' \subseteq files,
               to \in Behind("ior-hard") =>
                 from \in Behind("ior-hard") \/ File("ior-hard", Shared) \notin files'
        PROVE  OwnFilesGone'
    <3>1. /\ step[0] = from /\ step' = [step EXCEPT ![0] = to]
          /\ UNCHANGED <<run, stage>>
      BY <2>3 DEF Step
    <3> QED
      BY <1>0, <2>1, <2>3, <3>1, MineFacts DEF OwnFilesGone, run, Mine, TypeOK
  <2>4. CASE PurgeIorEasy
    BY <2>3, <2>4 DEF PurgeIorEasy, Behind
  <2>5. CASE PurgeMdtest("mdtest-easy", "ior-hard")
    BY <2>3, <2>5 DEF PurgeMdtest, Behind
  <2>6. CASE PurgeIorHard
    <3>1. files' \subseteq files /\ File("ior-hard", Shared) \notin files'
      BY <2>6 DEF PurgeIorHard, u_purge_file
    <3> QED
      BY <2>3, <2>6, <3>1 DEF PurgeIorHard
  <2>7. CASE PurgeMdtest("mdtest-hard", "datadir")
    BY <2>3, <2>7 DEF PurgeMdtest, Behind
  <2>8. CASE PurgeDatadir
    BY <2>3, <2>8 DEF PurgeDatadir, Behind
  <2> QED
    BY <1>4, <2>2, <2>4, <2>5, <2>6, <2>7, <2>8 DEF CleanupStep
<1>5. CASE End
  BY <1>0, <1>5 DEF End, OwnFilesGone, Over, Mine
<1>6. CASE Kill
  BY <1>0, <1>6 DEF Kill, Over, Stage, run
<1>7. CASE UNCHANGED vars
  BY <1>0, <1>7 DEF vars, OwnFilesGone, Over, Mine
<1> QED
  BY <1>1, <1>2, <1>3, <1>4, <1>5, <1>6, <1>7 DEF Next

LEMMA StepStonewalls == CleanupInv /\ [Next]_vars => StonewallsGone'
<1> SUFFICES ASSUME CleanupInv, [Next]_vars, (Over /\ kind # "dry")' PROVE StonewallsGone'
  BY DEF StonewallsGone
<1>0. TypeOK /\ Stage /\ StonewallsGone /\ 0 \in Mine /\ 0 \in 0..(Size - 1)
  BY MineFacts DEF CleanupInv
<1>1. ASSUME NEW k \in {"run", "cleanup", "dry"}, NEW n \in 1..Size, Start(k, n) PROVE FALSE
  BY <1>1 DEF Start, Over
<1>2. ~ SkipPhase /\ ~ WritePhase /\ ~ RemovePhase
  BY DEF SkipPhase, WritePhase, RemovePhase, Over
<1>3. CASE LoopEnds
  <2>1. step'[0] = "ior-easy file"
    BY <1>0, <1>3 DEF LoopEnds, FirstStep, run
  <2> QED
    BY <2>1 DEF StonewallsGone, Behind
<1>4. CASE CleanupStep
  <2>1. StonewallsGone /\ Over /\ kind # "dry"
    BY <1>0, <1>4, CleanupFrame DEF Over, run
  <2>2. ASSUME NEW r \in Mine, PurgeOwnFile(r), r # 0 PROVE StonewallsGone'
    <3>1. step'[0] = step[0] /\ stonewalls' = stonewalls
      BY <1>0, <2>2 DEF PurgeOwnFile, Step, TypeOK
    <3> QED
      BY <2>1, <3>1 DEF StonewallsGone
  <2>3. ASSUME NEW from, NEW to, Step(0, from, to) PROVE step[0] = from /\ step'[0] = to
    BY <1>0, <2>3 DEF Step, TypeOK
  <2>4. CASE PurgeOwnFile(0)
    <3>1. step'[0] = "ior-easy" /\ "ior-easy" \notin stonewalls'
      BY <2>3, <2>4 DEF PurgeOwnFile
    <3> QED
      BY <3>1 DEF StonewallsGone, Behind
  <2>5. CASE PurgeIorEasy
    <3>1. step[0] = "ior-easy" /\ step'[0] = "mdtest-easy" /\ stonewalls' = stonewalls
      BY <2>3, <2>5 DEF PurgeIorEasy
    <3> QED
      BY <2>1, <3>1 DEF StonewallsGone, Behind
  <2>6. CASE PurgeMdtest("mdtest-easy", "ior-hard")
    <3>1. step[0] = "mdtest-easy" /\ step'[0] = "ior-hard"
          /\ stonewalls' = stonewalls \ {"mdtest-easy"}
      BY <2>3, <2>6 DEF PurgeMdtest
    <3> QED
      BY <2>1, <3>1 DEF StonewallsGone, Behind
  <2>7. CASE PurgeIorHard
    <3>1. step[0] = "ior-hard" /\ step'[0] = "mdtest-hard"
          /\ stonewalls' = stonewalls \ {"ior-hard"}
      BY <2>3, <2>7 DEF PurgeIorHard
    <3> QED
      BY <2>1, <3>1 DEF StonewallsGone, Behind
  <2>8. CASE PurgeMdtest("mdtest-hard", "datadir")
    <3>1. step[0] = "mdtest-hard" /\ step'[0] = "datadir"
          /\ stonewalls' = stonewalls \ {"mdtest-hard"}
      BY <2>3, <2>8 DEF PurgeMdtest
    <3> QED
      BY <2>1, <3>1 DEF StonewallsGone, Behind
  <2>9. CASE PurgeDatadir
    <3>1. step[0] = "datadir" /\ step'[0] = "done" /\ stonewalls' = stonewalls
      BY <2>3, <2>9 DEF PurgeDatadir
    <3> QED
      BY <2>1, <3>1 DEF StonewallsGone, Behind
  <2> QED
    BY <1>4, <2>2, <2>4, <2>5, <2>6, <2>7, <2>8, <2>9 DEF CleanupStep
<1>5. CASE End
  BY <1>0, <1>5 DEF End, StonewallsGone, Over
<1>6. CASE Kill
  BY <1>0, <1>6 DEF Kill, Over, Stage, run
<1>7. CASE UNCHANGED vars
  BY <1>0, <1>7 DEF vars, StonewallsGone, Over
<1> QED
  BY <1>1, <1>2, <1>3, <1>4, <1>5, <1>6, <1>7 DEF Next

LEMMA StepDirs == CleanupInv /\ [Next]_vars => DirsGone'
<1> SUFFICES ASSUME CleanupInv, [Next]_vars, (Over /\ kind # "dry")' PROVE DirsGone'
  BY DEF DirsGone
<1>0. TypeOK /\ Stage /\ Laid /\ DirsGone /\ 0 \in Mine /\ 0 \in 0..(Size - 1)
  BY MineFacts DEF CleanupInv
<1>1. ASSUME NEW k \in {"run", "cleanup", "dry"}, NEW n \in 1..Size, Start(k, n) PROVE FALSE
  BY <1>1 DEF Start, Over
<1>2. ~ SkipPhase /\ ~ WritePhase /\ ~ RemovePhase
  BY DEF SkipPhase, WritePhase, RemovePhase, Over
<1>3. CASE LoopEnds
  <2>1. step'[0] = "ior-easy file" /\ files' = before'
    BY <1>0, <1>3 DEF LoopEnds, FirstStep, run
  <2> QED
    BY <2>1 DEF DirsGone, Behind
<1>4. CASE CleanupStep
  <2>1. /\ DirsGone /\ Over /\ kind # "dry"
        /\ UNCHANGED <<config, ranks, before>> /\ files' \subseteq files
    BY <1>0, <1>4, CleanupFrame DEF Over, run
  <2>2. ASSUME NEW from, NEW to, Step(0, from, to) PROVE step[0] = from /\ step'[0] = to
    BY <1>0, <2>2 DEF Step, TypeOK
  <2>3. CASE PurgeOwnFile(0)
    <3>1. step'[0] = "ior-easy"
      BY <2>2, <2>3 DEF PurgeOwnFile
    <3> QED
      BY <2>1, <3>1 DEF DirsGone, Behind
  <2>4. ASSUME NEW r \in Mine \ {0}, PurgeOwnFile(r) PROVE DirsGone'
    <3>1. step'[0] = step[0] /\ dirs' = dirs
      BY <1>0, <2>4 DEF PurgeOwnFile, Step, TypeOK
    <3>2. files' = files \/ (config.filePerProc /\ files' = files \ {File("ior-easy", r)})
      BY <2>4 DEF PurgeOwnFile, u_purge_file
    <3>3. r \in 1..(ranks - 1) /\ File("ior-easy", r).dir = "ior-easy"
      BY <1>0, <2>4 DEF Mine, TypeOK, File
    <3>4. \A d \in {"mdtest-easy", "ior-hard", "mdtest-hard"} : HasFiles(d) => HasFiles(d)'
      BY <3>2, <3>3 DEF HasFiles
    <3>5. HasFiles("ior-easy") =>
            HasFiles("ior-easy")' \/ \E q \in 1..(ranks - 1) : File("ior-easy", q) \in before
      BY <2>1, <3>2, <3>3 DEF HasFiles, DirsGone
    <3> QED
      BY <2>1, <3>1, <3>4, <3>5 DEF DirsGone
  <2>5. ASSUME NEW d \in Dirs, u_purge_datadir(d), UNCHANGED files
        PROVE  dirs' \subseteq dirs /\ (d \in dirs' => HasFiles(d)')
    BY <2>5 DEF u_purge_datadir, HasFiles, Dirs, datadir
  <2>6. CASE PurgeIorEasy
    <3>1. step[0] = "ior-easy" /\ step'[0] = "mdtest-easy"
      BY <2>2, <2>6 DEF PurgeIorEasy
    <3>2. "ior-easy" \in dirs' => HasFiles("ior-easy")'
      BY <2>5, <2>6 DEF PurgeIorEasy, Dirs
    <3> QED
      BY <2>1, <3>1, <3>2 DEF DirsGone, Behind
  <2>7. CASE PurgeMdtest("mdtest-easy", "ior-hard")
    <3>1. step[0] = "mdtest-easy" /\ step'[0] = "ior-hard" /\ files' = files
      BY <2>2, <2>7 DEF PurgeMdtest
    <3>2. dirs' \subseteq dirs /\ ("mdtest-easy" \in dirs' => HasFiles("mdtest-easy")')
      BY <2>5, <2>7 DEF PurgeMdtest, Dirs
    <3> QED
      BY <2>1, <3>1, <3>2 DEF DirsGone, Behind, HasFiles
  <2>8. CASE PurgeIorHard
    <3>1. step[0] = "ior-hard" /\ step'[0] = "mdtest-hard" /\ dirs' = dirs \ {"ior-hard"}
      BY <2>2, <2>8 DEF PurgeIorHard
    <3>2. files' = files \ {File("ior-hard", Shared)} /\ File("ior-hard", Shared).dir = "ior-hard"
      BY <2>8 DEF PurgeIorHard, u_purge_file, File
    <3>3. \A d \in {"ior-easy", "mdtest-easy"} : HasFiles(d) => HasFiles(d)'
      BY <3>2 DEF HasFiles
    <3> QED
      BY <2>1, <3>1, <3>3 DEF DirsGone, Behind
  <2>9. CASE PurgeMdtest("mdtest-hard", "datadir")
    <3>1. step[0] = "mdtest-hard" /\ step'[0] = "datadir" /\ files' = files
      BY <2>2, <2>9 DEF PurgeMdtest
    <3>2. dirs' \subseteq dirs /\ ("mdtest-hard" \in dirs' => HasFiles("mdtest-hard")')
      BY <2>5, <2>9 DEF PurgeMdtest, Dirs
    <3> QED
      BY <2>1, <3>1, <3>2 DEF DirsGone, Behind, HasFiles
  <2>10. CASE PurgeDatadir
    <3>1. step[0] = "datadir" /\ step'[0] = "done" /\ files' = files
      BY <2>2, <2>10 DEF PurgeDatadir
    <3>2. ~ HasFiles(datadir)
      BY <1>0 DEF TypeOK, HasFiles, Dirs, datadir
    <3>3. dirs' \subseteq dirs /\ dirs' # {datadir}
      BY <2>10, <3>2 DEF PurgeDatadir, u_purge_datadir
    <3> QED
      BY <2>1, <3>1, <3>3 DEF DirsGone, Behind, HasFiles
  <2> QED
    BY <1>0, <1>4, <2>3, <2>4, <2>6, <2>7, <2>8, <2>9, <2>10 DEF CleanupStep
<1>5. CASE End
  BY <1>0, <1>5 DEF End, DirsGone, Over, HasFiles
<1>6. CASE Kill
  BY <1>0, <1>6 DEF Kill, Over, Stage, run
<1>7. CASE UNCHANGED vars
  BY <1>0, <1>7 DEF vars, DirsGone, Over, HasFiles
<1> QED
  BY <1>1, <1>2, <1>3, <1>4, <1>5, <1>6, <1>7 DEF Next

LEMMA StepDry == CleanupInv /\ [Next]_vars => Dry'
<1> SUFFICES ASSUME CleanupInv, [Next]_vars, (stage # "idle" /\ kind = "dry")' PROVE Dry'
  BY DEF Dry
<1>0. TypeOK /\ Dry /\ 0 \in Mine
  BY MineFacts DEF CleanupInv
<1>1. ASSUME NEW k \in {"run", "cleanup", "dry"}, NEW n \in 1..Size, Start(k, n) PROVE Dry'
  BY <1>1 DEF Start, Dry
<1>2. CASE SkipPhase
  BY <1>0, <1>2 DEF SkipPhase, run, Dry
<1>3. ~ WritePhase /\ ~ RemovePhase
  BY DEF WritePhase, RemovePhase, Runs, run
<1>4. CASE LoopEnds
  BY <1>0, <1>4 DEF LoopEnds, FirstStep, run, Dry
<1>5. CASE CleanupStep
  <2>1. stage = "cleanup" /\ kind = "dry"
    BY <1>5, CleanupFrame DEF run
  <2>2. \A r \in 0..(Size - 1) : step[r] \in {"datadir", "done"}
    BY <1>0, <2>1 DEF Dry
  <2>3. PurgeDatadir
    BY <1>0, <1>5, <2>2, MineFacts DEF CleanupStep, PurgeOwnFile, PurgeIorEasy, PurgeMdtest,
                                       PurgeIorHard, Step
  <2>4. step' = [step EXCEPT ![0] = "done"]
    BY <2>3 DEF PurgeDatadir, Step
  <2>5. "ior-easy" \in dirs'
    BY <1>0, <2>1, <2>3 DEF PurgeDatadir, u_purge_datadir, Dry, datadir
  <2> QED
    BY <1>0, <2>2, <2>4, <2>5 DEF Dry, TypeOK
<1>6. ~ End /\ ~ Kill
  BY DEF End, Kill
<1>7. CASE UNCHANGED vars
  BY <1>0, <1>7 DEF vars, Dry
<1> QED
  BY <1>1, <1>2, <1>3, <1>4, <1>5, <1>6, <1>7 DEF Next

-------------------------------------------------------------------------------
LEMMA CleanupInvariant == Spec => []CleanupInv
<1>1. CleanupInv /\ [Next]_vars => CleanupInv'
  BY StepType, StepStage, StepLaid, StepDeleted, StepOwnFiles, StepStonewalls, StepDirs, StepDry
     DEF CleanupInv
<1> QED
  BY <1>1, InitInv, PTL DEF Spec

\* The variables have their types: the ranks of a run walk through the cleanup()
\* functions of phases.c in their order, for every number of ranks and runs.
THEOREM TypeCorrect == Spec => []TypeOK
<1>1. CleanupInv => TypeOK
  BY DEF CleanupInv
<1> QED
  BY <1>1, CleanupInvariant, PTL

\* Whatever runs were killed before, one that comes to its end has removed all it
\* can: its stonewall files and the files of its ranks.
THEOREM RemovableGone == Spec => []NothingRemovableIsLeft
<1>1. CleanupInv => NothingRemovableIsLeft
  <2> SUFFICES ASSUME CleanupInv, Cleaned PROVE stonewalls = {} /\ \A f \in files : ~ Removable(f)
    BY DEF NothingRemovableIsLeft
  <2>0. /\ TypeOK /\ Over /\ Current /\ kind # "dry" /\ at = 7 /\ 0 \in Mine
        /\ \A r \in Mine : step[r] = "done"
    BY MineFacts DEF CleanupInv, Stage, Cleaned, Over, Current
  <2>1. stonewalls = {}
    BY <2>0 DEF CleanupInv, StonewallsGone, TypeOK, Behind, Dirs
  <2>2. ASSUME NEW f \in files, Removable(f) PROVE FALSE
    <3>0. f \in FileType /\ LaidOut(f)
      BY <2>0 DEF CleanupInv, TypeOK, Laid, FileType
    <3>1. CASE f.dir = "ior-easy" /\ config.filePerProc
      <4>1. f.rank \in Mine
        BY <2>0, <2>2, <3>0, <3>1 DEF LaidOut, Removable, Mine, TypeOK
      <4>2. f = [dir |-> f.dir, rank |-> f.rank, unique |-> f.unique]
        BY <3>0 DEF FileType
      <4>3. f.unique = FALSE
        BY <2>2, <3>0 DEF Removable, FileType
      <4>4. f = File("ior-easy", f.rank)
        BY <3>1, <4>2, <4>3 DEF File
      <4> QED
        BY <2>0, <3>1, <4>1, <4>4 DEF CleanupInv, OwnFilesGone
    <3>2. CASE f.dir = "ior-easy" /\ ~ config.filePerProc
      BY <2>0, <3>0, <3>2 DEF CleanupInv, OwnFilesGone, LaidOut
    <3>3. CASE f.dir = "ior-hard"
      BY <2>0, <3>0, <3>3 DEF CleanupInv, OwnFilesGone, LaidOut, Behind
    <3>4. CASE f.dir \in {"mdtest-easy", "mdtest-hard"}
      <4>1. PICK k \in (1..6) \ config.off : Phase[k].does = "remove" /\ Phase[k].dir = f.dir
        BY <2>2, <3>4 DEF Removable
      <4>2. k \in {5, 6}
        BY <4>1, PhaseFacts
      <4>3. f.rank >= ranks
        BY <2>0, <4>1, <4>2 DEF CleanupInv, Deleted
      <4> QED
        BY <2>0, <2>2, <3>0, <4>3 DEF Removable, FileType, TypeOK
    <3> QED
      BY <3>0, <3>1, <3>2, <3>3, <3>4 DEF FileType, Dirs
  <2> QED
    BY <2>1, <2>2
<1> QED
  BY <1>1, CleanupInvariant, PTL

\* rmdir() is called once for each directory; an empty one is left only if it was
\* ior-easy and another rank still had its file in it.
THEOREM EmptyOnlyByRace == Spec => []DirectoryIsLeftOnlyByRace
<1>1. CleanupInv => DirectoryIsLeftOnlyByRace
  <2> SUFFICES ASSUME CleanupInv, Cleaned, NEW d \in dirs
               PROVE  \/ HasFiles(d)
                      \/ d = datadir /\ dirs # {datadir}
                      \/ d = "ior-easy" /\ \E r \in 1..(ranks - 1) : File(d, r) \in before
    BY DEF DirectoryIsLeftOnlyByRace
  <2>1. TypeOK /\ Over /\ kind # "dry" /\ step[0] = "done"
    BY MineFacts DEF CleanupInv, Stage, Cleaned, Over
  <2>2. d \in Dirs \cup {datadir}
    BY <2>1 DEF TypeOK
  <2> QED
    BY <2>1, <2>2 DEF CleanupInv, DirsGone, Behind, Dirs
<1> QED
  BY <1>1, CleanupInvariant, PTL

\* A dry run removes nothing, with whatever earlier runs have left.
THEOREM DryRunHarmless == Spec => DryRunRemovesNothing
<1>1. CleanupInv /\ [Next]_vars =>
        [kind = "dry" /\ stage # "idle" => dirs \subseteq dirs' /\ files \subseteq files']_vars
  <2> SUFFICES ASSUME CleanupInv, Next, kind = "dry", stage # "idle"
               PROVE  dirs \subseteq dirs' /\ files \subseteq files'
    OBVIOUS
  <2>0. TypeOK /\ Dry /\ 0 \in Mine
    BY MineFacts DEF CleanupInv
  <2>1. ~ WritePhase /\ ~ RemovePhase
    BY DEF WritePhase, RemovePhase, Runs
  <2>2. CASE CleanupStep
    <3>1. \A r \in Mine : step[r] \in {"datadir", "done"}
      BY <2>0, <2>2, CleanupFrame, MineFacts DEF Dry
    <3>2. PurgeDatadir
      BY <2>0, <2>2, <3>1 DEF CleanupStep, PurgeOwnFile, PurgeIorEasy, PurgeMdtest, PurgeIorHard,
                              Step
    <3>3. dirs' = dirs /\ files' = files
      BY <2>0, <3>2 DEF PurgeDatadir, u_purge_datadir, Dry, datadir
    <3> QED
      BY <3>3
  <2>3. CASE Kill
    BY <2>3 DEF Kill, Write, Runs
  <2> QED
    BY <2>1, <2>2, <2>3 DEF Next, Start, SkipPhase, LoopEnds, End
<1> QED
  BY <1>1, CleanupInvariant, PTL DEF Spec, DryRunRemovesNothing

===============================================================================
