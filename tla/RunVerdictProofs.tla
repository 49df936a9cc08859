--------------------------- MODULE RunVerdictProofs ---------------------------
(***************************************************************************)
(* Proofs about RunVerdict, for every phase table, every set of options    *)
(* and every set of runtimes that satisfy the assumptions of that module.  *)
(***************************************************************************)
EXTENDS RunVerdict, TLAPS

\* An outcome of run() has the type of the locals of the loop body.
LEMMA OutcomeType ==
  ASSUME NEW p, NEW o \in Outcomes(p)
  PROVE  /\ o.score \in Scores
         /\ o.runtime \in Times \cup {0}
         /\ o.invalid \in BOOLEAN
<1>1. CASE p.kind # "timestamp" /\ Launched(p)
  <2>1. o \in [score : Scores, runtime : IF p.verify_stonewall THEN Times ELSE {0},
               invalid : BOOLEAN]
    BY <1>1 DEF Outcomes
  <2> QED
    BY <2>1
<1>2. CASE ~ (p.kind # "timestamp" /\ Launched(p))
  <2>1. o = [score |-> 0, runtime |-> 0, invalid |-> FALSE]
    BY <1>2 DEF Outcomes
  <2> QED
    BY <2>1 DEF Scores
<1> QED
  BY <1>1, <1>2

LEMMA TimeType ==
  ASSUME NEW t \in Times \cup {0}
  PROVE  t \in Nat
BY TimesAssumption

LEMMA LengthType == N \in Nat
BY PhasesAssumption DEF N

\* The option record of a run, field by field.
LEMMA OptionType ==
  ASSUME opt \in Options
  PROVE  /\ opt.mode \in {"standard", "extended"}
         /\ opt.cleanup_only \in BOOLEAN
         /\ opt.dry_run \in BOOLEAN
         /\ opt.pause_dir \in BOOLEAN
         /\ opt.scc \in BOOLEAN
         /\ opt.stonewall \in Nat
BY OptionsAssumption DEF OptionRecord

LEMMA InitTypeOK == Init => TypeOK
<1> SUFFICES ASSUME Init PROVE TypeOK
  OBVIOUS
<1>1. is_valid_run \in BOOLEAN
  BY DEF Init
<1>2. errors \subseteq Index \cup {0}
  BY DEF Init
<1>3. i \in 1..(N + 1)
  BY LengthType DEF Init
<1>4. /\ local \in [score : Scores, runtime : Times \cup {0}]
      /\ score \in [Index -> Scores]
      /\ runtime \in [Index -> Times \cup {0}]
  BY DEF Init, Scores
<1>5. report \in [valid : BOOLEAN, xvalid : BOOLEAN,
                 score : [ScoreGroups -> SUBSET Index],
                 xscore : [ScoreGroups -> SUBSET Index]]
  BY DEF Init
<1> QED
  BY <1>1, <1>2, <1>3, <1>4, <1>5 DEF Init, TypeOK

LEMMA StepTypeOK == TypeOK /\ [Next]_vars => TypeOK'
<1> SUFFICES ASSUME TypeOK, [Next]_vars PROVE TypeOK'
  OBVIOUS
<1>1. CASE Validate
  BY <1>1 DEF Validate, TypeOK, Runs, outputs
<1>2. CASE SkipPhase
  BY LengthType, <1>2 DEF SkipPhase, TypeOK, Runs, outputs, flags
<1>3. CASE RunPhase
  <2>1. PICK o \in Outcomes(Phases[i]) :
          /\ local' = [score |-> o.score, runtime |-> o.runtime]
          /\ is_valid_phase' = ~ o.invalid
          /\ errors' = IF o.invalid THEN errors \cup {i} ELSE errors
    BY <1>3 DEF RunPhase
  <2>2. local' \in [score : Scores, runtime : Times \cup {0}]
    BY <2>1, OutcomeType
  <2>3. i \in Index
    BY LengthType, <1>3 DEF RunPhase, TypeOK, Index
  <2> QED
    BY <1>3, <2>1, <2>2, <2>3 DEF RunPhase, TypeOK, Runs, outputs
<1>4. CASE JudgePhase
  BY LengthType, <1>4 DEF JudgePhase, TypeOK, Runs, Index
<1>5. CASE WriteReport
  <2>1. /\ calc_score(FALSE) \in [ScoreGroups -> SUBSET Index]
        /\ calc_score(TRUE) \in [ScoreGroups -> SUBSET Index]
    BY DEF calc_score
  <2> QED
    BY <1>5, <2>1 DEF WriteReport, TypeOK, Runs, flags
<1>6. CASE Fatal
  BY <1>6 DEF Fatal, TypeOK, Runs, outputs, flags
<1>7. CASE UNCHANGED vars
  BY <1>7 DEF vars, TypeOK, Runs
<1> QED
  BY <1>1, <1>2, <1>3, <1>4, <1>5, <1>6, <1>7 DEF Next

\* The type invariant holds in every run.
THEOREM TypeCorrect == Spec => []TypeOK
BY InitTypeOK, StepTypeOK, PTL DEF Spec

-------------------------------------------------------------------------------
\* The inductive invariant behind the verdict properties, in four parts.

\* Every scheduled phase the loop has passed has its line.
Progress ==
  /\ \A j \in Index : j \in ran <=> j < i /\ Runs(j)
  /\ pc \in {"validate"} => i = 1
  /\ Done => i = N + 1

\* The complaints of the phase in progress are those that is_valid_phase knows.
Complaints ==
  /\ SummaryAgreesWithResultFile
  /\ pc = "judge" => (is_valid_phase <=> i \notin errors)
  /\ \A j \in errors : j = 0 \/ j \in ran \/ (pc = "judge" /\ j = i)

\* The flags of the run sum up the marks.
Verdicts ==
  /\ is_valid_run <=> ~ opt.dry_run /\ ~ opt.pause_dir /\ marked \cap Mandatory = {}
  /\ is_valid_extended_run <=> marked = {}
  /\ Done => /\ report.valid = is_valid_run
             /\ report.xvalid = is_valid_extended_run
             /\ report.score = calc_score(FALSE)

\* What an unmarked phase has measured.
Measured(j) ==
  /\ Phases[j].verify_stonewall => runtime[j] >= minwrite
  /\ ~ opt.dry_run /\ ~ Dummy(Phases[j]) => score[j] # 0

Measurements ==
  /\ \A j \in ran \ marked : Measured(j)
  /\ opt.dry_run => local.runtime = 0 /\ \A j \in Index : runtime[j] = 0

VerdictInv == TypeOK /\ Progress /\ Complaints /\ Verdicts /\ Measurements

-------------------------------------------------------------------------------
\* An unscheduled phase, or one that a dry run steps over, takes no time.
LEMMA DryRunOutcome ==
  ASSUME NEW p, NEW o \in Outcomes(p), opt.dry_run
  PROVE  o.runtime = 0
BY DEF Outcomes, Launched

LEMMA InitVerdictInv == Init => VerdictInv
<1> SUFFICES ASSUME Init PROVE VerdictInv
  OBVIOUS
<1>1. TypeOK
  BY InitTypeOK
<1>2. Progress
  BY LengthType DEF Init, Progress, Index, Done
<1>3. Complaints
  BY DEF Init, Complaints, SummaryAgreesWithResultFile
<1>4. Verdicts
  BY OptionType DEF Init, Verdicts, Done
<1>5. Measurements
  BY DEF Init, Measurements
<1> QED
  BY <1>1, <1>2, <1>3, <1>4, <1>5 DEF VerdictInv

\* Validate: a complaint about the options leaves no trace in the verdicts.
LEMMA ValidateInv == VerdictInv /\ TypeOK' /\ Validate => VerdictInv'
<1> SUFFICES ASSUME VerdictInv, TypeOK', Validate PROVE VerdictInv'
  OBVIOUS
<1> USE DEF VerdictInv, Validate, outputs
<1>1. Progress'
  BY DEF Progress, Done, Runs
<1>2. Complaints'
  <2>1. ran = {}
    BY DEF Progress, TypeOK, Index
  <2> QED
    BY <2>1 DEF Complaints, SummaryAgreesWithResultFile, Index
<1>3. Verdicts'
  BY DEF Verdicts, Done
<1>4. Measurements'
  BY DEF Measurements, Measured, minwrite
<1> QED
  BY <1>1, <1>2, <1>3, <1>4

LEMMA SkipPhaseInv == VerdictInv /\ TypeOK' /\ SkipPhase => VerdictInv'
<1> SUFFICES ASSUME VerdictInv, TypeOK', SkipPhase PROVE VerdictInv'
  OBVIOUS
<1> USE DEF VerdictInv, SkipPhase, outputs, flags
<1>1. Progress'
  BY LengthType DEF Progress, Done, Runs, TypeOK, Index
<1>2. Complaints'
  BY DEF Complaints, SummaryAgreesWithResultFile
<1>3. Verdicts'
  BY DEF Verdicts, Done, calc_score
<1>4. Measurements'
  BY DEF Measurements, Measured, minwrite
<1> QED
  BY <1>1, <1>2, <1>3, <1>4

LEMMA RunPhaseInv == VerdictInv /\ TypeOK' /\ RunPhase => VerdictInv'
<1> SUFFICES ASSUME VerdictInv, TypeOK', RunPhase PROVE VerdictInv'
  OBVIOUS
<1>1. PICK o \in Outcomes(Phases[i]) :
        /\ local' = [score |-> o.score, runtime |-> o.runtime]
        /\ is_valid_phase' = ~ o.invalid
        /\ errors' = IF o.invalid THEN errors \cup {i} ELSE errors
  BY DEF RunPhase
<1> USE DEF VerdictInv, RunPhase, outputs
<1>2. i \in Index /\ i \notin ran /\ i # 0
  BY LengthType DEF TypeOK, Index, Progress
<1>3. Progress'
  BY DEF Progress, Done, Runs
<1>4. Complaints'
  <2>1. i \notin errors
    BY <1>2 DEF Complaints
  <2> QED
    BY <1>1, <1>2, <2>1, OutcomeType DEF Complaints, SummaryAgreesWithResultFile
<1>5. Verdicts'
  BY DEF Verdicts, Done
<1>6. Measurements'
  BY <1>1, DryRunOutcome DEF Measurements, Measured, minwrite
<1> QED
  BY <1>3, <1>4, <1>5, <1>6

\* JudgePhase: the step that turns the complaints about a phase into its mark
\* and the mark into the verdicts.
LEMMA JudgePhaseInv == VerdictInv /\ TypeOK' /\ JudgePhase => VerdictInv'
<1> SUFFICES ASSUME VerdictInv, TypeOK', JudgePhase PROVE VerdictInv'
  OBVIOUS
<1> DEFINE valid == is_valid_phase /\ ~ Complaint(Phases[i])
<1>1. /\ i \in Index /\ i \notin ran /\ i # 0 /\ Runs(i)
      /\ ran' = ran \cup {i}
      /\ marked' = IF valid THEN marked ELSE marked \cup {i}
  BY LengthType DEF VerdictInv, JudgePhase, TypeOK, Index, Progress
<1>2. Progress'
  BY <1>1, LengthType DEF VerdictInv, JudgePhase, Progress, Done, Runs, TypeOK, Index
<1>3. Complaints'
  BY <1>1 DEF VerdictInv, JudgePhase, Complaints, SummaryAgreesWithResultFile, TypeOK
<1>4. Verdicts'
  <2>1. /\ opt' = opt
        /\ pc' = "loop"
        /\ is_valid_run' = (is_valid_run /\ (valid \/ ~ Invalidates(Phases[i])))
        /\ is_valid_extended_run' = (is_valid_extended_run /\ valid)
    BY DEF JudgePhase
  <2>2. Invalidates(Phases[i]) <=> i \in Mandatory
    BY <1>1 DEF Invalidates, Mandatory
  <2>3. marked' \cap Mandatory = {} <=>
          marked \cap Mandatory = {} /\ (valid \/ ~ Invalidates(Phases[i]))
    BY <1>1, <2>2
  <2>4. marked' = {} <=> marked = {} /\ valid
    BY <1>1
  <2> QED
    BY <2>1, <2>3, <2>4 DEF VerdictInv, Verdicts, Done
<1>5. Measurements'
  <2>1. /\ opt' = opt
        /\ score' = [score EXCEPT ![i] = local.score]
        /\ runtime' = [runtime EXCEPT ![i] = local.runtime]
        /\ score \in [Index -> Scores] /\ runtime \in [Index -> Times \cup {0}]
    BY DEF JudgePhase, VerdictInv, TypeOK
  <2>2. local.runtime \in Nat
    <3>1. local.runtime \in Times \cup {0}
      BY DEF VerdictInv, TypeOK
    <3> QED
      BY <3>1, TimeType
  <2>3. ASSUME valid, NEW j \in {i} PROVE Measured(j)'
    <3>1. /\ Phases[j].verify_stonewall => ~ (local.runtime < minwrite)
          /\ ~ opt.dry_run /\ ~ Dummy(Phases[j]) => local.score # 0
      BY <2>3 DEF Complaint
    <3>2. score'[j] = local.score /\ runtime'[j] = local.runtime
      BY <1>1, <2>1
    <3> QED
      BY <2>1, <2>2, <3>1, <3>2 DEF Measured, minwrite
  <2>4. ASSUME NEW j \in ran \ marked PROVE Measured(j)'
    <3>1. Measured(j) /\ j # i
      BY <1>1 DEF VerdictInv, Measurements
    <3>2. score'[j] = score[j] /\ runtime'[j] = runtime[j]
      BY <2>1, <3>1 DEF VerdictInv, TypeOK
    <3> QED
      BY <2>1, <3>1, <3>2 DEF Measured, minwrite
  <2>5. ASSUME opt'.dry_run PROVE local'.runtime = 0 /\ \A j \in Index : runtime'[j] = 0
    BY <2>5 DEF VerdictInv, JudgePhase, Measurements, TypeOK
  <2> QED
    BY <1>1, <2>3, <2>4, <2>5 DEF Measurements
<1> QED
  BY <1>2, <1>3, <1>4, <1>5 DEF VerdictInv

LEMMA WriteReportInv == VerdictInv /\ TypeOK' /\ WriteReport => VerdictInv'
<1> SUFFICES ASSUME VerdictInv, TypeOK', WriteReport PROVE VerdictInv'
  OBVIOUS
<1> USE DEF VerdictInv, WriteReport, flags
<1>1. Progress'
  BY DEF Progress, Done, Runs
<1>2. Complaints'
  BY DEF Complaints, SummaryAgreesWithResultFile
<1>3. Verdicts'
  BY DEF Verdicts, Done, calc_score
<1>4. Measurements'
  BY DEF Measurements, Measured, minwrite
<1> QED
  BY <1>1, <1>2, <1>3, <1>4

LEMMA FatalInv == VerdictInv /\ TypeOK' /\ Fatal => VerdictInv'
<1> SUFFICES ASSUME VerdictInv, TypeOK', Fatal PROVE VerdictInv'
  OBVIOUS
<1> USE DEF VerdictInv, Fatal, outputs, flags
<1>1. Progress'
  BY DEF Progress, Done, Runs
<1>2. Complaints'
  BY DEF Complaints, SummaryAgreesWithResultFile
<1>3. Verdicts'
  BY DEF Verdicts, Done
<1>4. Measurements'
  BY DEF Measurements, Measured, minwrite
<1> QED
  BY <1>1, <1>2, <1>3, <1>4

LEMMA StutterInv == VerdictInv /\ UNCHANGED vars => VerdictInv'
BY DEF vars, VerdictInv, TypeOK, Runs, Progress, Done, Complaints,
   SummaryAgreesWithResultFile, Verdicts, calc_score, Measurements, Measured, minwrite

LEMMA Invariance == Spec => []VerdictInv
<1>1. VerdictInv /\ [Next]_vars => VerdictInv'
  <2>1. VerdictInv /\ [Next]_vars => TypeOK'
    BY StepTypeOK DEF VerdictInv
  <2> QED
    BY <2>1, ValidateInv, SkipPhaseInv, RunPhaseInv, JudgePhaseInv, WriteReportInv,
       FatalInv, StutterInv DEF Next
<1> QED
  BY InitVerdictInv, <1>1, PTL DEF Spec

-------------------------------------------------------------------------------
\* Of every run: a complaint about a phase in result.txt and the mark of its
\* line in result_summary.txt imply each other.
THEOREM SummaryAgrees == Spec => []SummaryAgreesWithResultFile
<1>1. VerdictInv => SummaryAgreesWithResultFile
  BY DEF VerdictInv, Complaints
<1> QED
  BY Invariance, <1>1, PTL

\* Of every run: the marks of the phases, --dry-run and pause-dir determine both
\* verdicts.
THEOREM MarksDecide == Spec => []PhaseVerdictsDecideRun
<1>1. VerdictInv => PhaseVerdictsDecideRun
  BY DEF VerdictInv, Verdicts, PhaseVerdictsDecideRun
<1> QED
  BY Invariance, <1>1, PTL

\* Of every run without --cleanup: a valid [SCORE] has the score of every
\* mandatory phase in it, unless its run() returned -1, and no stonewalled phase
\* stayed below its minimum time.
THEOREM FullRunComplete == Spec => []FullRunIsComplete
<1>1. VerdictInv => FullRunIsComplete
  <2> SUFFICES ASSUME VerdictInv, Done, report.valid, ~ opt.cleanup_only
               PROVE  \A j \in Mandatory :
                        /\ j \in Scored => \/ j \in report.score[Phases[j].group]
                                           \/ score[j] = -1
                        /\ Phases[j].verify_stonewall => runtime[j] >= minwrite
    BY DEF FullRunIsComplete
  <2> TAKE j \in Mandatory
  <2>0. j \in Index /\ ~ Optional(Phases[j])
    BY DEF Mandatory
  <2>1. report.score = calc_score(FALSE) /\ ~ opt.dry_run /\ marked \cap Mandatory = {}
    BY DEF VerdictInv, Verdicts, TypeOK
  <2>2. ASSUME Phases[j].kind # "none" PROVE Measured(j)
    <3>1. Runs(j)
      BY <2>0, <2>2 DEF Runs, Scheduled, RUN_PHASE
    <3>2. j < i
      BY <2>0, LengthType DEF VerdictInv, Progress, Index
    <3> QED
      BY <2>0, <2>1, <3>1, <3>2 DEF VerdictInv, Progress, Measurements
  <2>3. Phases[j].verify_stonewall => runtime[j] >= minwrite
    BY <2>0, <2>2, TableAssumption DEF Measured
  <2>4. ASSUME j \in Scored, score[j] # -1
        PROVE  j \in report.score[Phases[j].group]
    <3>1. Phases[j].kind # "none" /\ ~ Dummy(Phases[j]) /\ Phases[j].group # "NO_SCORE"
      BY <2>0, <2>4, TableAssumption DEF Scored
    <3>2. score[j] > 0
      <4>1. score[j] # 0
        BY <2>1, <2>2, <3>1 DEF Measured
      <4>2. score[j] \in {-1, 0, 1}
        BY <2>0 DEF VerdictInv, TypeOK, Scores
      <4> QED
        BY <2>4, <4>1, <4>2
    <3>3. Phases[j].group \in ScoreGroups
      <4>1. Phases[j] \in PhaseRows
        BY <2>0, PhasesAssumption DEF Index, N
      <4> QED
        BY <3>1, <4>1 DEF PhaseRows, ScoreGroups
    <3> QED
      BY <2>0, <2>1, <3>2, <3>3 DEF calc_score
  <2> QED
    BY <2>3, <2>4
<1> QED
  BY Invariance, <1>1, PTL

\* Of every dry run that is not a cleanup, with a table that has a mandatory
\* stonewalled phase: neither score is presented as valid.
THEOREM DryRunInvalid == Spec => []DryRunIsInvalid
<1>1. VerdictInv => DryRunIsInvalid
  <2> SUFFICES ASSUME VerdictInv, Done, opt.dry_run, ~ opt.cleanup_only,
                      NEW j \in Mandatory, Phases[j].verify_stonewall
               PROVE  ~ report.valid /\ ~ report.xvalid
    BY DEF DryRunIsInvalid
  <2>0. j \in Index /\ ~ Optional(Phases[j]) /\ Phases[j].kind # "none"
    BY TableAssumption DEF Mandatory
  <2>1. j \in ran
    <3>1. Runs(j)
      BY <2>0 DEF Runs, Scheduled, RUN_PHASE
    <3>2. j < i
      BY <2>0, LengthType DEF VerdictInv, Progress, Index
    <3> QED
      BY <2>0, <3>1, <3>2 DEF VerdictInv, Progress
  <2>2. ~ Measured(j)
    <3>1. runtime[j] = 0
      BY <2>0 DEF VerdictInv, Measurements
    <3> QED
      BY <3>1 DEF Measured, minwrite
  <2>3. j \in marked
    BY <2>1, <2>2 DEF VerdictInv, Measurements
  <2> QED
    BY <2>3 DEF VerdictInv, Verdicts, TypeOK
<1> QED
  BY Invariance, <1>1, PTL

===============================================================================
