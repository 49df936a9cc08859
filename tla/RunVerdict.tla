------------------------------ MODULE RunVerdict ------------------------------
(***************************************************************************)
(* Rank 0's bookkeeping of one run of io500: which phases are executed,    *)
(* which of them are marked [INVALID], and what the [SCORE] and [SCOREX]   *)
(* lines say at the end.  All of it is local to rank 0 (INVALID and        *)
(* INVALID_RUN do nothing elsewhere), so this module has one process; how  *)
(* the ranks interleave is the subject of module PhaseLoop.                *)
(*                                                                         *)
(* What the benchmark programs return is left open: any score, runtime and *)
(* error outcome that run() lets through is possible.                      *)
(***************************************************************************)
EXTENDS Integers, Sequences, PhaseTable

CONSTANTS
  Phases,        \* the phase table: a sequence of rows of PhaseTable
  Options,       \* the option records a run may be started with
  Times,         \* the runtimes, in seconds, a timed phase may take
  PopenMayFail   \* may popen() fail in run_find?

N     == Len(Phases)
Index == 1..N

OptionRecord ==
  [mode : {"standard", "extended"}, cleanup_only : BOOLEAN, dry_run : BOOLEAN,
   pause_dir : BOOLEAN, scc : BOOLEAN, stonewall : Nat, files_per_dir : Nat,
   off : SUBSET STRING,        \* sections with run = FALSE
   ext_find : SUBSET STRING]   \* find sections with external-script set

ASSUME PhasesAssumption  == Phases \in Seq(PhaseRows)
ASSUME OptionsAssumption == Options \subseteq OptionRecord
ASSUME TimesAssumption   == Times \subseteq Nat
ASSUME PopenAssumption   == PopenMayFail \in BOOLEAN

\* What the initializers of the u_phase_t guarantee: a section without run() has
\* no score and no stonewall, and a scored phase is neither a dummy nor the
\* timestamp.
ASSUME TableAssumption ==
  \A j \in Index :
    /\ Phases[j].kind = "none" =>
         Phases[j].group = "NO_SCORE" /\ ~ Phases[j].verify_stonewall
    /\ Phases[j].group # "NO_SCORE" =>
         Phases[j].kind # "timestamp" /\ ~ Dummy(Phases[j])

VARIABLES
  opt,                    \* the options; never change after start-up
  pc,                     \* where main() is
  i,                      \* loop index
  local,                  \* the locals score and runtime of the loop body
  is_valid_phase, is_valid_run, is_valid_extended_run,
  score,                  \* phases[i]->score, zero until the phase has run
  runtime,                \* the time printed in the result line of a phase
  ran,                    \* phases with a line in result_summary.txt
  marked,                 \* those whose line ends in [INVALID]
  errors,                 \* sections of result.txt with an "ERROR INVALID" line,
                          \*   0 is the part before the first phase
  report                  \* what the [SCORE] and [SCOREX] lines say

vars == <<opt, pc, i, local, is_valid_phase, is_valid_run, is_valid_extended_run,
          score, runtime, ran, marked, errors, report>>
flags   == <<is_valid_phase, is_valid_run, is_valid_extended_run>>
outputs == <<score, runtime, ran, marked, report>>

-------------------------------------------------------------------------------
minwrite == IF opt.scc THEN 30 ELSE 300

Has(name) == \E j \in Index : Phases[j].name = name

Runs(j) == Scheduled(Phases[j], opt.mode, opt.cleanup_only)

\* A score is positive (1 stands for every positive rate), zero, or the -1 that
\* run_find returns when popen() fails.
Scores == {-1, 0, 1}

\* run() starts its benchmark: it is past its dry-run and "run = FALSE" returns.
Launched(p) == /\ ~ opt.dry_run
               /\ p.gates \cap opt.off = {}

\* Which outcomes of a started benchmark run() can return: a failing popen() is
\* not reported, mdtest reports nothing, and a write of IOR that took less than
\* the stonewall time always does (IOR's own time is at most the runtime).
MayReturn(p, o) ==
  /\ o.score = -1 => /\ PopenMayFail /\ ~ o.invalid
                     /\ p.kind = "find" /\ p.name \in opt.ext_find
  /\ p.kind = "mdtest" => ~ o.invalid
  /\ p.kind = "ior_write" /\ o.runtime < opt.stonewall => o.invalid

Outcomes(p) ==
  IF p.kind # "timestamp" /\ Launched(p)
    THEN {o \in [score : Scores, runtime : IF p.verify_stonewall THEN Times ELSE {0},
                 invalid : BOOLEAN] : MayReturn(p, o)}
    ELSE {[score |-> 0, runtime |-> 0, invalid |-> FALSE]}

ScoreGroups == Groups \ {"NO_SCORE"}

calc_score_FromGroupZero(extended) ==
  [g \in Groups |-> {j \in Index : /\ Phases[j].group = g
                                   /\ extended \/ ~ Optional(Phases[j])
                                   /\ score[j] > 0}]

\* For each group, the phases whose score is multiplied into that of the group.
calc_score(extended) ==
  [g \in ScoreGroups |-> {j \in Index : /\ Phases[j].group = g
                                        /\ extended \/ ~ Optional(Phases[j])
                                        /\ score[j] > 0}]

-------------------------------------------------------------------------------
Init ==
  /\ opt \in Options
  /\ pc = "validate" /\ i = 1
  /\ local = [score |-> 0, runtime |-> 0]
  /\ is_valid_phase = FALSE   \* the initializer of opt leaves it 0
  \* INVALID_RUN for --dry-run and pause-dir clears only is_valid_run
  /\ is_valid_run = ~ (opt.dry_run \/ opt.pause_dir)
  /\ is_valid_extended_run = TRUE
  /\ score = [j \in Index |-> 0] /\ runtime = [j \in Index |-> 0]
  /\ ran = {} /\ marked = {}
  /\ errors = IF is_valid_run THEN {} ELSE {0}
  /\ report = [valid |-> FALSE, xvalid |-> FALSE,
               score |-> [g \in ScoreGroups |-> {}], xscore |-> [g \in ScoreGroups |-> {}]]

\* The validate() of [debug] and of [mdtest-hard] use INVALID, which clears
\* is_valid_phase; those of the other phases leave the flags alone.
OptionComplaint ==
  \/ Has("debug") /\ opt.stonewall # minwrite
  \/ Has("mdtest-hard") /\ opt.files_per_dir > 0

Validate ==
  /\ pc = "validate"
  /\ pc' = "loop"
  /\ is_valid_phase' = (is_valid_phase /\ ~ OptionComplaint)
  /\ errors' = IF OptionComplaint THEN errors \cup {0} ELSE errors
  /\ UNCHANGED <<opt, i, local, is_valid_run, is_valid_extended_run, outputs>>

SkipPhase ==
  /\ pc = "loop" /\ i <= N /\ ~ Runs(i)
  /\ i' = i + 1
  /\ UNCHANGED <<opt, pc, local, flags, errors, outputs>>

RunPhase_NoReset ==
  /\ pc = "loop" /\ i <= N /\ Runs(i)
  /\ \E o \in Outcomes(Phases[i]) :
       /\ local' = [score |-> o.score, runtime |-> o.runtime]
       /\ is_valid_phase' = (is_valid_phase /\ ~ o.invalid)
       /\ errors' = IF o.invalid THEN errors \cup {i} ELSE errors
  /\ pc' = "judge"
  /\ UNCHANGED <<opt, i, is_valid_run, is_valid_extended_run, outputs>>

\* The call of run(), with the reset of is_valid_phase in front of it.
RunPhase ==
  /\ pc = "loop" /\ i <= N /\ Runs(i)
  /\ \E o \in Outcomes(Phases[i]) :
       /\ local' = [score |-> o.score, runtime |-> o.runtime]
       /\ is_valid_phase' = ~ o.invalid
       /\ errors' = IF o.invalid THEN errors \cup {i} ELSE errors
  /\ pc' = "judge"
  /\ UNCHANGED <<opt, i, is_valid_run, is_valid_extended_run, outputs>>

Complaint_ZeroScoreAccepted(p) ==
  \/ ~ opt.dry_run /\ p.verify_stonewall /\ local.runtime < opt.stonewall
  \/ p.verify_stonewall /\ local.runtime < minwrite

Complaint_NotInDryRun(p) ==
  /\ ~ opt.dry_run
  /\ \/ p.verify_stonewall /\ local.runtime < opt.stonewall
     \/ local.score = 0 /\ ~ Dummy(p)
     \/ p.verify_stonewall /\ local.runtime < minwrite

\* The checks main() makes on the result of every phase.
Complaint(p) ==
  \/ ~ opt.dry_run /\ p.verify_stonewall /\ local.runtime < opt.stonewall
  \/ ~ opt.dry_run /\ local.score = 0 /\ ~ Dummy(p)
  \/ p.verify_stonewall /\ local.runtime < minwrite

Invalidates_EveryPhase(p) == TRUE

\* An invalid phase of this row makes the standard run invalid.
Invalidates(p) == ~ Optional(p)

JudgePhase ==
  LET p     == Phases[i]
      valid == is_valid_phase /\ ~ Complaint(p)
  IN
  /\ pc = "judge"
  /\ is_valid_phase' = valid
  /\ is_valid_extended_run' = (is_valid_extended_run /\ valid)
  /\ is_valid_run' = (is_valid_run /\ (valid \/ ~ Invalidates(p)))
  /\ errors' = IF Complaint(p) THEN errors \cup {i} ELSE errors
  /\ score' = [score EXCEPT ![i] = local.score]
  /\ runtime' = [runtime EXCEPT ![i] = local.runtime]
  /\ ran' = ran \cup {i}
  /\ marked' = IF valid THEN marked ELSE marked \cup {i}
  /\ pc' = "loop" /\ i' = i + 1
  /\ UNCHANGED <<opt, local, report>>

WriteReport ==
  /\ pc = "loop" /\ i = N + 1
  /\ pc' = "done"
  /\ report' = [valid  |-> is_valid_run,
                xvalid |-> is_valid_extended_run,
                score  |-> calc_score(FALSE),
                xscore |-> calc_score(TRUE)]
  /\ UNCHANGED <<opt, i, local, flags, errors, score, runtime, ran, marked>>

\* FATAL: the process exits, in a validate() or in a run().
Fatal ==
  /\ pc = "validate" \/ (pc = "loop" /\ i <= N /\ Runs(i))
  /\ pc' = "fatal"
  /\ UNCHANGED <<opt, i, local, flags, errors, outputs>>

Next == Validate \/ SkipPhase \/ RunPhase \/ JudgePhase \/ WriteReport \/ Fatal

Spec == Init /\ [][Next]_vars

-------------------------------------------------------------------------------
Done   == pc = "done"
Scored == {j \in Index : Phases[j].group # "NO_SCORE"}
Mandatory == {j \in Index : ~ Optional(Phases[j])}

\* The variables have their types, and the files hold lines of phases that the
\* loop has passed and that the options schedule.
TypeOK ==
  /\ opt \in Options
  /\ pc \in {"validate", "loop", "judge", "done", "fatal"}
  /\ i \in 1..(N + 1)
  /\ local \in [score : Scores, runtime : Times \cup {0}]
  /\ is_valid_phase \in BOOLEAN
  /\ is_valid_run \in BOOLEAN
  /\ is_valid_extended_run \in BOOLEAN
  /\ score \in [Index -> Scores]
  /\ runtime \in [Index -> Times \cup {0}]
  /\ ran \subseteq {j \in Index : Runs(j)}
  /\ marked \subseteq ran
  /\ errors \subseteq Index \cup {0}
  /\ report \in [valid : BOOLEAN, xvalid : BOOLEAN,
                 score : [ScoreGroups -> SUBSET Index],
                 xscore : [ScoreGroups -> SUBSET Index]]
  /\ pc = "judge" => i \in Index /\ Runs(i)

\* README.md: "for a valid submission, the test must include all mandatory
\* phases".  A [SCORE] line without [INVALID] multiplies the scores of all the
\* mandatory phases of both groups, and every phase with a stonewall took its
\* minimum time, whichever sections are switched off and whatever the benchmarks
\* report.  The code keeps this up to a phase whose run() returned -1, which only a
\* failing popen() does, and for all runs but those with --cleanup.
FullRunIsComplete ==
  Done /\ report.valid /\ ~ opt.cleanup_only =>
    /\ \A j \in Mandatory \cap Scored :
         j \in report.score[Phases[j].group] \/ score[j] = -1
    /\ \A j \in Mandatory : Phases[j].verify_stonewall => runtime[j] >= minwrite

\* The two result files agree: the line of a phase in result_summary.txt ends
\* in [INVALID] exactly when the section of the phase in result.txt holds an
\* "ERROR INVALID" line.  No complaint of run() is lost, and none is charged to
\* the phase that follows.
SummaryAgreesWithResultFile == \A j \in ran : j \in marked <=> j \in errors

\* What decides the two verdicts: the standard one is valid exactly when neither
\* --dry-run nor pause-dir was given and no mandatory phase is marked; the
\* extended one when no phase at all is marked.
PhaseVerdictsDecideRun ==
  Done => /\ report.valid <=> /\ ~ opt.dry_run /\ ~ opt.pause_dir
                             /\ marked \cap Mandatory = {}
          /\ report.xvalid <=> marked = {}

\* A dry run never reports a valid score.  INVALID_RUN clears only the standard
\* flag; the extended verdict is saved by the minwrite check, the one check on a
\* phase that is made in a dry run too, provided a write phase is in the table.
DryRunIsInvalid ==
  Done /\ opt.dry_run /\ ~ opt.cleanup_only
       /\ (\E j \in Mandatory : Phases[j].verify_stonewall) =>
    ~ report.valid /\ ~ report.xvalid

\* The help texts of stonewall-time ("If smaller INVALIDATES RUN; FOR DEBUGGING.")
\* and of files-per-dir ("INVALIDATES RUN; FOR DEBUGGING.").
DebugOptionsInvalidateRun ==
  Done /\ (opt.files_per_dir > 0 \/ opt.stonewall < minwrite) => ~ report.valid

===============================================================================
