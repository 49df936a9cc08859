# TLA+ project for IO500

IO500 is an MPI program: every rank runs `main()` of `src/src/main.c`, walks the
static table `phases[]` in lock step, and calls IOR, mdtest, md-workbench and a
parallel find inside the `run()` functions of the phases.  Rank 0 also parses the
configuration, judges every phase, and writes `result.txt` and
`result_summary.txt` with the `[SCORE]` and `[SCOREX]` lines, which decide whether
a submission to the IO500 list counts.  What has to be right is therefore:

* the **verdict**: a score line that is not marked `[INVALID]` stands for a
  complete run that followed the rules;
* the **lock step**: the I/O of one phase is never measured together with that of
  another, no rank waits for ever in a collective, the report is written last;
* the **files that outlive a phase or a run**: timestampfile, stonewall and
  md-workbench size files, the data directory, the result files.

All paths below are relative to the repository (`src/src/main.c` is the file
`src/main.c` of the repository, which lies in `src/` here).

## Inventory

| Component | State | Operations | Interacts with | Hard behaviour | What makes it correct |
|---|---|---|---|---|---|
| Phase table (`phase-definitions.h`, `phase_*.c`, `io500-phase.h`) | none; 26 rows with type flags, score group, gates, stonewall flag | `RUN_PHASE`, the three `continue`s of the loop | read by everything | combinations of `--mode`, `--cleanup`, `run = FALSE` | the right phases are scheduled |
| Run verdict and score (`main.c:128-161, 411-560`, the `INVALID*` macros of `io500-debug.h` and `main.c:19-20`) | flags of three scopes, score and runtime per phase, two result files | validate, run, judge, report | outcomes of the benchmarks | the flags are cleared by four macros and reset once per phase; scores that are zero or negative | a valid score is complete; the two files agree; the marks decide the verdicts |
| Phase loop across the ranks (`main.c:397-588`) | where each rank is; the collectives it has called | loop barrier, pause, `run()`, final barrier, finalize | MPI, the operator, the launcher | rank 0 and the others take different paths through the same collectives; `FATAL` ends one rank only | isolation of phases, matching collectives, termination, report last |
| Find phases (`phase_find.c`) | the communicator split off, result messages | `MPI_Comm_split`, `run_find` with pfind or an external script | phase loop, timestampfile | messages 4712 and 4713, a `NULL` result on one rank, `nproc` out of range | every message sent is received; the score uses rank 0's numbers |
| md-workbench sizing (`phase_mdworkbench.c`) | the rate of the create phase in a static variable and in `resdir/mdworkbench-size` | create, bench, delete | broadcast; the file survives the run | a cleanup run reads what an earlier run left; a dry run overwrites it | delete removes what create made |
| Cleanup (`phase_ior_easy.c`, `phase_ior_hard.c`, `phase_mdtest_*.c`, `util.c`, `main.c:563-580`) | files of the data directory | unlink by each rank, rmdir by rank 0, purge | file system | several ranks unlink while rank 0 removes the directory | nothing generated is left behind |
| Start-up (`main.c:163-397`) | options, configuration text, result directory | parse on rank 0, broadcast, parse on the others, create directories | parser, MPI | ways in which rank 0 ends before the broadcast | all ranks have the same configuration |
| Configuration parser (`ini-parse.c`) | the option tables | parse, apply defaults, print | start-up, verifier, hash | line continuation by `continue`, sections that repeat, printed text parsed back | a printed configuration parses to itself |
| Hash and verifier (`util.c:252-356`, `verifier.c`, `main.c`) | a 32-bit hash | xor of the hash of each key and value | result files | the writer and the verifier walk different data | an untouched result verifies |
| Benchmark programs | external | collectives with an arbitrary outcome | | | assumed |
| Scripts and samples (`io500.sh`, `contrib/`, `config-*.ini`) | none | | | | not modelled |

The hazards of this code, each at its line with the properties that cover it, are
in `PROJECT.json`.

## Modules

| Module | Models | State and actions |
|---|---|---|
| `PhaseTable` | `phases[]` and the `u_phase_t` of every phase | No state. `phases` is the table in the order of `phase-definitions.h`; a row holds the name, the type flags, the score group, the sections whose `run` option gates it, what kind of `run()` it has and whether the stonewall is verified. `Scheduled` is the three `continue`s of the loop. |
| `RunVerdict` | rank 0's bookkeeping in `main()`, `calc_score`, the four ways to mark something invalid | `opt` is the part of the options that decides; `is_valid_phase`, `is_valid_run`, `is_valid_extended_run`, `local`, `score` as in the code; `marked`, `ran` are the lines of `result_summary.txt`, `errors` the `ERROR INVALID` lines of `result.txt`, `report` the score lines. `Validate`, `SkipPhase`, `RunPhase`, `JudgePhase`, `WriteReport`, `Fatal`. |
| `PhaseLoop` | the loop of `main()` as the ranks of an MPI job execute it | `pc` and `i` per rank; `ncoll`, `kind`: how many collectives of `MPI_COMM_WORLD` a rank has called and what the latest was, which is how MPI matches them; `pause_files`, `stamped`, `reported`, `dead`. One action per barrier entered or left, per kind of `run()`, for the script with its `popen()`, for the final barrier, finalize, `FATAL`, the launcher's kill and the operator's removal of a pause file. |
| `Lockstep` | the promise of the loop | A bulk-synchronous run: `Begin`, `End`, `Advance`. `PhaseLoop` implements it under the mapping in `PhaseLoop!L`. |
| `ResultFile` | writer and verifier of `result.txt` | Extends `RunVerdict`: the actions of the run are conjoined with what they print and hash; then `Verify`, `hash_func` (one line read), `Conclude`. The hash is the set of pairs added an odd number of times, which is what exclusive or computes when no two pairs have the same word. |
| `MdWorkbench` | `mdworkbench_add_params` over several runs | `rate` and `precreate` per rank, the file `mdworkbench-size`, the objects on storage. `StartRun` (which also chooses whether the user gives `precreate-per-set`) and `Crash` are the operator and the launcher; the other actions are the steps of a phase up to `Execute`, `CannotOpenSizeFile` among them. |
| `Find` | `pfind_prepare_arguments` and `run_find` of the find phases | `com`, `nproc` per rank and section, as `opt_find` holds them; `channel` is what MPI has in transit by sender, communicator and tag; `csv` the rows of the csv file; `reports` what each search has returned on rank 0. `UseWorld`, `Split`, `CannotSplit` are `validate()`, the others `run()`: `pfind_find()` and its aggregation as collectives of the communicator, each `MPI_Send` as a send and a return (`Buffered` or `Delivered`), each `MPI_Recv` of the loop on rank 0. |
| `FindService` | the promise of the find phases | One step per search: nothing, or a report with one row per process of that search. `Find` implements it under `Find!Service`. |
| `Cleanup` | the data directory over several runs | `dirs`, `files`, `stonewalls` outlive a run; `step` is where each rank is in the `cleanup()` functions, which have no barrier. `Start` (with the directories `validate()` makes), the phases that write or remove, one action per `cleanup()` step, `End`, and `Kill` between any two steps and inside a benchmark. |
| `Startup` | `main()` from the command line to the first phase, for several jobs | `pc`, `config`, `timestamp` per rank, what rank 0 has broadcast, the directories of the shared file system with the job that has made each; `Stat` and `Mkdir` of `u_create_dir_recursive` are two steps. `Launcher` kills what a `FATAL` leaves, `Tick` is the clock. |
| `IniParse` | `u_parse_ini`, `u_ini_print_values` | `token`, `cut`, `line`, `lastsave`, `section` are the local variables of the loop, `values` the `default_val` of the table, `var` the variables of the program, `calls` what callback mode hands over. One action per path through the loop, `Finish` for what is behind it, `ParseConfigIni` for a second start with the `config.ini` of the first. |
| `MC*` | instances for TLC | option records, tables and schedules |
| `*Proofs` | theorems | see below |

`ResultFile` composes with `RunVerdict` (a step of it is a step or a stutter of
`RunVerdict`, lemma `ImplementsRun`).  `PhaseLoop` and `RunVerdict` meet in the
schedule: the phases that `Scheduled` lets through, each with its kind of `run()`.
`MdWorkbench` and `Cleanup` take from `PhaseLoop` that the ranks pass a phase together,
and `Find` that the loop barrier separates the searches.  `Startup` ends where `PhaseLoop`
begins (`RunsTogether`), and stands to `IniParse` as the broadcast of a text stands to its
meaning.

Names ending in `_Something` after the name of a definition are faulty variants
(a dropped guard, a missing barrier, an off-by-one).  They take part in no
specification; each shows that a property would notice the fault.

### What is abstracted

* A benchmark started by `run()` is one collective that synchronises the ranks,
  with any score, runtime and error outcome its `run()` can return.  The same
  holds for the broadcasts that md-workbench phases make before they start.  Where
  such a phase makes only broadcasts (`--dry-run`, `run = FALSE`) rank 0 could
  leave before the others arrive; the model lets it wait.
* Two different collectives never match in the model: the ranks wait.  A real MPI
  may instead fail or exchange garbage.
* A positive score is 1, a runtime is one of a few values around the two limits.
* `drop-caches` and the arguments built for IOR and mdtest are local to a rank and
  not part of any property.  The opening of result files appears only as the
  `FATAL` it may end in.
* Pause files are not created while the job runs: one that appears before rank 0
  looks could have been there before, one that appears later is never seen.
* md-workbench rates are whole numbers of kIOPS; all sets count as one.  A run
  that is killed has created or removed all its objects or none.  Full runs are
  started only on a data directory without objects of an earlier run, and a cleanup
  with the configuration of the run it cleans up after.
* In `Find` a message holds the number of its search and whether its sender has found
  something; the other counters travel with these.  Communicators are numbered by the
  section that has split them off.  The result of the reduction is that of its members.
* In `Cleanup` IOR writes one file per rank or one for all; the phases that only read are
  left out, and each run has the configuration of the first.
* In `Startup` a configuration text is one of four outcomes of reading it, and only rank 0
  of a job touches the file system.  The text on rank 0 is broadcast in one step: the length
  and the text are two broadcasts of the same root.
* In `IniParse` a line is what the regular expressions make of it, a name is known by what
  `strcasecmp` takes it for, and a number by its value.  A real file also may end without a
  newline or hold more blanks: the expressions remove both.  The largest `int` and
  `long long` are the constants `INT_MAX` and `LLONG_MAX`; the unsigned types follow from them.

## Checks

| Run | Instance | Shows |
|---|---|---|
| `verdict` | 8 phases, 26 option records, runtimes 1, 30, 300 | types; a valid full run is complete up to scores of -1 (`FullRunIsComplete`); both result files agree on what is invalid; the marks and two options decide both verdicts; a dry run is never valid |
| `verdict_debug` | two option records | *violated*: complaints of `validate()` do not invalidate the run |
| `loop` | 4 ranks, 6 phases, each kind of `run()`, no `pause-dir` | refinement of `Lockstep`; phases are isolated; the timestamp separates them; the report comes last; the ranks never all wait |
| `loop_faults` | 4 ranks, 5 phases, every set of pause files, `FATAL` and failing `popen()` | collectives match; every rank is held by a pause and released; the job ends, unless `popen()` has failed |
| `md_workbench` | 2 ranks, 4 runs, 3 rates, full runs, cleanups and dry cleanups, sizes given or measured | the ranks agree on the size; what is deleted is what was created, over crashes; a run that dies of a size file it cannot open leaves no objects behind |
| `md_workbench_dry` | the same with dry full runs | *violated*: a dry run loses the stored size |
| `result_file` | 6 phases, 5 option records, 2 configurations | the verifier finds the writer's hash and verdict; `[OK]` is only said of valid runs, also when the file is that of an aborted run |
| `find` | 3 ranks, 4 sets of find sections: three on `MPI_COMM_WORLD` and on two, one or no ranks, and one with more processes than ranks | refinement of `FindService`; no message is left for a later search; the ranks never all wait and each gets through, unless `pfind_find()` returns NULL on some ranks only |
| `cleanup` | up to 3 ranks, 3 runs, 4 configurations | a run that comes to its end leaves no file of its ranks and no stonewall file; an empty directory is left only if ranks raced for it; a dry run removes nothing |
| `startup` | 2 jobs of 2 ranks, 2 seconds, 15 pairs of calls | the ranks of a job start together and agree on configuration and directories; start-up ends; only a race for a directory kills a faultless job |
| `startup_concurrent` | 2 jobs with different timestamps | *violated*: jobs that differ in their timestamp do not stop each other |
| `ini_parse` | all files of up to 4 of 16 lines, both modes, 7 options in 4 sections | the parser against a reading of the lines without a parser; the line a parsing error names; what callback mode hands over; which variables mean "not set"; `config.ini` reads back |

**Bounds.**  A phase of `RunVerdict` is judged from its own row, the options and
the flags so far, so a table with one phase of each class, mandatory before and
behind optional, makes every transfer of a flag from phase to phase happen; the
option records are the defaults with one departure each, in both modes.  In
`PhaseLoop` three ranks are enough for a rank that is ahead, one that is behind
and rank 0; four leave two ranks inside and two outside the communicator of a find
with `nproc`; each kind of `run()` precedes and follows others.  With `pause-dir` the second barrier of each
phase would hide a fault in the first, so `loop` runs without.  `MaxRuns` = 4
covers a failed run, a cleanup that is killed too, a cleanup that completes, and
a full run after it.

In `Find` two ranks send to rank 0, so that rows could be exchanged, and a message that
is forgotten has two later searches to turn up in, on the same communicator and on
another.  In `Cleanup` three runs are one that fails, a cleanup that fails or loses the race,
and a cleanup behind it; with three ranks two race with rank 0 and a later run may have fewer.
In `Startup` two jobs are all that can race for one directory, and two seconds
all that can differ.  In `IniParse` four lines hold two sections with an assignment in
each, a section that repeats, or an assignment that overrides another; newlines in front,
between and behind; and the printed `config.ini` is longer than any of them.  `INT_MAX` =
127 and `LLONG_MAX` = 32767 keep the numbers within those of TLC and leave every conversion its
overflow: 128 and 255 for an `int`, 65535 for a `uint64_t`.  A float has three bits and 100 stands
for 1e38: 99 and 100 are both rounded to 96.  Of the two float options one is left unset or set to
99; it is made up (`thinkTime`), since the one float of io500, `waitingTime`, has a default.

`CHECK_DEADLOCK FALSE` is set everywhere because every one of these programs ends.
That the ranks never all wait for each other is the invariant `NeverAllWait` of `PhaseLoop` and
of `Find`, which is proved; that no rank waits for ever is the property `Termination`
(`PhaseLoop`, `Find`) and `StartupEnds`.

**Fairness** (`PhaseLoop!FairSpec`).  Weak fairness for each rank's steps (a rank is
an operating system process, and MPI completes a collective all ranks have
called), for the external script (it ends), for the launcher's kill once a rank
has exited early, and for the operator's removal of each pause file, without which
the wait is meant to last.  None for `FATAL` or a failing `popen()`.

`Find!FairSpec`: weak fairness for each rank's own steps and rank 0's collection, and for
the collectives of pfind, which end once all ranks have called them; `Delivered` belongs to the
steps of a rank since MPI lets a send return when its message was received, `Buffered` does
not, since nothing makes `MPI_Send` return before.  `Startup!FairSpec`: weak fairness for the
ranks and the launcher, none for the clock.  `RunVerdict`, `ResultFile`, `MdWorkbench`,
`Cleanup` and `IniParse` need none.

### Disagreements between code and documentation

Listed in `PROJECT.json` under `findings`, each with the run that shows it:

* `verdict_debug`: `files-per-dir` and a small `stonewall-time` do not invalidate a run as
  their help says.
* `md_workbench_dry`: a dry run overwrites `mdworkbench-size`, which is kept for deletion.
* `startup_concurrent`: two jobs with different timestamps make the same parent directory,
  and the slower one ends in `FATAL` although timestamps are there for concurrent runs.

Others are visible in the modules without a run of their own:

* `RunVerdict`: a `--cleanup` run prints a `[SCORE]` that is not marked; a `popen()` that
  fails is a score of -1, which the verdict does not notice; `pause-dir` leaves the
  extended verdict alone (`PhaseVerdictsDecideRun`).
* `PhaseTable`: `run` of `[mdworkbench-create]`, `-bench` and `-delete` is parsed and never
  read (`gates`).
* `PhaseLoop`: a `popen()` that fails leaves rank 0 one barrier behind for the rest of the
  job.  The properties of `PhaseLoop` carry the condition `~ popen_failed`.
* `Find`: `pfind_find()` returning NULL on some ranks of a communicator leaves the others in the
  aggregation (`disagreed` in `Termination`).
* `MdWorkbench`: a size file that cannot be opened is reported and then closed with
  `fclose(NULL)`; `CannotOpenSizeFile` ends that run.
* `ResultFile`: the verifier hands NULL to `strcmp` on the file of an aborted run.
* `Cleanup`: files that IOR puts into directories of their own (`uniqueDir`) are not found by
  `cleanup()`; the race for `ior-easy` (`DirectoryIsLeftOnlyByRace`).
* `Startup`: `--cleanup` without `--timestamp` works on a new and empty directory if directories are
  stamped; two jobs in the same second share theirs; an empty configuration file makes
  `u_ini_parse_file` free a string literal; `--verify` ends in `exit()` without `MPI_Finalize`
  (`util.c:355`), so the launcher may kill the ranks that are still at it; neither `fopen()` of the configuration nor that of
  `config-orig.ini` is checked.
* `IniParse`: the line number of an error is too small if the file begins with
  newlines (`ErrorAtFirstBadLine`); 4294967295 for an unsigned option is read as "not set"
  (`UnsetMeansNoValue`).  `INI_UNSET_FLOAT` is the double 1e38, and a float variable is left with
  the float next to it (`ini-parse.c:285`), as it is by numbers around 1e38 (`ini-parse.c:263`):
  comparing it with `INI_UNSET_FLOAT`, as the phases do with the other types, would never say
  "not set".  Nothing compares a float, and the only one has a default.  The configuration hash (`ini-parse.c:9-20`) knows no sections and
  combines by exclusive or, so different configurations may share it.

## Proofs

All theorems hold for every value of the constants that satisfies the `ASSUME`s of
the module, which state no more than what the initializers of the `u_phase_t`, the
option parser and MPI guarantee: the table is a sequence of rows, a section without
`run()` has no score, a scored phase is no dummy (`TableAssumption`), phase names
are distinct (`NamesAssumption`), there is at least one rank, `nproc` is at most
the number of ranks, rates are natural numbers, a timestamp names one second
(`TimeAssumption`).  For the parser they are about its tables and expressions: names in the
table are told apart without regard to case and a default is a value its option would accept
(`TableAssumption` of `IniParse`), a boolean is stored as `TRUE` or `FALSE`, which the
parser accepts again (`TruthAssumption`), what the expressions for integers accept denotes
an integer (`NumberAssumption`), an `unsigned` fits into a `long` (`LimitsAssumption`, true where a
`long` has 64 bits), and the number 1e38 is not a float (`FloatAssumption`).  How a number is
rounded to a float (`Float`) and how wide the integers are is left open.

* **`RunVerdictProofs`**: `TypeCorrect`, `SummaryAgrees`, `MarksDecide`,
  `FullRunComplete`, `DryRunInvalid`.  Inductive invariant `VerdictInv`:
  the lines printed are those of the scheduled phases passed (`Progress`); the
  complaints of the phase in progress are those its flag knows (`Complaints`),
  without which a complaint could be charged to the next phase; the flags of the
  run sum up the marks (`Verdicts`); an unmarked phase has a time and a score that
  is not zero (`Measurements`), which the verdict itself does not remember.
* **`PhaseLoopProofs`**: `TypeCorrect`, `MatchedCollectives`, `Isolation`,
  `ReportLast`, `TimestampSeparates`, `PauseHolds`, `NoDeadlock`, `LockstepWhilePopenWorks`,
  `LockstepImplemented`.  Inductive invariant `LoopInv`: where
  a rank is determines the collective it has called last; a rank that is not
  waiting is never ahead of another, so that counts differ by at most one; equal
  counts mean the same collective, one more means the next.  The isolation of
  phases is not inductive: it says nothing of a rank between two phases.
  `ReportLast` and `PauseHolds` add where rank 0 is (`ReportInv`, `PauseInv`).
  `LockstepImplemented` is the refinement: no two ranks are more than a phase apart
  (`EnteredClose`), so the open phase exists; the last rank to enter a phase opens it
  and all other steps begin, end, or stutter.  It assumes that `popen()` cannot fail;
  `LockstepWhilePopenWorks` says the same of every run in which it does not.
  `NoDeadlock` follows from `LoopInv`: a rank that has called the fewest collectives can leave
  the one it is in, and a member that pfind waits for is in front of pfind, not in a
  collective (`NobodyStuck`).
* **`MdWorkbenchProofs`**: `TypeCorrect`, `RanksAgree`, `DeletionMatches`,
  `UndefinedIsHarmless`.  Invariants `Agreed` (where the size is known it is computed
  from one rate) and `Stored` (while objects exist the file and the memory hold the
  rate they were made with, unless the user has given the size).  `DeletionMatches` assumes `FullRunsLaunch`: no full run is a dry run or has
  `[mdworkbench] run = FALSE`; `md_workbench_dry` shows that this is needed.
* **`ResultFileProofs`**: `VerifierAgrees`, `OKMeansValid`.  Invariant `FileInv`: no pair
  stands in the file twice, so exclusive or is union whatever the order; the
  writer's hash is the union over the file, up to the pair of an invalid run; the
  verifier's is the union over the lines it has read.  It uses `VerdictInv` of the
  run below for the fact that a phase is passed once.

* **`CleanupProofs`**: `TypeCorrect`, `RemovableGone`, `EmptyOnlyByRace`,
  `DryRunHarmless`.  Invariant `CleanupInv`: where a file may be follows from the
  configuration (`Laid`); while a run lasts, and after it until the next starts, the delete
  phases it is past have left no file of its ranks (`Deleted`), and each step of the
  `cleanup()` functions a rank is past has left neither its file (`OwnFilesGone`), nor its
  stonewall file (`StonewallsGone`), nor an empty directory unless a file that has gone
  since was in it (`DirsGone`); the ranks of a dry run are only at the data directory
  itself, which holds `ior-easy` and so stays (`Dry`).
* **`StartupProofs`**: `TypeCorrect`, `Agreement`, `Together`, `RaceOnly`.  Invariant
  `StartupInv`: what a rank works with is what rank 0 has broadcast, or the option
  all were given (`Broadcasts`, `Received`); a rank behind the barrier knows that all of
  its job have come to it, and one in the loop that all have come there (`Assembled`); a
  directory rank 0 is to make exists or is still on its list (`Directories`); and one
  found absent was not made by itself (`Race`), so that a `mkdir()` that fails is the
  doing of another job, of which there is one since directories lead back to jobs.

* **`FindProofs`**: `TypeCorrect`, `NothingLeftBehind`, `NoDeadlock`, `ServiceImplemented`.  Invariant
  `FindInv`: all ranks have prepared a section alike (`Prepared`, `Exits`) and those who
  search are at the same one (`Order`); while rank 0 collects, the other members are
  sending or have just returned, otherwise only the return of a last `MPI_Send` is
  outstanding (`Stages`).  So a channel holds exactly the message its sender has sent and
  rank 0 has not received (`Transit`), and what was received is in the rows (`Rows`):
  `NoMessageLeftBehind` alone says nothing of who is still going to send.
  `ServiceImplemented` is the refinement: the steps that give rank 0 a result (`ReturnResult`,
  `StandAside`, `PfindFind` returning NULL there) are the step of `FindService`, all others
  stutter.  `NoDeadlock` adds to `FindInv` that the members of a communicator leave pfind and
  the aggregation together (`Together`), which holds until pfind returns NULL on some of them
  only.  Then somebody goes on: in `validate()` the rank that is furthest behind;
  while rank 0 collects, rank 0, or the rank whose message it needs, as its earlier message
  has been received; otherwise those at the least section.
* **`IniParseProofs`**: `TypeCorrect`, `ReadAsWritten`, `ErrorsLocated`, `CalledOnce`,
  `UnsetTellsNoValue`, `PreservedConfigurationReadsBack`, for texts and tables of any
  length, and for integers of any width and floats of any precision.  Invariant `IniInv`:
  the lines in front of the token are legal, and the parser's section and values are what the reference says of these lines alone (`Read`);
  each step adds what its line says, and the newlines strtok_r skips say nothing.  The
  counter and `lastsaveptr` together tell the number of the token (`Numbered`); in
  callback mode the calls are the lines in front of the token, or up to it when it was
  cut (`Handed`).  The values are those of the table or ones that would be accepted again
  (`Typed`), without which nothing could be said of the text printed from them:
  `PrintedSays` shows, section by section, that this text is legal and says the values.
  Induction over a text or a table is done by hand, by the least number for which a
  statement fails (`Least`, from the well-foundedness of `<`), since the induction
  theorems of the library cannot be instantiated.

**Model-checked only**: `Termination` and `StartupEnds`, since liveness under fairness
is out of the prover's reach.  All other properties of passing runs are theorems.

## Not modelled

The benchmark programs themselves (IOR, mdtest, md-workbench, pfind are separate
projects); GPU and HDF5 options and the other arguments handed to them, which are
formatted from the configuration and influence nothing in this repository; job
scripts and sample configurations, which have no state of their own; the text layout
of the output.  The configuration hash appears as what the result file holds and the
verifier compares; how its bits are mixed (`u_ini_gen_hash`, `ini-parse.c:9-20`) is
not modelled.

## Plan

1. `ResultFile` over a run of `PhaseLoop`: that what is printed is complete when the job
   is killed between two phases.
2. `NeverAllWait` for `Startup`, whose collectives are modelled as barriers of the job.
