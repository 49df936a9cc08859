-------------------------------- MODULE Startup --------------------------------
(***************************************************************************)
(* main() up to the loop over the phases, for jobs that start at the same  *)
(* time on one file system.  Rank 0 reads the configuration and broadcasts *)
(* its text, chooses the timestamp and broadcasts it, makes the result     *)
(* directory and its files; a barrier; then it makes the data directory in *)
(* validate(), and the barrier of the first phase lets all ranks run.      *)
(* FATAL is exit(1) of one rank, in the middle of all that.                *)
(*                                                                         *)
(* External: the launcher, which kills the job of a process that exits     *)
(* without MPI_Finalize, and the file system.  What is in the text is in   *)
(* module IniParse.                                                        *)
(***************************************************************************)
EXTENDS Integers, Sequences, FiniteSets

CONSTANTS
  Jobs,
  Size,        \* the number of ranks of a job
  Starts,      \* sets of calls to start: functions from Jobs to Call
  MaxClock,    \* bound on the clock
  strftime     \* the timestamp of each second

Unset == "unset"

\* A call of io500: its configuration file, what the options ask for, the
\* timestamp option, whether the configuration appends the timestamp to the
\* directories, and whether the files in the result directory can be written.
Call == [ini     : {"good", "bad", "empty", "missing"},
         action  : {"run", "help", "config-hash", "verify", "list", "unknown option",
                    "unknown API"},
         given   : {Unset, "A", "B"},
         stamped : BOOLEAN, writable : BOOLEAN]

ASSUME SizeAssumption   == Size \in Nat \ {0}
ASSUME ClockAssumption  == MaxClock \in Nat
ASSUME TimeAssumption   ==
  \A s, t \in 0..MaxClock : strftime[s] # Unset /\ (strftime[s] = strftime[t] => s = t)
ASSUME StartsAssumption == Starts \subseteq [Jobs -> Call]

Ranks == 0..(Size - 1)
Procs == Jobs \X Ranks

VARIABLES
  call,       \* the calls
  clock,      \* the second on rank 0 of every job
  pc,         \* where each rank of each job is
  config,     \* the text each rank has parsed
  timestamp,  \* opt.timestamp on each rank
  sent,       \* what rank 0 of each job has broadcast
  dirs,       \* the directories: pairs of a path and the job that has made it
  todo,       \* the paths u_create_dir_recursive has before it on rank 0 of each job
  absent,     \* was the first of them absent when rank 0 called stat()?
  opened      \* the result directories in which rank 0 of a job has opened the files

vars == <<call, clock, pc, config, timestamp, sent, dirs, todo, absent, opened>>
files == <<dirs, todo, absent, opened>>

-------------------------------------------------------------------------------
Init ==
  /\ call \in Starts
  /\ clock = 0
  /\ pc = [p \in Procs |-> "options"]
  /\ config = [p \in Procs |-> Unset]
  /\ timestamp = [p \in Procs |-> Unset]
  /\ sent = [j \in Jobs |-> [config |-> Unset, timestamp |-> Unset]]
  /\ dirs = {} /\ opened = {}
  /\ todo = [j \in Jobs |-> <<>>]
  /\ absent = [j \in Jobs |-> FALSE]

Goto(p, from, to) == /\ pc[p] = from
                     /\ pc' = [pc EXCEPT ![p] = to]

Root(j) == <<j, 0>>

\* The loop over argv, on each rank: exit(1) after --list, and FATAL.
ParseOptions(p) ==
  /\ Goto(p, "options",
          IF call[p[1]].action \in {"list", "unknown option"} THEN "exited" ELSE "config")
  /\ UNCHANGED <<call, clock, config, timestamp, sent, files>>

ReadConfig_Unchecked(j) ==
  /\ call[j].ini # "missing"
  /\ Goto(Root(j), "config", "action")
  /\ config' = [config EXCEPT ![Root(j)] = call[j].ini]
  /\ sent' = [sent EXCEPT ![j].config = call[j].ini]
  /\ UNCHANGED <<call, clock, timestamp, files>>

\* u_ini_parse_file on rank 0, and the broadcast of the text.
ReadConfig(j) ==
  /\ call[j].ini \in {"good", "empty"}
  /\ Goto(Root(j), "config", "action")
  /\ config' = [config EXCEPT ![Root(j)] = call[j].ini]
  /\ sent' = [sent EXCEPT ![j].config = call[j].ini]
  /\ UNCHANGED <<call, clock, timestamp, files>>

CannotReadConfig_Returns(j) ==
  /\ call[j].ini # "good"
  /\ Goto(Root(j), "config", "reported")
  /\ UNCHANGED <<call, clock, config, timestamp, sent, files>>

\* FATAL; of an empty file u_ini_parse_file frees a string literal, which is
\* undefined, and may end the process.
CannotReadConfig(j) ==
  /\ call[j].ini # "good"
  /\ Goto(Root(j), "config", "exited")
  /\ UNCHANGED <<call, clock, config, timestamp, sent, files>>

\* The other ranks receive the text and parse it.
ReceiveConfig(p) ==
  /\ p[2] # 0 /\ sent[p[1]].config # Unset
  /\ Goto(p, "config", IF sent[p[1]].config = "bad" THEN "exited" ELSE "action")
  /\ config' = [config EXCEPT ![p] = sent[p[1]].config]
  /\ UNCHANGED <<call, clock, timestamp, sent, files>>

\* What is not a run ends here, on each rank: an API that cannot be loaded in FATAL, and
\* the verification in an exit() of its own, without MPI_Finalize.
Dispatch(p) ==
  /\ Goto(p, "action", CASE call[p[1]].action = "run" -> "timestamp"
                         [] call[p[1]].action \in {"unknown API", "verify"} -> "exited"
                         [] OTHER -> "reported")
  /\ UNCHANGED <<call, clock, config, timestamp, sent, files>>

-------------------------------------------------------------------------------
Directory(name, p) ==
  IF call[p[1]].stamped THEN <<name, timestamp[p]>> ELSE <<name>>

resdir(p)  == Directory("results", p)
datadir(p) == Directory("datafiles", p)

\* The directories on the way to a path.
Prefixes(path) == [k \in 1..Len(path) |-> SubSeq(path, 1, k)]

\* prepare_aiori on rank 0: the option, or the second on the clock, is broadcast.
ChooseTimestamp(j) ==
  LET t == IF call[j].given = Unset THEN strftime[clock] ELSE call[j].given IN
  /\ Goto(Root(j), "timestamp", "resdir")
  /\ timestamp' = [timestamp EXCEPT ![Root(j)] = t]
  /\ sent' = [sent EXCEPT ![j].timestamp = t]
  /\ todo' = [todo EXCEPT ![j] =
                Prefixes(IF call[j].stamped THEN <<"results", t>> ELSE <<"results">>)]
  /\ UNCHANGED <<call, clock, config, dirs, absent, opened>>

ReceiveTimestamp_OwnClock(p) ==
  /\ p[2] # 0
  /\ Goto(p, "timestamp", "barrier")
  /\ timestamp' = [timestamp EXCEPT ![p] = IF call[p[1]].given = Unset THEN strftime[clock]
                                           ELSE call[p[1]].given]
  /\ UNCHANGED <<call, clock, config, sent, files>>

ReceiveTimestamp(p) ==
  /\ p[2] # 0
  /\ call[p[1]].given = Unset => sent[p[1]].timestamp # Unset
  /\ Goto(p, "timestamp", "barrier")
  /\ timestamp' = [timestamp EXCEPT ![p] = IF call[p[1]].given = Unset THEN sent[p[1]].timestamp
                                           ELSE call[p[1]].given]
  /\ UNCHANGED <<call, clock, config, sent, files>>

Exists(path) == \E d \in dirs : d[1] = path

MakingDirs(j) == pc[Root(j)] \in {"resdir", "datadir"} /\ todo[j] # <<>>

Stat_Skipped(j) ==
  /\ MakingDirs(j) /\ ~ absent[j]
  /\ absent' = [absent EXCEPT ![j] = TRUE]
  /\ UNCHANGED <<call, clock, pc, config, timestamp, sent, dirs, todo, opened>>

\* u_create_dir_recursive: stat() of the next directory ...
Stat(j) ==
  /\ MakingDirs(j) /\ ~ absent[j]
  /\ IF Exists(Head(todo[j]))
       THEN todo' = [todo EXCEPT ![j] = Tail(@)] /\ UNCHANGED absent
       ELSE absent' = [absent EXCEPT ![j] = TRUE] /\ UNCHANGED todo
  /\ UNCHANGED <<call, clock, pc, config, timestamp, sent, dirs, opened>>

\* ... and mkdir() if it was absent: FATAL if it is there by now.
Mkdir(j) ==
  /\ MakingDirs(j) /\ absent[j] /\ ~ Exists(Head(todo[j]))
  /\ dirs' = dirs \cup {<<Head(todo[j]), j>>}
  /\ todo' = [todo EXCEPT ![j] = Tail(@)]
  /\ absent' = [absent EXCEPT ![j] = FALSE]
  /\ UNCHANGED <<call, clock, pc, config, timestamp, sent, opened>>

CannotMkdir(j) ==
  /\ MakingDirs(j) /\ absent[j] /\ Exists(Head(todo[j]))
  /\ pc' = [pc EXCEPT ![Root(j)] = "exited"]
  /\ UNCHANGED <<call, clock, config, timestamp, sent, files>>

\* result_summary.txt, result.txt, config-orig.ini and config.ini.
OpenFiles(j) ==
  /\ call[j].writable /\ todo[j] = <<>>
  /\ Goto(Root(j), "resdir", "barrier")
  /\ opened' = opened \cup {<<resdir(Root(j)), j>>}
  /\ UNCHANGED <<call, clock, config, timestamp, sent, dirs, todo, absent>>

CannotOpenFiles(j) ==
  /\ ~ call[j].writable /\ todo[j] = <<>>
  /\ Goto(Root(j), "resdir", "exited")
  /\ UNCHANGED <<call, clock, config, timestamp, sent, files>>

-------------------------------------------------------------------------------
Arrived(j, where) == \A r \in Ranks : pc[<<j, r>>] \in where

\* The barrier before the run; then validate() of ior-easy and of ior-hard make
\* their directories on rank 0.
Barrier(p) ==
  /\ Arrived(p[1], {"barrier", "datadir", "loop", "running"})
  /\ Goto(p, "barrier", IF p[2] = 0 THEN "datadir" ELSE "loop")
  /\ todo' = IF p[2] # 0 THEN todo
             ELSE [todo EXCEPT ![p[1]] = Prefixes(datadir(p) \o <<"ior-easy">>)
                                           \o Prefixes(datadir(p) \o <<"ior-hard">>)]
  /\ UNCHANGED <<call, clock, config, timestamp, sent, dirs, absent, opened>>

Validated(j) ==
  /\ todo[j] = <<>>
  /\ Goto(Root(j), "datadir", "loop")
  /\ UNCHANGED <<call, clock, config, timestamp, sent, files>>

LoopBarrier_Left(p) ==
  /\ Goto(p, "loop", "running")
  /\ UNCHANGED <<call, clock, config, timestamp, sent, files>>

\* The barrier at the head of the loop.
LoopBarrier(p) ==
  /\ Arrived(p[1], {"loop", "running"})
  /\ Goto(p, "loop", "running")
  /\ UNCHANGED <<call, clock, config, timestamp, sent, files>>

\* The launcher kills a job of which a process has exited.
Launcher(j) ==
  /\ \E r \in Ranks : pc[<<j, r>>] = "exited"
  /\ pc' = [p \in Procs |-> IF p[1] # j \/ pc[p] \in {"exited", "reported"} THEN pc[p]
                            ELSE "killed"]
  /\ pc' # pc
  /\ UNCHANGED <<call, clock, config, timestamp, sent, files>>

Tick == /\ clock < MaxClock /\ clock' = clock + 1
        /\ UNCHANGED <<call, pc, config, timestamp, sent, files>>

RootStep(j) ==
  \/ ReadConfig(j) \/ CannotReadConfig(j)
  \/ ChooseTimestamp(j)
  \/ Stat(j) \/ Mkdir(j) \/ CannotMkdir(j)
  \/ OpenFiles(j) \/ CannotOpenFiles(j)
  \/ Validated(j)

RankStep(p) ==
  \/ ParseOptions(p) \/ ReceiveConfig(p) \/ Dispatch(p)
  \/ ReceiveTimestamp(p)
  \/ Barrier(p) \/ LoopBarrier(p)

Next ==
  \/ \E j \in Jobs : RootStep(j) \/ Launcher(j)
  \/ \E p \in Procs : RankStep(p)
  \/ Tick

Spec == Init /\ [][Next]_vars

\* The processes run, and the launcher does its work; the clock need not tick.
Fairness ==
  /\ \A j \in Jobs : WF_vars(RootStep(j)) /\ WF_vars(Launcher(j))
  /\ \A p \in Procs : WF_vars(RankStep(p))

FairSpec == Spec /\ Fairness

-------------------------------------------------------------------------------
States == {"options", "config", "action", "timestamp", "resdir", "barrier", "datadir", "loop",
           "running", "reported", "exited", "killed"}

\* The variables have their types, and a directory is made once.
TypeOK ==
  /\ call \in Starts /\ clock \in 0..MaxClock
  /\ pc \in [Procs -> States]
  /\ config \in [Procs -> {"good", "empty", Unset}]
  /\ DOMAIN timestamp = Procs /\ DOMAIN sent = Jobs
  /\ absent \in [Jobs -> BOOLEAN]
  /\ \A c, d \in dirs : c[1] = d[1] => c = d

\* Ranks that have left the barrier have parsed the same text and work with the
\* same timestamp, and so with the same directories, although each has computed
\* the paths for itself; the directories exist and rank 0 has opened the files.
RanksAgree ==
  \A p, q \in Procs :
    p[1] = q[1] /\ pc[p] \in {"datadir", "loop", "running"} =>
      /\ config[p] = config[q] /\ resdir(p) = resdir(q) /\ datadir(p) = datadir(q)
      /\ Exists(resdir(p)) /\ <<resdir(p), p[1]>> \in opened

\* No rank starts with the phases before the data directory is there, or in a job
\* that has lost a rank.
RunsTogether ==
  \A p, q \in Procs :
    p[1] = q[1] /\ pc[p] = "running" =>
      /\ pc[q] \in {"loop", "running"}
      /\ \A name \in {"ior-easy", "ior-hard"} : Exists(datadir(q) \o <<name>>)

\* A call that gives rank 0 nothing to complain about.
Faultless(c) == c.ini = "good" /\ c.action = "run" /\ c.writable

\* A job without a fault of its own ends in FATAL only if another job has made the
\* directory it was about to make.
FatalOnlyByRace ==
  \A j \in Jobs : Faultless(call[j]) /\ pc[Root(j)] = "exited" =>
    /\ absent[j]
    /\ \E k \in Jobs \ {j} : <<Head(todo[j]), k>> \in dirs

\* Every job comes to run on all its ranks, or to report and end, or is gone.
StartupEnds ==
  \A j \in Jobs :
    \/ <>[]Arrived(j, {"running"})
    \/ <>[]Arrived(j, {"reported"})
    \/ <>[]Arrived(j, {"exited", "killed", "reported"})

\* "The data directory is suffixed by a timestamp. Useful for running several IO500
\* tests concurrently.": faultless jobs whose directories are suffixed by different
\* timestamps do not stop each other.
ConcurrentJobsStart ==
  \A j \in Jobs : Faultless(call[j]) => pc[Root(j)] # "exited"

===============================================================================
