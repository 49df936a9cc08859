---------------------------- MODULE StartupProofs ----------------------------
(***************************************************************************)
(* Proofs about Startup, for any jobs, every number of ranks, all clocks   *)
(* and all calls.                                                          *)
(*                                                                         *)
(* The argument.  What rank 0 has broadcast is what it works with itself   *)
(* (Broadcasts), and what a rank works with is what it has received, or    *)
(* the option that all of them were given (Received).  A rank behind the   *)
(* barrier knows that all ranks of its job have come to it (Assembled).    *)
(* A directory that rank 0 is to make is there, or still before it         *)
(* (Directories).  One that was absent in its stat() was not made by       *)
(* itself (Race), so that it must have been another job that is to blame   *)
(* for a mkdir() that fails.                                               *)
(***************************************************************************)
EXTENDS Startup, SequenceTheorems, TLAPS

Stamps == {strftime[s] : s \in 0..MaxClock} \cup {Unset, "A", "B"}
Path   == Seq(Stamps \cup {"results", "datafiles", "ior-easy", "ior-hard"})

Types ==
  /\ call \in Starts /\ clock \in 0..MaxClock
  /\ pc \in [Procs -> States]
  /\ config \in [Procs -> {"good", "empty", Unset}]
  /\ timestamp \in [Procs -> Stamps]
  /\ sent \in [Jobs -> [config : {"good", "empty", Unset}, timestamp : Stamps]]
  /\ dirs \subseteq Path \X Jobs
  /\ todo \in [Jobs -> Seq(Path)]
  /\ absent \in [Jobs -> BOOLEAN]

MadeOnce == \A c, d \in dirs : c[1] = d[1] => c = d

AtBarrier   == {"barrier", "datadir", "loop", "running"}
HasStamp    == {"resdir"} \cup AtBarrier
HasConfig   == {"action", "timestamp"} \cup HasStamp
HasStarted  == {"datadir", "loop", "running"}

Broadcasts ==
  \A j \in Jobs :
    /\ pc[Root(j)] \in {"options", "config"} => sent[j].config = Unset
    /\ pc[Root(j)] \in {"options", "config", "action", "timestamp"} => sent[j].timestamp = Unset

Received ==
  \A p \in Procs :
    /\ pc[p] \in HasConfig => /\ sent[p[1]].config # Unset
                              /\ config[p] = sent[p[1]].config
    /\ pc[p] \in HasStamp =>
         IF call[p[1]].given = Unset
           THEN sent[p[1]].timestamp # Unset /\ timestamp[p] = sent[p[1]].timestamp
           ELSE timestamp[p] = call[p[1]].given

HasResults(p) == Exists(resdir(p)) /\ <<resdir(p), p[1]>> \in opened

Assembled ==
  \A p, q \in Procs : p[1] = q[1] =>
    /\ pc[p] \in HasStarted =>
         /\ pc[q] \in AtBarrier \cup {"exited", "killed"}
         /\ config[q] = config[p] /\ timestamp[q] = timestamp[p]
         /\ HasResults(p)
    /\ pc[p] = "running" => pc[q] \in {"loop", "running"}

DataDirs(j) == {datadir(Root(j)) \o <<"ior-easy">>, datadir(Root(j)) \o <<"ior-hard">>}

Wanted(j) == CASE pc[Root(j)] = "resdir"  -> {resdir(Root(j))}
               [] pc[Root(j)] = "datadir" -> DataDirs(j)
               [] OTHER -> {}

Ahead(j, path) == \E i \in 1..Len(todo[j]) : todo[j][i] = path

DirectoriesOf(j) ==
  /\ \A path \in Wanted(j) : Exists(path) \/ Ahead(j, path)
  /\ pc[Root(j)] \in AtBarrier => HasResults(Root(j))
  /\ pc[Root(j)] \in {"loop", "running"} => \A path \in DataDirs(j) : Exists(path)

Directories == \A j \in Jobs : DirectoriesOf(j)

RaceOf(j) ==
  /\ absent[j] => /\ pc[Root(j)] \in {"resdir", "datadir", "exited", "killed"}
                  /\ todo[j] # <<>> /\ <<Head(todo[j]), j>> \notin dirs
  /\ Faultless(call[j]) /\ pc[Root(j)] = "exited" => absent[j] /\ Exists(Head(todo[j]))

Race == \A j \in Jobs : RaceOf(j)

StartupInv == Types /\ MadeOnce /\ Broadcasts /\ Received /\ Assembled /\ Directories /\ Race

-------------------------------------------------------------------------------
LEMMA RootFacts ==
  /\ 0 \in Ranks
  /\ \A j \in Jobs : Root(j) \in Procs /\ Root(j)[1] = j /\ Root(j)[2] = 0
  /\ \A p \in Procs : p[1] \in Jobs /\ p = <<p[1], p[2]>>
  /\ \A p \in Procs : p[2] = 0 => p = Root(p[1])
  /\ \A j \in Jobs, r \in Ranks : <<j, r>> \in Procs
BY SizeAssumption DEF Ranks, Procs, Root

LEMMA StampFacts ==
  ASSUME Types, NEW j \in Jobs
  PROVE  /\ call[j].given \in Stamps
         /\ strftime[clock] \in Stamps /\ strftime[clock] # Unset
BY StartsAssumption, TimeAssumption DEF Types, Stamps, Call

\* The directories on the way to a path end with the path itself.
LEMMA PrefixesFacts ==
  ASSUME NEW path \in Path
  PROVE  /\ Prefixes(path) \in Seq(Path)
         /\ Len(Prefixes(path)) = Len(path)
         /\ path # <<>> => Prefixes(path)[Len(path)] = path
<1> DEFINE S == Stamps \cup {"results", "datafiles", "ior-easy", "ior-hard"}
<1>1. path \in Seq(S) /\ Len(path) \in Nat
  BY DEF Path
<1>2. ASSUME NEW k \in 1..Len(path) PROVE SubSeq(path, 1, k) \in Seq(S)
  <2>1. \A i \in 1..k : path[i] \in S
    BY <1>1, <1>2
  <2> QED
    BY <1>1, <1>2, <2>1, SubSeqProperties
<1>3. Prefixes(path) = [k \in 1..Len(path) |-> SubSeq(path, 1, k)]
  BY DEF Prefixes
<1>4. Prefixes(path) \in [1..Len(path) -> Path]
  BY <1>2, <1>3 DEF Path
<1>5. Prefixes(path) \in Seq(Path)
  BY <1>1, <1>4, IsASeq
<1>6. Len(Prefixes(path)) = Len(path)
  BY <1>1, <1>4, <1>5, LenProperties
<1>7. ASSUME path # <<>> PROVE Prefixes(path)[Len(path)] = path
  <2>1. Len(path) \in 1..Len(path)
    BY <1>1, <1>7
  <2> QED
    BY <1>1, <1>3, <2>1, SubSeqFull
<1> QED
  BY <1>5, <1>6, <1>7

LEMMA PathFacts ==
  ASSUME Types, NEW p \in Procs
  PROVE  /\ resdir(p) \in Path /\ resdir(p) # <<>>
         /\ \A name \in {"ior-easy", "ior-hard"} :
              datadir(p) \o <<name>> \in Path /\ datadir(p) \o <<name>> # <<>>
<1> DEFINE S == Stamps \cup {"results", "datafiles", "ior-easy", "ior-hard"}
<1>1. timestamp[p] \in S
  BY DEF Types
<1>2. ASSUME NEW name \in {"results", "datafiles"}
      PROVE  Directory(name, p) \in Seq(S) /\ Directory(name, p) # <<>>
  <2>1. name \in S
    OBVIOUS
  <2>2. <<name, timestamp[p]>> \in Seq(S) /\ <<name, timestamp[p]>> # <<>>
    <3> HIDE DEF S
    <3> QED
      BY <1>1, <2>1
  <2>3. <<name>> \in Seq(S) /\ <<name>> # <<>>
    <3> HIDE DEF S
    <3> QED
      BY <2>1
  <2> HIDE DEF S
  <2> QED
    BY <2>2, <2>3 DEF Directory
<1>3. ASSUME NEW name \in {"ior-easy", "ior-hard"}, NEW d \in Seq(S)
      PROVE  d \o <<name>> \in Seq(S) /\ d \o <<name>> # <<>>
  <2>1. <<name>> \in Seq(S) /\ Len(<<name>>) = 1
    OBVIOUS
  <2>2. d \o <<name>> \in Seq(S) /\ Len(d \o <<name>>) = Len(d) + 1
    BY <2>1, ConcatProperties
  <2> QED
    BY <2>2
<1> QED
  BY <1>2, <1>3 DEF resdir, datadir, Path

LEMMA InitInv == Init => StartupInv
<1> SUFFICES ASSUME Init PROVE StartupInv
  OBVIOUS
<1>1. clock \in 0..MaxClock
  BY ClockAssumption DEF Init
<1>2. sent \in [Jobs -> [config : {"good", "empty", Unset}, timestamp : Stamps]]
  BY DEF Init, Stamps
<1>3. todo \in [Jobs -> Seq(Path)]
  BY DEF Init
<1>4. Types
  <2>1. pc \in [Procs -> States]
    BY DEF Init, States
  <2>2. config \in [Procs -> {"good", "empty", Unset}] /\ timestamp \in [Procs -> Stamps]
    BY DEF Init, Stamps
  <2>3. dirs \subseteq Path \X Jobs /\ absent \in [Jobs -> BOOLEAN] /\ call \in Starts
    BY DEF Init
  <2> QED
    BY <1>1, <1>2, <1>3, <2>1, <2>2, <2>3 DEF Types
<1>5. \A p \in Procs : pc[p] = "options"
  BY DEF Init
<1>6. \A j \in Jobs : sent[j].config = Unset /\ sent[j].timestamp = Unset /\ ~ absent[j]
  BY DEF Init
<1>7. MadeOnce
  BY DEF Init, MadeOnce
<1> QED
  BY <1>4, <1>5, <1>6, <1>7, RootFacts
     DEF StartupInv, Broadcasts, Received, Assembled, Directories, DirectoriesOf, Race, RaceOf, Wanted,
         HasConfig, HasStamp, AtBarrier, HasStarted

-------------------------------------------------------------------------------
\* Goto keeps the type of pc, and moves nobody else.
LEMMA GotoFacts ==
  ASSUME Types, NEW p \in Procs, NEW from, NEW to \in States, Goto(p, from, to)
  PROVE  /\ pc' \in [Procs -> States] /\ pc[p] = from /\ pc'[p] = to
         /\ \A q \in Procs \ {p} : pc'[q] = pc[q]
BY DEF Types, Goto

\* The new list of directories.
LEMMA TodoFacts ==
  ASSUME Types, NEW j \in Jobs
  PROVE  /\ ChooseTimestamp(j) => todo' \in [Jobs -> Seq(Path)]
         /\ MakingDirs(j) => /\ Head(todo[j]) \in Path
                             /\ [todo EXCEPT ![j] = Tail(@)] \in [Jobs -> Seq(Path)]
         /\ Barrier(Root(j)) => todo' \in [Jobs -> Seq(Path)]
<1>1. ASSUME ChooseTimestamp(j) PROVE todo' \in [Jobs -> Seq(Path)]
  <2> DEFINE S == Stamps \cup {"results", "datafiles", "ior-easy", "ior-hard"}
             t == IF call[j].given = Unset THEN strftime[clock] ELSE call[j].given
             path == IF call[j].stamped THEN <<"results", t>> ELSE <<"results">>
  <2>1. t \in S /\ "results" \in S
    BY StampFacts
  <2>2. path \in Seq(S)
    <3> HIDE DEF S, t
    <3> QED
      BY <2>1
  <2>3. Prefixes(path) \in Seq(Path)
    BY <2>2, PrefixesFacts DEF Path
  <2>4. todo' = [todo EXCEPT ![j] = Prefixes(path)]
    BY <1>1 DEF ChooseTimestamp
  <2> HIDE DEF path
  <2> QED
    BY <2>3, <2>4 DEF Types
<1>2. ASSUME MakingDirs(j)
      PROVE  Head(todo[j]) \in Path /\ [todo EXCEPT ![j] = Tail(@)] \in [Jobs -> Seq(Path)]
  <2>1. todo[j] \in Seq(Path) /\ todo[j] # <<>>
    BY <1>2 DEF MakingDirs, Types
  <2>2. Head(todo[j]) \in Path /\ Tail(todo[j]) \in Seq(Path)
    BY <2>1, HeadTailProperties
  <2> QED
    BY <2>2 DEF Types
<1>3. ASSUME Barrier(Root(j)) PROVE todo' \in [Jobs -> Seq(Path)]
  <2> DEFINE list == Prefixes(datadir(Root(j)) \o <<"ior-easy">>)
                       \o Prefixes(datadir(Root(j)) \o <<"ior-hard">>)
  <2>1. list \in Seq(Path)
    BY RootFacts, PathFacts, PrefixesFacts, ConcatProperties
  <2>2. todo' = [todo EXCEPT ![j] = list]
    BY <1>3, RootFacts DEF Barrier
  <2> HIDE DEF list
  <2> QED
    BY <2>1, <2>2 DEF Types
<1> QED
  BY <1>1, <1>2, <1>3

LEMMA StepTypes == Types /\ [Next]_vars => Types'
<1> SUFFICES ASSUME Types, [Next]_vars PROVE Types'
  OBVIOUS
<1> USE DEF Types, files
<1>0. \A j \in Jobs : Root(j) \in Procs /\ Root(j)[1] = j /\ Root(j)[2] = 0
  BY RootFacts
<1>1. ASSUME NEW j \in Jobs, RootStep(j) PROVE Types'
  <2>1. CASE ReadConfig(j)
    <3>1. pc' \in [Procs -> States]
      BY <1>0, <2>1, GotoFacts DEF ReadConfig, States
    <3>2. /\ config' \in [Procs -> {"good", "empty", Unset}]
          /\ sent' \in [Jobs -> [config : {"good", "empty", Unset}, timestamp : Stamps]]
      BY <1>0, <2>1 DEF ReadConfig
    <3> QED
      BY <2>1, <3>1, <3>2 DEF ReadConfig
  <2>2. CASE CannotReadConfig(j)
    BY <1>0, <2>2, GotoFacts DEF CannotReadConfig, States
  <2>3. CASE ChooseTimestamp(j)
    <3> DEFINE t == IF call[j].given = Unset THEN strftime[clock] ELSE call[j].given
    <3>1. pc' \in [Procs -> States]
      BY <1>0, <2>3, GotoFacts DEF ChooseTimestamp, States
    <3>2. t \in Stamps
      BY StampFacts
    <3>3. /\ timestamp' = [timestamp EXCEPT ![Root(j)] = t]
          /\ sent' = [sent EXCEPT ![j].timestamp = t]
      BY <2>3 DEF ChooseTimestamp
    <3> HIDE DEF t
    <3>4. /\ timestamp' \in [Procs -> Stamps]
          /\ sent' \in [Jobs -> [config : {"good", "empty", Unset}, timestamp : Stamps]]
      BY <3>2, <3>3
    <3> QED
      BY <2>3, <3>1, <3>4, TodoFacts DEF ChooseTimestamp
  <2>4. CASE Stat(j)
    BY <2>4, TodoFacts DEF Stat
  <2>5. CASE Mkdir(j)
    BY <2>5, TodoFacts DEF Mkdir
  <2>6. CASE CannotMkdir(j)
    BY <2>6 DEF CannotMkdir, States
  <2>7. CASE OpenFiles(j)
    BY <1>0, <2>7, GotoFacts DEF OpenFiles, States
  <2>8. CASE CannotOpenFiles(j)
    BY <1>0, <2>8, GotoFacts DEF CannotOpenFiles, States
  <2>9. CASE Validated(j)
    BY <1>0, <2>9, GotoFacts DEF Validated, States
  <2> QED
    BY <1>1, <2>1, <2>2, <2>3, <2>4, <2>5, <2>6, <2>7, <2>8, <2>9 DEF RootStep
<1>2. ASSUME NEW p \in Procs, RankStep(p) PROVE Types'
  <2>0. p[1] \in Jobs /\ (p[2] = 0 => p = Root(p[1]))
    BY RootFacts
  <2>1. CASE ParseOptions(p)
    BY <2>1, GotoFacts DEF ParseOptions, States
  <2>2. CASE ReceiveConfig(p)
    <3>1. config' \in [Procs -> {"good", "empty", Unset}]
      BY <2>0, <2>2 DEF ReceiveConfig
    <3> QED
      BY <2>2, <3>1, GotoFacts DEF ReceiveConfig, States
  <2>3. CASE Dispatch(p)
    BY <2>3, GotoFacts DEF Dispatch, States
  <2>4. CASE ReceiveTimestamp(p)
    <3>1. timestamp' \in [Procs -> Stamps]
      BY <2>0, <2>4, StampFacts DEF ReceiveTimestamp
    <3> QED
      BY <2>4, <3>1, GotoFacts DEF ReceiveTimestamp, States
  <2>5. CASE Barrier(p)
    <3>1. todo' \in [Jobs -> Seq(Path)]
      BY <2>0, <2>5, TodoFacts DEF Barrier
    <3>2. pc' \in [Procs -> States]
      BY <2>5, GotoFacts DEF Barrier, States
    <3> QED
      BY <2>5, <3>1, <3>2 DEF Barrier
  <2>6. CASE LoopBarrier(p)
    BY <2>6, GotoFacts DEF LoopBarrier, States
  <2> QED
    BY <1>2, <2>1, <2>2, <2>3, <2>4, <2>5, <2>6 DEF RankStep
<1>3. ASSUME NEW j \in Jobs, Launcher(j) PROVE Types'
  BY <1>3 DEF Launcher, States
<1>4. CASE Tick
  BY <1>4, ClockAssumption DEF Tick
<1>5. CASE UNCHANGED vars
  BY <1>5 DEF vars
<1> QED
  BY <1>1, <1>2, <1>3, <1>4, <1>5 DEF Next

-------------------------------------------------------------------------------
\* Only mkdir() changes what is in the file system, and calls do not change.
LEMMA Frame ==
  ASSUME [Next]_vars
  PROVE  /\ call' = call
         /\ \/ UNCHANGED dirs
            \/ \E j \in Jobs : Mkdir(j)
         /\ dirs \subseteq dirs' /\ opened \subseteq opened'
BY DEF Next, RootStep, RankStep, Launcher, Tick, vars, files, ReadConfig, CannotReadConfig,
       ChooseTimestamp, Stat, Mkdir, CannotMkdir, OpenFiles, CannotOpenFiles, Validated,
       ParseOptions, ReceiveConfig, Dispatch, ReceiveTimestamp, Barrier, LoopBarrier

LEMMA StepMadeOnce == MadeOnce /\ [Next]_vars => MadeOnce'
<1> SUFFICES ASSUME MadeOnce, [Next]_vars PROVE MadeOnce'
  OBVIOUS
<1>1. CASE UNCHANGED dirs
  BY <1>1 DEF MadeOnce
<1>2. ASSUME NEW j \in Jobs, Mkdir(j) PROVE MadeOnce'
  <2>1. dirs' = dirs \cup {<<Head(todo[j]), j>>} /\ \A d \in dirs : d[1] # Head(todo[j])
    BY <1>2 DEF Mkdir, Exists
  <2> QED
    BY <2>1 DEF MadeOnce
<1> QED
  BY <1>1, <1>2, Frame

LEMMA StepBroadcasts == StartupInv /\ [Next]_vars => Broadcasts'
<1> SUFFICES ASSUME StartupInv, [Next]_vars PROVE Broadcasts'
  OBVIOUS
<1>0. Types /\ Broadcasts
  BY DEF StartupInv
<1> USE DEF Broadcasts, Types
<1>a. \A j \in Jobs : Root(j) \in Procs /\ Root(j)[1] = j /\ Root(j)[2] = 0
  BY RootFacts
<1>b. \A j, k \in Jobs : Root(j) = Root(k) => j = k
  BY <1>a
<1>1. ASSUME NEW j \in Jobs, RootStep(j) PROVE Broadcasts'
  <2>1. CASE ReadConfig(j)
    BY <1>0, <1>a, <1>b, <2>1 DEF ReadConfig, Goto
  <2>2. CASE ChooseTimestamp(j)
    BY <1>0, <1>a, <1>b, <2>2 DEF ChooseTimestamp, Goto
  <2>3. CASE CannotReadConfig(j) \/ OpenFiles(j) \/ CannotOpenFiles(j) \/ Validated(j)
    BY <1>0, <1>a, <1>b, <2>3 DEF CannotReadConfig, OpenFiles, CannotOpenFiles, Validated, Goto
  <2>4. CASE Stat(j) \/ Mkdir(j)
    BY <1>0, <2>4 DEF Stat, Mkdir
  <2>5. CASE CannotMkdir(j)
    BY <1>0, <1>a, <1>b, <2>5 DEF CannotMkdir
  <2> QED
    BY <1>1, <2>1, <2>2, <2>3, <2>4, <2>5 DEF RootStep
<1>2. ASSUME NEW p \in Procs, RankStep(p) PROVE Broadcasts'
  <2>1. /\ sent' = sent
        /\ \A q \in Procs \ {p} : pc'[q] = pc[q]
        /\ pc'[p] \in {"options", "config"} => pc[p] \in {"options", "config"}
        /\ pc'[p] \in {"options", "config", "action", "timestamp"} =>
             pc[p] \in {"options", "config", "action", "timestamp"}
    BY <1>0, <1>2 DEF RankStep, ParseOptions, ReceiveConfig, Dispatch, ReceiveTimestamp,
                      Barrier, LoopBarrier, Goto
  <2> QED
    BY <1>0, <1>a, <2>1
<1>3. ASSUME NEW j \in Jobs, Launcher(j) PROVE Broadcasts'
  BY <1>0, <1>a, <1>3 DEF Launcher
<1>4. CASE Tick \/ UNCHANGED vars
  BY <1>0, <1>4 DEF Tick, vars
<1> QED
  BY <1>1, <1>2, <1>3, <1>4 DEF Next

LEMMA StepReceived == StartupInv /\ [Next]_vars => Received'
<1> SUFFICES ASSUME StartupInv, [Next]_vars PROVE Received'
  OBVIOUS
<1>0. Types /\ Broadcasts /\ Received
  BY DEF StartupInv
<1> USE DEF HasConfig, HasStamp, AtBarrier
<1>a. \A j \in Jobs : Root(j) \in Procs /\ Root(j)[1] = j /\ Root(j)[2] = 0
  BY RootFacts
<1>b. \A p \in Procs : p[1] \in Jobs /\ (p[2] = 0 => p = Root(p[1]))
  BY RootFacts
\* A step that changes no configuration and no timestamp, and lets no rank pass the
\* places where they are received.
<1>c. ASSUME UNCHANGED <<call, config, timestamp, sent>>,
             \A q \in Procs : /\ pc'[q] \in HasConfig => pc[q] \in HasConfig
                              /\ pc'[q] \in HasStamp => pc[q] \in HasStamp
      PROVE  Received'
  BY <1>0, <1>c DEF Received
<1>1. ASSUME NEW j \in Jobs, RootStep(j) PROVE Received'
  <2>1. CASE ReadConfig(j)
    <3>1. /\ pc[Root(j)] = "config" /\ sent[j].config = Unset
          /\ \A q \in Procs : q[1] = j => pc[q] \notin HasConfig
      BY <1>0, <1>a, <1>b, <2>1 DEF ReadConfig, Goto, Broadcasts, Received
    <3>2. /\ pc'[Root(j)] = "action" /\ \A q \in Procs \ {Root(j)} : pc'[q] = pc[q]
          /\ config'[Root(j)] = call[j].ini
          /\ \A q \in Procs \ {Root(j)} : config'[q] = config[q]
          /\ sent'[j].config = call[j].ini /\ sent'[j].timestamp = sent[j].timestamp
          /\ \A k \in Jobs \ {j} : sent'[k] = sent[k]
          /\ call[j].ini # Unset /\ UNCHANGED <<call, timestamp>>
      BY <1>0, <1>a, <2>1 DEF ReadConfig, Goto, Types, Unset
    <3> QED
      BY <1>0, <1>a, <1>b, <3>1, <3>2 DEF Received
  <2>2. CASE ChooseTimestamp(j)
    <3> DEFINE t == IF call[j].given = Unset THEN strftime[clock] ELSE call[j].given
    <3>1. /\ pc[Root(j)] = "timestamp" /\ sent[j].timestamp = Unset
          /\ t # Unset
      BY <1>0, <1>a, <2>2, StampFacts DEF ChooseTimestamp, Goto, Broadcasts
    <3>2. /\ pc'[Root(j)] = "resdir" /\ \A q \in Procs \ {Root(j)} : pc'[q] = pc[q]
          /\ timestamp'[Root(j)] = t
          /\ \A q \in Procs \ {Root(j)} : timestamp'[q] = timestamp[q]
          /\ sent'[j].timestamp = t /\ sent'[j].config = sent[j].config
          /\ \A k \in Jobs \ {j} : sent'[k] = sent[k]
          /\ UNCHANGED <<call, config>>
      BY <1>0, <1>a, <2>2 DEF ChooseTimestamp, Goto, Types
    <3>3. call[j].given # Unset => t = call[j].given
      OBVIOUS
    <3> HIDE DEF t
    <3> QED
      BY <1>0, <1>a, <1>b, <3>1, <3>2, <3>3 DEF Received
  <2>3. CASE CannotReadConfig(j) \/ OpenFiles(j) \/ CannotOpenFiles(j) \/ Validated(j)
    BY <1>0, <1>a, <1>c, <2>3
       DEF CannotReadConfig, OpenFiles, CannotOpenFiles, Validated, Goto, Types
  <2>4. CASE Stat(j) \/ Mkdir(j)
    BY <1>c, <2>4 DEF Stat, Mkdir
  <2>5. CASE CannotMkdir(j)
    BY <1>0, <1>a, <1>c, <2>5 DEF CannotMkdir, Types, files
  <2> QED
    BY <1>1, <2>1, <2>2, <2>3, <2>4, <2>5 DEF RootStep
<1>2. ASSUME NEW p \in Procs, RankStep(p) PROVE Received'
  <2>1. CASE ReceiveConfig(p)
    <3>1. /\ pc[p] = "config" /\ sent[p[1]].config # Unset
          /\ pc'[p] \in {"exited", "action"}
          /\ \A q \in Procs \ {p} : pc'[q] = pc[q] /\ config'[q] = config[q]
          /\ config'[p] = sent[p[1]].config /\ UNCHANGED <<call, timestamp, sent>>
      BY <1>0, <2>1 DEF ReceiveConfig, Goto, Types
    <3> QED
      BY <1>0, <3>1 DEF Received
  <2>2. CASE ReceiveTimestamp(p)
    <3>1. /\ pc[p] = "timestamp" /\ pc'[p] = "barrier"
          /\ call[p[1]].given = Unset => sent[p[1]].timestamp # Unset
          /\ \A q \in Procs \ {p} : pc'[q] = pc[q] /\ timestamp'[q] = timestamp[q]
          /\ timestamp'[p] = IF call[p[1]].given = Unset THEN sent[p[1]].timestamp
                             ELSE call[p[1]].given
          /\ UNCHANGED <<call, config, sent>>
      BY <1>0, <2>2 DEF ReceiveTimestamp, Goto, Types
    <3> QED
      BY <1>0, <3>1 DEF Received
  <2>3. CASE ParseOptions(p) \/ Dispatch(p) \/ Barrier(p) \/ LoopBarrier(p)
    BY <1>0, <1>c, <2>3 DEF ParseOptions, Dispatch, Barrier, LoopBarrier, Goto, Types
  <2> QED
    BY <1>2, <2>1, <2>2, <2>3 DEF RankStep
<1>3. ASSUME NEW j \in Jobs, Launcher(j) PROVE Received'
  BY <1>0, <1>c, <1>3 DEF Launcher
<1>4. CASE Tick \/ UNCHANGED vars
  BY <1>c, <1>4 DEF Tick, vars
<1> QED
  BY <1>1, <1>2, <1>3, <1>4 DEF Next

\* A directory that exists goes on to exist.
LEMMA ExistsStays == ASSUME [Next]_vars, NEW path PROVE Exists(path) => Exists(path)'
BY Frame DEF Exists

LEMMA StepAssembled == StartupInv /\ [Next]_vars => Assembled'
<1> SUFFICES ASSUME StartupInv, [Next]_vars PROVE Assembled'
  OBVIOUS
<1>0. Types /\ Received /\ Assembled /\ Directories /\ call' = call
  BY Frame DEF StartupInv
<1> USE DEF HasStarted, AtBarrier
<1>a. \A j \in Jobs : Root(j) \in Procs /\ Root(j)[1] = j /\ Root(j)[2] = 0
  BY RootFacts
<1>b. \A p \in Procs : p[1] \in Jobs /\ p = <<p[1], p[2]>> /\ p[2] \in Ranks
  BY RootFacts DEF Procs
<1>c. \A p \in Procs : timestamp'[p] = timestamp[p] /\ HasResults(p) => HasResults(p)'
  BY <1>0, Frame DEF HasResults, Exists, resdir, Directory
\* A rank that does not pass a barrier.
<1>d. ASSUME NEW p \in Procs, UNCHANGED <<config, timestamp>>,
             \A q \in Procs \ {p} : pc'[q] = pc[q],
             pc'[p] \in HasStarted => pc[p] \in HasStarted,
             pc[p] \in AtBarrier \cup {"exited", "killed"} =>
               pc'[p] \in AtBarrier \cup {"exited", "killed"},
             pc[p] \notin {"loop", "running"}, pc'[p] # "running"
      PROVE  Assembled'
  BY <1>0, <1>c, <1>d DEF Assembled
\* A rank that receives something: nobody in its job has started.
<1>e. ASSUME NEW p \in Procs, pc[p] \in {"config", "timestamp"}, pc'[p] \notin HasStarted,
             \A q \in Procs \ {p} :
               pc'[q] = pc[q] /\ config'[q] = config[q] /\ timestamp'[q] = timestamp[q]
      PROVE  Assembled'
  <2>1. \A q \in Procs : q[1] = p[1] => pc[q] \notin HasStarted /\ pc'[q] \notin HasStarted
    BY <1>0, <1>e DEF Assembled
  <2> QED
    BY <1>0, <1>c, <1>e, <2>1 DEF Assembled
<1>1. ASSUME NEW j \in Jobs, RootStep(j) PROVE Assembled'
  <2>1. CASE ReadConfig(j)
    BY <1>0, <1>a, <1>e, <2>1 DEF ReadConfig, Goto, Types
  <2>2. CASE ChooseTimestamp(j)
    BY <1>0, <1>a, <1>e, <2>2 DEF ChooseTimestamp, Goto, Types
  <2>3. CASE CannotReadConfig(j) \/ OpenFiles(j) \/ CannotOpenFiles(j) \/ Validated(j)
    BY <1>0, <1>a, <1>d, <2>3
       DEF CannotReadConfig, OpenFiles, CannotOpenFiles, Validated, Goto, Types
  <2>4. CASE Stat(j) \/ Mkdir(j)
    BY <1>0, <1>c, <2>4 DEF Stat, Mkdir, Assembled
  <2>5. CASE CannotMkdir(j)
    BY <1>0, <1>a, <1>d, <2>5 DEF CannotMkdir, MakingDirs, Types, files
  <2> QED
    BY <1>1, <2>1, <2>2, <2>3, <2>4, <2>5 DEF RootStep
<1>2. ASSUME NEW p \in Procs, RankStep(p) PROVE Assembled'
  <2>1. CASE ReceiveConfig(p)
    BY <1>0, <1>e, <2>1 DEF ReceiveConfig, Goto, Types
  <2>2. CASE ReceiveTimestamp(p)
    BY <1>0, <1>e, <2>2 DEF ReceiveTimestamp, Goto, Types
  <2>3. CASE ParseOptions(p) \/ Dispatch(p)
    BY <1>0, <1>d, <2>3 DEF ParseOptions, Dispatch, Goto, Types
  <2>4. CASE Barrier(p)
    <3>1. \A q \in Procs : q[1] = p[1] => pc[q] \in AtBarrier
      BY <1>b, <2>4 DEF Barrier, Arrived
    <3>2. \A q, r \in Procs : q[1] = p[1] /\ r[1] = p[1] =>
            config[q] = config[r] /\ timestamp[q] = timestamp[r]
      BY <1>0, <3>1 DEF Received, HasConfig, HasStamp
    <3>3. \A q \in Procs : q[1] = p[1] => HasResults(q)
      BY <1>0, <1>a, <1>b, <3>1, <3>2 DEF Directories, DirectoriesOf, HasResults, resdir, Directory
    <3>4. /\ pc[p] = "barrier" /\ pc'[p] \in {"datadir", "loop"}
          /\ \A q \in Procs \ {p} : pc'[q] = pc[q]
          /\ UNCHANGED <<config, timestamp>>
      BY <1>0, <2>4 DEF Barrier, Goto, Types
    <3>5. \A q \in Procs : q[1] = p[1] => pc[q] # "running"
      BY <1>0, <3>4 DEF Assembled
    <3> QED
      BY <1>0, <1>c, <3>1, <3>2, <3>3, <3>4, <3>5 DEF Assembled
  <2>5. CASE LoopBarrier(p)
    <3>1. \A q \in Procs : q[1] = p[1] => pc[q] \in {"loop", "running"}
      BY <1>b, <2>5 DEF LoopBarrier, Arrived
    <3>2. /\ pc[p] = "loop" /\ pc'[p] = "running"
          /\ \A q \in Procs \ {p} : pc'[q] = pc[q]
          /\ UNCHANGED <<config, timestamp>>
      BY <1>0, <2>5 DEF LoopBarrier, Goto, Types
    <3> QED
      BY <1>0, <1>c, <3>1, <3>2 DEF Assembled
  <2> QED
    BY <1>2, <2>1, <2>2, <2>3, <2>4, <2>5 DEF RankStep
<1>3. ASSUME NEW j \in Jobs, Launcher(j) PROVE Assembled'
  <2>1. PICK e \in Procs : e[1] = j /\ pc[e] = "exited"
    BY <1>3, RootFacts DEF Launcher
  <2>2. \A q \in Procs : q[1] = j => pc[q] # "running" /\ pc'[q] \in {"exited", "reported", "killed"}
    BY <1>0, <1>3, <2>1 DEF Launcher, Assembled
  <2>3. \A q \in Procs : q[1] # j => pc'[q] = pc[q]
    BY <1>3 DEF Launcher
  <2>4. UNCHANGED <<config, timestamp>>
    BY <1>3 DEF Launcher
  <2> QED
    BY <1>0, <1>c, <2>2, <2>3, <2>4 DEF Assembled
<1>4. CASE Tick \/ UNCHANGED vars
  BY <1>0, <1>c, <1>4 DEF Tick, vars, Assembled
<1> QED
  BY <1>1, <1>2, <1>3, <1>4 DEF Next

\* What rank 0 of job j does next in the file system: nothing is lost on the way.
LEMMA AheadFacts ==
  ASSUME Types, [Next]_vars, NEW j \in Jobs, NEW path, Exists(path) \/ Ahead(j, path)
  PROVE  /\ todo[j] = <<>> => Exists(path)'
         /\ Stat(j) \/ Mkdir(j) => Exists(path)' \/ Ahead(j, path)'
         /\ todo'[j] = todo[j] => Exists(path)' \/ Ahead(j, path)'
<1>1. ASSUME todo[j] = <<>> PROVE Exists(path)'
  BY <1>1, ExistsStays DEF Ahead
<1>2. ASSUME todo'[j] = todo[j] PROVE Exists(path)' \/ Ahead(j, path)'
  BY <1>2, ExistsStays DEF Ahead
<1>3. ASSUME MakingDirs(j), todo' = [todo EXCEPT ![j] = Tail(@)],
             \E d \in dirs' : d[1] = Head(todo[j])
      PROVE  Exists(path)' \/ Ahead(j, path)'
  <2>1. todo[j] \in Seq(Path) /\ todo[j] # <<>> /\ todo'[j] = Tail(todo[j])
    BY <1>3 DEF MakingDirs, Types
  <2>2. SUFFICES ASSUME NEW i \in 1..Len(todo[j]), todo[j][i] = path
                 PROVE  Exists(path)' \/ Ahead(j, path)'
    BY ExistsStays DEF Ahead
  <2>3. CASE i = 1
    BY <1>3, <2>1, <2>2, <2>3 DEF Exists
  <2>4. CASE i # 1
    <3>1. Len(todo[j]) \in Nat /\ Len(Tail(todo[j])) = Len(todo[j]) - 1
      BY <2>1, HeadTailProperties
    <3>2. i - 1 \in 1..Len(Tail(todo[j])) /\ (i - 1) + 1 = i
      BY <2>2, <2>4, <3>1
    <3>3. Tail(todo[j])[i - 1] = path
      BY <2>1, <2>2, <3>2, HeadTailProperties
    <3> QED
      BY <2>1, <3>2, <3>3 DEF Ahead
  <2> QED
    BY <2>3, <2>4
<1>4. ASSUME Stat(j) PROVE Exists(path)' \/ Ahead(j, path)'
  <2>1. CASE Exists(Head(todo[j]))
    <3>1. todo' = [todo EXCEPT ![j] = Tail(@)] /\ dirs' = dirs
      BY <1>4, <2>1 DEF Stat
    <3> QED
      BY <1>3, <1>4, <2>1, <3>1 DEF Stat, Exists
  <2>2. CASE ~ Exists(Head(todo[j]))
    BY <1>2, <1>4, <2>2 DEF Stat
  <2> QED
    BY <2>1, <2>2
<1>5. ASSUME Mkdir(j) PROVE Exists(path)' \/ Ahead(j, path)'
  <2>1. MakingDirs(j) /\ todo' = [todo EXCEPT ![j] = Tail(@)]
    BY <1>5 DEF Mkdir
  <2>2. <<Head(todo[j]), j>> \in dirs'
    BY <1>5 DEF Mkdir
  <2>3. <<Head(todo[j]), j>>[1] = Head(todo[j])
    OBVIOUS
  <2>4. \E d \in dirs' : d[1] = Head(todo[j])
    BY <2>2, <2>3
  <2> QED
    BY <1>3, <2>1, <2>4
<1> QED
  BY <1>1, <1>2, <1>4, <1>5

LEMMA StepDirectories == StartupInv /\ [Next]_vars => Directories'
<1> SUFFICES ASSUME StartupInv, [Next]_vars, NEW j \in Jobs PROVE DirectoriesOf(j)'
  BY DEF Directories
<1>0. /\ Types /\ DirectoriesOf(j) /\ call' = call
      /\ \A path \in Wanted(j) : Exists(path) \/ Ahead(j, path)
  BY Frame DEF StartupInv, Directories, DirectoriesOf
<1> USE DEF AtBarrier
<1>a. Root(j) \in Procs /\ Root(j)[1] = j /\ Root(j)[2] = 0
  BY RootFacts
<1>b. ASSUME timestamp'[Root(j)] = timestamp[Root(j)]
      PROVE  /\ resdir(Root(j))' = resdir(Root(j)) /\ DataDirs(j)' = DataDirs(j)
             /\ HasResults(Root(j)) => HasResults(Root(j))'
             /\ pc'[Root(j)] = pc[Root(j)] => Wanted(j)' = Wanted(j)
  BY <1>0, <1>b, Frame DEF resdir, datadir, Directory, DataDirs, HasResults, Exists, Wanted
\* Rank 0 of job j stays where it is.
<1>c. ASSUME pc'[Root(j)] = pc[Root(j)], timestamp'[Root(j)] = timestamp[Root(j)],
             \A path \in Wanted(j) : Exists(path)' \/ Ahead(j, path)'
      PROVE  DirectoriesOf(j)'
  BY <1>0, <1>b, <1>c, ExistsStays DEF DirectoriesOf
<1>d. ASSUME pc'[Root(j)] = pc[Root(j)], timestamp'[Root(j)] = timestamp[Root(j)],
             todo'[j] = todo[j]
      PROVE  DirectoriesOf(j)'
  BY <1>0, <1>c, <1>d, AheadFacts
\* Rank 0 is not among its directories.
<1>e. ASSUME pc'[Root(j)] \notin {"resdir"} \cup AtBarrier PROVE DirectoriesOf(j)'
  BY <1>e DEF DirectoriesOf, Wanted
<1>1. ASSUME NEW k \in Jobs, RootStep(k), k # j PROVE DirectoriesOf(j)'
  <2>1. /\ Root(k) # Root(j) /\ Root(k) \in Procs
    BY <1>1, RootFacts
  <2>2. pc'[Root(j)] = pc[Root(j)] /\ timestamp'[Root(j)] = timestamp[Root(j)]
        /\ todo'[j] = todo[j]
    BY <1>0, <1>1, <1>a, <2>1
       DEF RootStep, ReadConfig, CannotReadConfig, ChooseTimestamp, Stat, Mkdir, CannotMkdir,
           OpenFiles, CannotOpenFiles, Validated, Goto, files, Types
  <2> QED
    BY <1>d, <2>2
<1>2. CASE RootStep(j)
  <2>1. CASE ReadConfig(j) \/ CannotReadConfig(j) \/ CannotOpenFiles(j) \/ CannotMkdir(j)
    BY <1>0, <1>a, <1>e, <2>1
       DEF ReadConfig, CannotReadConfig, CannotOpenFiles, CannotMkdir, Goto, Types
  <2>2. CASE ChooseTimestamp(j)
    <3>1. pc'[Root(j)] = "resdir"
      BY <1>0, <1>a, <2>2 DEF ChooseTimestamp, Goto, Types
    <3>2. todo'[j] = Prefixes(resdir(Root(j))')
      BY <1>0, <1>a, <2>2 DEF ChooseTimestamp, resdir, Directory, Types
    <3>3. Types'
      BY <1>0, StepTypes
    <3>4. resdir(Root(j))' \in Path /\ resdir(Root(j))' # <<>>
      <4> DEFINE t == timestamp'[Root(j)]
                 S == Stamps \cup {"results", "datafiles", "ior-easy", "ior-hard"}
      <4>1. t \in S /\ "results" \in S
        BY <1>a, <3>3 DEF Types
      <4>2. resdir(Root(j))' = IF call[j].stamped THEN <<"results", t>> ELSE <<"results">>
        BY <1>0, <1>a DEF resdir, Directory
      <4> HIDE DEF t, S
      <4>3. /\ <<"results", t>> \in Seq(S) /\ <<"results", t>> # <<>>
            /\ <<"results">> \in Seq(S) /\ <<"results">> # <<>>
        BY <4>1
      <4> QED
        BY <4>2, <4>3 DEF Path, S
    <3>5. /\ Len(resdir(Root(j))') \in 1..Len(todo'[j])
          /\ todo'[j][Len(resdir(Root(j))')] = resdir(Root(j))'
      BY <3>2, <3>4, PrefixesFacts DEF Path
    <3>6. Wanted(j)' = {resdir(Root(j))'}
      BY <3>1 DEF Wanted
    <3>7. \A path \in Wanted(j)' : Ahead(j, path)'
      BY <3>5, <3>6 DEF Ahead
    <3> QED
      BY <3>1, <3>7 DEF DirectoriesOf
  <2>3. CASE Stat(j) \/ Mkdir(j)
    BY <1>0, <1>c, <2>3, AheadFacts DEF Stat, Mkdir
  <2>4. CASE OpenFiles(j)
    <3>1. /\ pc[Root(j)] = "resdir" /\ pc'[Root(j)] = "barrier" /\ todo[j] = <<>>
          /\ timestamp' = timestamp /\ opened' = opened \cup {<<resdir(Root(j)), j>>}
      BY <1>0, <1>a, <2>4 DEF OpenFiles, Goto, Types
    <3>2. \A path \in {resdir(Root(j))} : Exists(path)'
      BY <1>0, <3>1, AheadFacts DEF Wanted
    <3>3. HasResults(Root(j))'
      BY <1>0, <1>a, <1>b, <3>1, <3>2 DEF HasResults, Exists
    <3> QED
      BY <3>1, <3>3 DEF DirectoriesOf, Wanted
  <2>5. CASE Validated(j)
    <3>1. /\ pc[Root(j)] = "datadir" /\ pc'[Root(j)] = "loop" /\ todo[j] = <<>>
          /\ timestamp' = timestamp
      BY <1>0, <1>a, <2>5 DEF Validated, Goto, Types
    <3>2. \A path \in DataDirs(j) : Exists(path)'
      BY <1>0, <3>1, AheadFacts DEF Wanted
    <3> QED
      BY <1>0, <1>b, <3>1, <3>2 DEF DirectoriesOf, Wanted
  <2> QED
    BY <1>2, <2>1, <2>2, <2>3, <2>4, <2>5 DEF RootStep
<1>3. ASSUME NEW p \in Procs, RankStep(p), p # Root(j) PROVE DirectoriesOf(j)'
  <2>1. ~ (p[1] = j /\ p[2] = 0) /\ p[1] \in Jobs
    BY <1>3, RootFacts
  <2>2. pc'[Root(j)] = pc[Root(j)] /\ timestamp'[Root(j)] = timestamp[Root(j)]
        /\ todo'[j] = todo[j]
    BY <1>0, <1>3, <1>a, <2>1
       DEF RankStep, ParseOptions, ReceiveConfig, Dispatch, ReceiveTimestamp, Barrier,
           LoopBarrier, Goto, files, Types
  <2> QED
    BY <1>d, <2>2
<1>4. CASE RankStep(Root(j))
  <2>1. CASE ParseOptions(Root(j)) \/ Dispatch(Root(j))
    BY <1>0, <1>a, <1>e, <2>1 DEF ParseOptions, Dispatch, Goto, Types
  <2>2. ~ ReceiveConfig(Root(j)) /\ ~ ReceiveTimestamp(Root(j))
    BY <1>a DEF ReceiveConfig, ReceiveTimestamp
  <2>3. CASE Barrier(Root(j))
    <3> DEFINE easy == datadir(Root(j)) \o <<"ior-easy">>
               hard == datadir(Root(j)) \o <<"ior-hard">>
    <3>1. /\ pc[Root(j)] = "barrier" /\ pc'[Root(j)] = "datadir" /\ timestamp' = timestamp
          /\ todo'[j] = Prefixes(easy) \o Prefixes(hard)
      BY <1>0, <1>a, <2>3 DEF Barrier, Goto, Types
    <3>2. easy \in Path /\ easy # <<>> /\ hard \in Path /\ hard # <<>>
      BY <1>0, <1>a, PathFacts
    <3>3. DataDirs(j)' = {easy, hard} /\ Wanted(j)' = DataDirs(j)'
      BY <1>b, <3>1 DEF DataDirs, Wanted
    <3> HIDE DEF easy, hard
    <3>4. /\ Len(easy) \in 1..Len(todo'[j]) /\ todo'[j][Len(easy)] = easy
          /\ Len(easy) + Len(hard) \in 1..Len(todo'[j])
          /\ todo'[j][Len(easy) + Len(hard)] = hard
      <4>1. /\ Prefixes(easy) \in Seq(Path) /\ Len(Prefixes(easy)) = Len(easy)
            /\ Prefixes(easy)[Len(easy)] = easy
            /\ Prefixes(hard) \in Seq(Path) /\ Len(Prefixes(hard)) = Len(hard)
            /\ Prefixes(hard)[Len(hard)] = hard
        BY <3>2, PrefixesFacts
      <4>2. Len(easy) \in Nat \ {0} /\ Len(hard) \in Nat \ {0}
        BY <3>2 DEF Path
      <4> QED
        BY <3>1, <4>1, <4>2, ConcatProperties
    <3>5. \A path \in Wanted(j)' : Ahead(j, path)'
      BY <3>3, <3>4 DEF Ahead
    <3> QED
      BY <1>0, <1>b, <3>1, <3>5 DEF DirectoriesOf
  <2>4. CASE LoopBarrier(Root(j))
    <3>1. pc[Root(j)] = "loop" /\ pc'[Root(j)] = "running" /\ timestamp' = timestamp
      BY <1>0, <1>a, <2>4 DEF LoopBarrier, Goto, Types
    <3> QED
      BY <1>0, <1>b, <3>1, ExistsStays DEF DirectoriesOf, Wanted
  <2> QED
    BY <1>4, <2>1, <2>2, <2>3, <2>4 DEF RankStep
<1>5. ASSUME NEW k \in Jobs, Launcher(k) PROVE DirectoriesOf(j)'
  <2>1. pc'[Root(j)] \in {pc[Root(j)], "killed"} /\ UNCHANGED <<timestamp, todo>>
    BY <1>0, <1>5, <1>a DEF Launcher, files, Types
  <2> QED
    BY <1>d, <1>e, <2>1
<1>6. CASE Tick \/ UNCHANGED vars
  BY <1>6, <1>d DEF Tick, vars, files
<1> QED
  BY <1>1, <1>2, <1>3, <1>4, <1>5, <1>6 DEF Next

LEMMA StepRace == StartupInv /\ [Next]_vars => Race'
<1> SUFFICES ASSUME StartupInv, [Next]_vars, NEW j \in Jobs PROVE RaceOf(j)'
  BY DEF Race
<1>0. Types /\ RaceOf(j) /\ call' = call
  BY Frame DEF StartupInv, Race
<1>a. Root(j) \in Procs /\ Root(j)[1] = j /\ Root(j)[2] = 0
  BY RootFacts
\* Nothing of job j changes; another job may make a directory.
<1>b. ASSUME todo'[j] = todo[j], absent'[j] = absent[j], pc'[Root(j)] \in {pc[Root(j)], "killed"},
             <<Head(todo[j]), j>> \in dirs' => <<Head(todo[j]), j>> \in dirs
      PROVE  RaceOf(j)'
  BY <1>0, <1>b, ExistsStays DEF RaceOf
\* Rank 0 of job j has seen no directory absent, and if it ends by FATAL it was at fault.
<1>c. ASSUME ~ absent'[j], Faultless(call[j]) => pc'[Root(j)] # "exited" PROVE RaceOf(j)'
  BY <1>0, <1>c DEF RaceOf
<1>1. ASSUME NEW k \in Jobs, RootStep(k), k # j PROVE RaceOf(j)'
  <2>1. Root(k) # Root(j) /\ Root(k) \in Procs
    BY <1>1, RootFacts
  <2>2. pc'[Root(j)] = pc[Root(j)] /\ absent'[j] = absent[j] /\ todo'[j] = todo[j]
    BY <1>0, <1>1, <1>a, <2>1
       DEF RootStep, ReadConfig, CannotReadConfig, ChooseTimestamp, Stat, Mkdir, CannotMkdir,
           OpenFiles, CannotOpenFiles, Validated, Goto, files, Types
  <2>3. \A path : <<path, j>> \in dirs' => <<path, j>> \in dirs
    BY <1>1
       DEF RootStep, ReadConfig, CannotReadConfig, ChooseTimestamp, Stat, Mkdir, CannotMkdir,
           OpenFiles, CannotOpenFiles, Validated, files
  <2> QED
    BY <1>b, <2>2, <2>3
<1>2. CASE RootStep(j)
  <2>1. CASE ReadConfig(j) \/ ChooseTimestamp(j)
    <3>1. /\ pc[Root(j)] \in {"config", "timestamp"} /\ absent' = absent
          /\ pc'[Root(j)] \in {"action", "resdir"}
      BY <1>0, <1>a, <2>1 DEF ReadConfig, ChooseTimestamp, Goto, files, Types
    <3> QED
      BY <1>0, <1>c, <3>1 DEF RaceOf
  <2>2. CASE CannotReadConfig(j)
    <3>1. pc[Root(j)] = "config" /\ absent' = absent /\ ~ Faultless(call[j])
      BY <2>2 DEF CannotReadConfig, Goto, files, Faultless
    <3> QED
      BY <1>0, <1>c, <3>1 DEF RaceOf
  <2>3. CASE Stat(j)
    <3>1. /\ MakingDirs(j) /\ ~ absent[j] /\ dirs' = dirs /\ pc' = pc
      BY <2>3 DEF Stat
    <3>2. CASE Exists(Head(todo[j]))
      BY <1>0, <1>c, <2>3, <3>1, <3>2 DEF Stat, MakingDirs
    <3>3. CASE ~ Exists(Head(todo[j]))
      <4>1. todo' = todo /\ absent'[j] = TRUE
        BY <1>0, <2>3, <3>3 DEF Stat, Types
      <4>2. <<Head(todo[j]), j>> \notin dirs
        BY <3>3 DEF Exists
      <4> QED
        BY <1>0, <3>1, <4>1, <4>2 DEF RaceOf, MakingDirs
    <3> QED
      BY <3>2, <3>3
  <2>4. CASE Mkdir(j)
    <3>1. ~ absent'[j] /\ pc'[Root(j)] \in {"resdir", "datadir"}
      BY <1>0, <2>4 DEF Mkdir, MakingDirs, Types
    <3> QED
      BY <1>c, <3>1
  <2>5. CASE CannotMkdir(j)
    <3>1. /\ MakingDirs(j) /\ absent[j] /\ Exists(Head(todo[j])) /\ pc'[Root(j)] = "exited"
          /\ UNCHANGED <<dirs, todo, absent>>
      BY <1>0, <1>a, <2>5 DEF CannotMkdir, files, Types
    <3> QED
      BY <1>0, <3>1, ExistsStays DEF RaceOf
  <2>6. CASE OpenFiles(j) \/ Validated(j)
    <3>1. todo[j] = <<>> /\ absent' = absent /\ pc'[Root(j)] \in {"barrier", "loop"}
      BY <1>0, <1>a, <2>6 DEF OpenFiles, Validated, Goto, files, Types
    <3> QED
      BY <1>0, <1>c, <3>1 DEF RaceOf
  <2>7. CASE CannotOpenFiles(j)
    <3>1. todo[j] = <<>> /\ absent' = absent /\ ~ Faultless(call[j])
      BY <2>7 DEF CannotOpenFiles, files, Faultless
    <3> QED
      BY <1>0, <1>c, <3>1 DEF RaceOf
  <2> QED
    BY <1>2, <2>1, <2>2, <2>3, <2>4, <2>5, <2>6, <2>7 DEF RootStep
<1>3. ASSUME NEW p \in Procs, RankStep(p), p # Root(j) PROVE RaceOf(j)'
  <2>1. ~ (p[1] = j /\ p[2] = 0) /\ p[1] \in Jobs
    BY <1>3, RootFacts
  <2>2. pc'[Root(j)] = pc[Root(j)] /\ todo'[j] = todo[j] /\ UNCHANGED <<dirs, absent>>
    BY <1>0, <1>3, <1>a, <2>1
       DEF RankStep, ParseOptions, ReceiveConfig, Dispatch, ReceiveTimestamp, Barrier,
           LoopBarrier, Goto, files, Types
  <2> QED
    BY <1>b, <2>2
<1>4. CASE RankStep(Root(j))
  <2>1. ~ ReceiveConfig(Root(j)) /\ ~ ReceiveTimestamp(Root(j))
    BY <1>a DEF ReceiveConfig, ReceiveTimestamp
  <2>2. /\ pc[Root(j)] \in {"options", "action", "barrier", "loop"} /\ absent' = absent
        /\ Faultless(call[j]) => pc'[Root(j)] # "exited"
    BY <1>0, <1>a, <1>4, <2>1
       DEF RankStep, ParseOptions, Dispatch, Barrier, LoopBarrier, Goto, files, Types, Faultless
  <2> QED
    BY <1>0, <1>c, <2>2 DEF RaceOf
<1>5. ASSUME NEW k \in Jobs, Launcher(k) PROVE RaceOf(j)'
  <2>1. pc'[Root(j)] \in {pc[Root(j)], "killed"} /\ UNCHANGED <<dirs, todo, absent>>
    BY <1>0, <1>5, <1>a DEF Launcher, files, Types
  <2> QED
    BY <1>b, <2>1
<1>6. CASE Tick \/ UNCHANGED vars
  BY <1>6, <1>b DEF Tick, vars, files
<1> QED
  BY <1>1, <1>2, <1>3, <1>4, <1>5, <1>6 DEF Next

-------------------------------------------------------------------------------
LEMMA StepInv == StartupInv /\ [Next]_vars => StartupInv'
BY StepTypes, StepMadeOnce, StepBroadcasts, StepReceived, StepAssembled, StepDirectories,
   StepRace DEF StartupInv

LEMMA StartupInvariant == Spec => []StartupInv
BY InitInv, StepInv, PTL DEF Spec

\* The type invariant; part of it is that no two jobs, and no job twice, make the
\* same directory.
THEOREM TypeCorrect == Spec => []TypeOK
<1>1. StartupInv => TypeOK
  BY DEF StartupInv, Types, MadeOnce, TypeOK
<1> QED
  BY <1>1, StartupInvariant, PTL

\* Ranks behind the barrier have the same configuration, timestamp and directories.
THEOREM Agreement == Spec => []RanksAgree
<1>1. ASSUME StartupInv, NEW p \in Procs, NEW q \in Procs, p[1] = q[1], pc[p] \in HasStarted
      PROVE  /\ config[p] = config[q] /\ resdir(p) = resdir(q) /\ datadir(p) = datadir(q)
             /\ Exists(resdir(p)) /\ <<resdir(p), p[1]>> \in opened
  BY <1>1 DEF StartupInv, Assembled, HasResults, resdir, datadir, Directory
<1>2. StartupInv => RanksAgree
  BY <1>1 DEF RanksAgree, HasStarted
<1> QED
  BY <1>2, StartupInvariant, PTL

\* No rank starts with the phases without all the others, or without the data directory.
THEOREM Together == Spec => []RunsTogether
<1>1. ASSUME StartupInv, NEW p \in Procs, NEW q \in Procs, p[1] = q[1], pc[p] = "running"
      PROVE  /\ pc[q] \in {"loop", "running"}
             /\ \A name \in {"ior-easy", "ior-hard"} : Exists(datadir(q) \o <<name>>)
  <2>1. Root(q[1]) \in Procs /\ Root(q[1])[1] = q[1] /\ q[1] \in Jobs
    BY RootFacts
  <2>2. pc[q] \in {"loop", "running"} /\ pc[Root(q[1])] \in {"loop", "running"}
    BY <1>1, <2>1 DEF StartupInv, Assembled
  <2>3. timestamp[Root(q[1])] = timestamp[q]
    BY <1>1, <2>1, <2>2 DEF StartupInv, Assembled, HasStarted
  <2>4. datadir(Root(q[1])) = datadir(q)
    BY <2>1, <2>3 DEF datadir, Directory
  <2>5. \A path \in DataDirs(q[1]) : Exists(path)
    BY <1>1, <2>1, <2>2 DEF StartupInv, Directories, DirectoriesOf
  <2> QED
    BY <2>2, <2>4, <2>5 DEF DataDirs
<1>2. StartupInv => RunsTogether
  BY <1>1 DEF RunsTogether
<1> QED
  BY <1>2, StartupInvariant, PTL

\* A job without a fault of its own that ends in FATAL was overtaken by another job
\* between its stat() and its mkdir().
THEOREM RaceOnly == Spec => []FatalOnlyByRace
<1>1. ASSUME StartupInv, NEW j \in Jobs, Faultless(call[j]), pc[Root(j)] = "exited"
      PROVE  absent[j] /\ \E k \in Jobs \ {j} : <<Head(todo[j]), k>> \in dirs
  <2>1. absent[j] /\ Exists(Head(todo[j])) /\ <<Head(todo[j]), j>> \notin dirs
    BY <1>1 DEF StartupInv, Race, RaceOf
  <2>2. PICK d \in dirs : d[1] = Head(todo[j])
    BY <2>1 DEF Exists
  <2>3. d = <<Head(todo[j]), d[2]>> /\ d[2] \in Jobs
    BY <1>1, <2>2 DEF StartupInv, Types
  <2> QED
    BY <2>1, <2>2, <2>3
<1>2. StartupInv => FatalOnlyByRace
  BY <1>1 DEF FatalOnlyByRace
<1> QED
  BY <1>2, StartupInvariant, PTL

===============================================================================
