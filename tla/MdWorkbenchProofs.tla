-------------------------- MODULE MdWorkbenchProofs --------------------------
(***************************************************************************)
(* Proofs about MdWorkbench, for every number of ranks, every stonewall    *)
(* time, all rates and any number of runs.                                 *)
(*                                                                         *)
(* The argument.  Where the size is known it is computed from a rate that  *)
(* all ranks hold, which is what the broadcasts are for (Agreed).  While   *)
(* objects lie on storage, the size file holds the rate they were made     *)
(* with, and so does the memory of a run that has a rate (Stored); this    *)
(* needs that nobody but a run that makes objects writes the file.         *)
(***************************************************************************)
EXTENDS MdWorkbench, TLAPS

RateOf(f) == IF f.rate <= 0 THEN DefaultRate ELSE f.rate

Agreed ==
  /\ stage = "opened" => \A q \in Ranks : rate[q] = rate[0]
  /\ stage = "sized" =>
       \A q \in Ranks :
         IF kind.given THEN precreate[q] = UserSize
         ELSE /\ rate[q] = rate[0] /\ rate[q] > 0
              /\ precreate[q] = PrecreatePerSet(rate[q])
  /\ stage = "opened" => ~ kind.given

Stored ==
  /\ stage = "opened" => phase = "mdworkbench-create"
  /\ kind.cleanup => phase \in {"none", "mdworkbench-delete"}
  /\ stage = "sized" /\ phase = "mdworkbench-create" /\ ~ kind.given =>
       size_file.state = "written" /\ rate[0] = RateOf(size_file)
  /\ objects > 0 =>
       /\ phase \notin {"mdtest-easy-write", "mdworkbench-create"}
       /\ IF kind.given THEN objects = UserSize
          ELSE /\ size_file.state = "written"
               /\ objects = PrecreatePerSet(RateOf(size_file))
               /\ rate[0] > 0 /\ stage \in {"phase", "sized"} =>
                    objects = PrecreatePerSet(rate[0])
  /\ stage = "undefined" => objects = 0

SizeInv == TypeOK /\ Agreed

-------------------------------------------------------------------------------
LEMMA RootRank == 0 \in Ranks
BY SizeAssumption DEF Ranks

\* The number of objects is a natural number.
LEMMA PrecreateType == ASSUME NEW r \in Nat PROVE PrecreatePerSet(r) \in Nat
<1>1. Time \in Nat
  BY SizeAssumption DEF Time
<1>2. r * Time \in Nat
  BY <1>1
<1> DEFINE n == r * Time * 1000
<1>3. n \in Nat
  BY <1>2
<1> HIDE DEF n
<1>4. ASSUME NEW m \in Nat, NEW d \in Nat \ {0} PROVE m \div d \in Nat
  BY <1>4
<1>5. n \div Size \in Nat
  BY <1>3, <1>4, SizeAssumption
<1>6. (n \div Size) \div 10 \in Nat
  BY <1>4, <1>5
<1> QED
  BY <1>6 DEF PrecreatePerSet, n

\* The step in which the size is computed from a rate v that all ranks hold.
LEMMA SizedStep ==
  ASSUME NEW v \in [Ranks -> Nat], Sized(v), \A q \in Ranks : v[q] = v[0]
  PROVE  /\ rate' \in [Ranks -> Nat] /\ precreate' \in [Ranks -> Nat]
         /\ stage' = "sized"
         /\ \A q \in Ranks : /\ rate'[q] = IF v[0] <= 0 THEN DefaultRate ELSE v[0]
                             /\ rate'[q] > 0
                             /\ precreate'[q] = PrecreatePerSet(rate'[q])
<1>1. OrDefault(v) \in [Ranks -> Nat]
  BY DEF OrDefault, DefaultRate
<1>2. \A q \in Ranks : /\ OrDefault(v)[q] = IF v[0] <= 0 THEN DefaultRate ELSE v[0]
                       /\ OrDefault(v)[q] > 0
  BY RootRank DEF OrDefault, DefaultRate
<1>3. /\ rate' = OrDefault(v) /\ stage' = "sized"
      /\ precreate' = [q \in Ranks |-> PrecreatePerSet(OrDefault(v)[q])]
  BY DEF Sized
<1>4. precreate' \in [Ranks -> Nat]
  BY <1>1, <1>3, PrecreateType
<1> QED
  BY <1>1, <1>2, <1>3, <1>4

-------------------------------------------------------------------------------
LEMMA InitSizeInv == Init => SizeInv
BY KindsAssumption, RootRank DEF Init, SizeInv, TypeOK, Agreed, RunKinds, Stages

LEMMA StepSizeInv == SizeInv /\ [Next]_vars => SizeInv'
<1> SUFFICES ASSUME SizeInv, [Next]_vars PROVE TypeOK' /\ Agreed'
  BY DEF SizeInv
<1>0. TypeOK /\ Agreed
  BY DEF SizeInv
<1>1. CASE StartRun
  <2>1. kind' \in RunKinds
    BY <1>1, KindsAssumption DEF StartRun
  <2>2. runs' \in 0..MaxRuns
    BY <1>0, <1>1, KindsAssumption DEF StartRun, TypeOK
  <2>3. phase' \in {"mdtest-easy-write", "mdworkbench-delete"}
    BY <1>1 DEF StartRun, First
  <2> QED
    BY <1>0, <1>1, <2>1, <2>2, <2>3 DEF StartRun, TypeOK, Agreed, Stages, disk
<1>2. CASE MdtestEasyWrite
  <2>1. rate' \in [Ranks -> Nat]
    <3>1. rate' = rate \/ rate' \in [Ranks -> Rates \cup {0}]
      BY <1>2 DEF MdtestEasyWrite
    <3>2. \A f \in [Ranks -> Rates \cup {0}] : f \in [Ranks -> Nat]
      <4>1. Rates \cup {0} \subseteq Nat
        BY RatesAssumption
      <4> QED
        BY <4>1
    <3> QED
      BY <1>0, <3>1, <3>2 DEF TypeOK
  <2>2. phase' = "mdworkbench-create" /\ stage' = "phase"
    BY <1>2 DEF MdtestEasyWrite, NextPhase, After
  <2> QED
    BY <1>0, <1>2, <2>1, <2>2 DEF MdtestEasyWrite, TypeOK, Agreed, Stages, disk
<1>3. CASE OpenSizeFile
  <2>1. rate' \in [Ranks -> Nat] /\ \A q \in Ranks : rate'[q] = rate'[0]
    BY <1>0, <1>3, RootRank DEF OpenSizeFile, TypeOK, Bcast
  <2> QED
    BY <1>0, <1>3, <2>1 DEF OpenSizeFile, TypeOK, Agreed, Stages
<1>4. CASE WriteSizeFile
  <2>0. ~ kind.given /\ kind' = kind
    BY <1>0, <1>4 DEF WriteSizeFile, Agreed, NotCreate
  <2>1. rate \in [Ranks -> Nat] /\ (\A q \in Ranks : rate[q] = rate[0]) /\ Sized(rate)
    BY <1>0, <1>4 DEF WriteSizeFile, TypeOK, Agreed
  <2>2. size_file' \in [state : {"absent", "empty", "written"}, rate : Nat]
    BY <1>0, <1>4, RootRank DEF WriteSizeFile, TypeOK
  <2>3. /\ rate' \in [Ranks -> Nat] /\ precreate' \in [Ranks -> Nat] /\ stage' = "sized"
        /\ Agreed'
    BY <2>0, <2>1, SizedStep, RootRank DEF Agreed
  <2> QED
    BY <1>0, <1>4, <2>2, <2>3 DEF WriteSizeFile, TypeOK, Stages
<1>5. CASE RateInMemory
  <2>0. ~ kind.given /\ kind' = kind
    BY <1>0, <1>5 DEF RateInMemory, Agreed, NotCreate
  <2>1. /\ Bcast(rate) \in [Ranks -> Nat] /\ Sized(Bcast(rate))
        /\ \A q \in Ranks : Bcast(rate)[q] = Bcast(rate)[0]
    BY <1>0, <1>5, RootRank DEF RateInMemory, TypeOK, Bcast
  <2>2. /\ rate' \in [Ranks -> Nat] /\ precreate' \in [Ranks -> Nat] /\ stage' = "sized"
        /\ Agreed'
    BY <2>0, <2>1, SizedStep, RootRank DEF Agreed
  <2> QED
    BY <1>0, <1>5, <2>2 DEF RateInMemory, NotCreate, TypeOK, Stages, disk
<1>6. CASE ReadSizeFile
  <2> DEFINE v == [q \in Ranks |->
                     IF size_file.state = "written" THEN size_file.rate ELSE rate[0]]
  <2>0. ~ kind.given /\ kind' = kind
    BY <1>0, <1>6 DEF ReadSizeFile, Agreed, NotCreate
  <2>1. v \in [Ranks -> Nat] /\ Sized(v) /\ \A q \in Ranks : v[q] = v[0]
    BY <1>0, <1>6, RootRank DEF ReadSizeFile, TypeOK
  <2>2. /\ rate' \in [Ranks -> Nat] /\ precreate' \in [Ranks -> Nat] /\ stage' = "sized"
        /\ Agreed'
    <3> HIDE DEF v
    <3> QED
      BY <2>0, <2>1, SizedStep, RootRank DEF Agreed
  <2> QED
    BY <1>0, <1>6, <2>2 DEF ReadSizeFile, NotCreate, TypeOK, Stages, disk
<1>7. CASE SizeFileMissing
  BY <1>0, <1>7 DEF SizeFileMissing, TypeOK, Agreed, Stages, memory, disk
<1>8. CASE Execute
  <2>1. objects' \in Nat
    BY <1>0, <1>8, RootRank DEF Execute, TypeOK
  <2>2. phase # "none" /\ stage' \in {"down", "phase"} /\ (stage' = "down" <=> phase' = "none")
        /\ phase' \in {"none", "mdworkbench-create", "mdworkbench-bench", "mdworkbench-delete"}
    BY <1>0, <1>8 DEF Execute, NextPhase, After, TypeOK
  <2> QED
    BY <1>0, <1>8, <2>1, <2>2 DEF Execute, TypeOK, Agreed, Stages, memory
<1>9. CASE Crash
  BY <1>0, <1>9 DEF Crash, TypeOK, Agreed, Stages, memory, disk
<1>10. CASE UNCHANGED vars
  BY <1>0, <1>10 DEF vars, TypeOK, Agreed
<1>11. CASE GivenSize
  <2>1. precreate' \in [Ranks -> Nat] /\ \A q \in Ranks : precreate'[q] = UserSize
    BY <1>11, SizeAssumption DEF GivenSize
  <2> QED
    BY <1>0, <1>11, <2>1 DEF GivenSize, TypeOK, Agreed, Stages, disk
<1>12. CASE CannotOpenSizeFile
  BY <1>0, <1>12 DEF CannotOpenSizeFile, TypeOK, Agreed, Stages, memory, disk
<1> QED
  BY <1>1, <1>2, <1>3, <1>4, <1>5, <1>6, <1>7, <1>8, <1>9, <1>10, <1>11, <1>12 DEF Next

LEMMA SizeInvariant == Spec => []SizeInv
BY InitSizeInv, StepSizeInv, PTL DEF Spec

\* Type correctness of the md-workbench phases over all their runs.
THEOREM TypeCorrect == Spec => []TypeOK
BY SizeInvariant, PTL DEF SizeInv

\* Whenever md-workbench is about to be started, all ranks have computed the
\* same number of objects.
THEOREM RanksAgree == Spec => []RanksAgreeOnSize
<1>1. SizeInv => RanksAgreeOnSize
  BY RootRank DEF SizeInv, Agreed, RanksAgreeOnSize
<1> QED
  BY <1>1, SizeInvariant, PTL

-------------------------------------------------------------------------------
\* Every full run the operator starts makes objects.
FullRunsLaunch == \A k \in Kinds : k.cleanup \/ Launches(k)

LEMMA InitStored == Init => Stored
BY DEF Init, Stored

LEMMA StepStored ==
  ASSUME FullRunsLaunch, SizeInv, SizeInv', Stored, [Next]_vars PROVE Stored'
<1>0. TypeOK /\ Agreed /\ TypeOK' /\ Agreed' /\ 0 \in Ranks
  BY RootRank DEF SizeInv
<1>1. CASE StartRun
  <2>1. /\ objects > 0 => kind'.cleanup /\ kind'.given = kind.given
        /\ phase' = First(kind') /\ stage' = "phase" /\ rate'[0] = 0
        /\ objects' = objects /\ size_file' = size_file
    BY <1>0, <1>1 DEF StartRun, FullRunsLaunch, disk
  <2> QED
    BY <2>1, <1>0 DEF Stored, First, TypeOK
<1>2. CASE MdtestEasyWrite
  <2>1. objects = 0 /\ ~ kind.cleanup
    BY <1>0, <1>2 DEF MdtestEasyWrite, Stored, TypeOK
  <2> QED
    BY <1>2, <2>1 DEF MdtestEasyWrite, NextPhase, After, Stored, disk
<1>3. CASE OpenSizeFile
  <2>1. objects = 0 /\ ~ kind.cleanup
    BY <1>0, <1>3 DEF OpenSizeFile, Stored, TypeOK
  <2> QED
    BY <1>3, <2>1 DEF OpenSizeFile, Stored
<1>4. CASE WriteSizeFile
  <2>1. objects = 0 /\ ~ kind.cleanup /\ phase = "mdworkbench-create"
    BY <1>0, <1>4 DEF WriteSizeFile, Stored, TypeOK
  <2>2. rate'[0] = RateOf(size_file')
    BY <1>0, <1>4 DEF WriteSizeFile, Sized, OrDefault, RateOf, TypeOK
  <2> QED
    BY <1>4, <2>1, <2>2 DEF WriteSizeFile, Sized, Stored
<1>5. CASE RateInMemory
  <2>1. rate'[0] = rate[0]
    BY <1>0, <1>5 DEF RateInMemory, Sized, Bcast, OrDefault, TypeOK
  <2> QED
    BY <1>5, <2>1 DEF RateInMemory, Sized, NotCreate, Stored, RateOf, disk
<1>6. CASE ReadSizeFile
  <2>1. size_file.state = "written" => rate'[0] = RateOf(size_file)
    BY <1>0, <1>6 DEF ReadSizeFile, Sized, OrDefault, RateOf
  <2> QED
    BY <1>6, <2>1 DEF ReadSizeFile, Sized, NotCreate, Stored, RateOf, disk
<1>7. CASE SizeFileMissing
  <2>1. objects = 0
    BY <1>0, <1>7 DEF SizeFileMissing, NotCreate, Stored, TypeOK
  <2> QED
    BY <1>7, <2>1 DEF SizeFileMissing, Stored, memory, disk
<1>8. CASE Execute
  <2> DEFINE told == IF kind.given THEN precreate[0] = UserSize
                     ELSE precreate[0] = PrecreatePerSet(rate[0]) /\ rate[0] > 0
  <2>1. /\ stage' \in {"phase", "down"} /\ kind' = kind /\ size_file' = size_file
        /\ rate' = rate /\ told
    BY <1>0, <1>8 DEF Execute, NextPhase, memory, Agreed
  <2>2. CASE phase = "mdworkbench-create"
    <3>1. /\ ~ kind.cleanup /\ objects = 0 /\ phase' = "mdworkbench-bench"
          /\ ~ kind.given => size_file.state = "written" /\ rate[0] = RateOf(size_file)
      BY <1>0, <1>8, <2>2 DEF Execute, NextPhase, After, Stored, TypeOK
    <3>2. objects' > 0 => objects' = precreate[0]
      BY <1>8, <2>2, <3>1 DEF Execute
    <3> QED
      BY <2>1, <3>1, <3>2 DEF Stored
  <2>3. CASE phase # "mdworkbench-create"
    <3>1. objects > 0 =>
            /\ objects = precreate[0]
            /\ phase' \notin {"mdtest-easy-write", "mdworkbench-create"}
      <4>1. objects > 0 => /\ objects = precreate[0]
                           /\ phase \notin {"mdtest-easy-write", "mdworkbench-create"}
        BY <1>8, <2>1, <2>3 DEF Execute, Stored
      <4>2. phase' = After(phase)
        BY <1>8 DEF Execute, NextPhase
      <4> QED
        BY <4>1, <4>2 DEF After
    <3>2. objects' > 0 => objects > 0 /\ objects' = objects
      BY <1>0, <1>8, <2>1, <2>3, <3>1 DEF Execute, TypeOK
    <3>3. kind.cleanup => phase' \in {"none", "mdworkbench-delete"}
      BY <1>8, <2>1 DEF Execute, NextPhase, After, Stored
    <3> QED
      BY <2>1, <3>1, <3>2, <3>3 DEF Stored
  <2> QED
    BY <2>2, <2>3
<1>9. CASE Crash
  BY <1>9 DEF Crash, Stored, memory, disk
<1>10. CASE UNCHANGED vars
  BY <1>10 DEF vars, Stored, RateOf
<1>11. CASE GivenSize
  BY <1>0, <1>11 DEF GivenSize, Stored, RateOf, disk
<1>12. CASE CannotOpenSizeFile
  BY <1>0, <1>12 DEF CannotOpenSizeFile, Stored, memory, disk, TypeOK
<1> QED
  BY <1>1, <1>2, <1>3, <1>4, <1>5, <1>6, <1>7, <1>8, <1>9, <1>10, <1>11, <1>12 DEF Next

LEMMA StoredInvariant == ASSUME FullRunsLaunch PROVE Spec => [](SizeInv /\ Stored)
<1>1. Init => SizeInv /\ Stored
  BY InitSizeInv, InitStored
<1>2. SizeInv /\ Stored /\ [Next]_vars => (SizeInv /\ Stored)'
  BY StepSizeInv, StepStored
<1> QED
  BY <1>1, <1>2, PTL DEF Spec

\* If every full run makes objects, md-workbench is told the number of objects
\* on storage whenever it is started while there are some: in a cleanup run too,
\* wherever the runs before it were killed.
THEOREM DeletionMatches ==
  ASSUME FullRunsLaunch
  PROVE  Spec => []DeletionMatchesCreation
<1>1. SizeInv /\ Stored => DeletionMatchesCreation
  BY RootRank DEF SizeInv, Agreed, Stored, DeletionMatchesCreation
<1> QED
  BY <1>1, StoredInvariant, PTL

\* If every full run makes objects, a run that dies of a size file it cannot open
\* leaves no objects behind.
THEOREM UndefinedIsHarmless ==
  ASSUME FullRunsLaunch
  PROVE  Spec => []UndefinedOnlyWithoutObjects
<1>1. SizeInv /\ Stored => UndefinedOnlyWithoutObjects
  BY DEF Stored, UndefinedOnlyWithoutObjects
<1> QED
  BY <1>1, StoredInvariant, PTL

===============================================================================
