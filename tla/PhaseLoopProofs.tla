--------------------------- MODULE PhaseLoopProofs ---------------------------
(***************************************************************************)
(* Proofs about PhaseLoop, for every number of ranks, every schedule and   *)
(* every nproc.                                                            *)
(*                                                                         *)
(* The argument.  As long as popen() has not failed, the latest collective *)
(* a rank has called is determined by where it is in the program: it is    *)
(* collective CallStage(r) of phase Entered(r).  Each collective waits for *)
(* all ranks, so a rank outside a collective is never ahead of another     *)
(* one, and the number of calls of two ranks differs by at most one.       *)
(* Equally many calls then mean the same collective, and one call more     *)
(* means the next collective; with that, where one rank is in the loop     *)
(* says where all the others can be.  A rank behind none of the others can *)
(* then leave its collective, and pfind waits for nobody who is in one:    *)
(* the ranks never all wait (NobodyStuck).                                 *)
(***************************************************************************)
EXTENDS PhaseLoop, TLAPS

Collective == {"bench", "script"}   \* the kinds of run() with one for all ranks
Before     == IF Pause THEN 2 ELSE 1

\* The last collective of phase k; phase 0 is the part before the loop.
LastStage(k) == IF k = 0 THEN 0
                ELSE IF Schedule[k] \in Collective THEN 3 ELSE Before

StageAt(place, k) ==
  CASE place = "top"                                                  -> LastStage(k - 1)
    [] place \in {"loop_barrier", "pausing", "final_barrier", "cleanup"} -> 1
    [] place \in {"pause_barrier", "finalize", "exited"}              -> 2
    [] place \in {"run", "pfind", "script"}                           -> Before
    [] place \in {"bench", "find_barrier"}                            -> 3
    [] OTHER                                                          -> LastStage(k)

CallStage(r) == StageAt(pc[r], i[r])

\* Collective t of phase m is the one called after collective s of phase k.
NextCall(k, s, m, t) ==
  \/ k \in 1..Last /\ s = 1 /\ Pause /\ m = k /\ t = 2
  \/ k \in 1..Last /\ s = Before /\ Schedule[k] \in Collective /\ m = k /\ t = 3
  \/ k \in 0..Last /\ s = LastStage(k) /\ m = k + 1 /\ t = 1
  \/ k = Last + 1 /\ s = 1 /\ m = k /\ t = 2

KindOf(k, s) == IF k = 0 THEN "none"
                ELSE IF k = Last + 1 THEN IF s = 1 THEN "barrier" ELSE "finalize"
                ELSE IF s = 3 /\ Schedule[k] = "bench" THEN "bench" ELSE "barrier"

SameCall(r, q) == Entered(r) = Entered(q) /\ CallStage(r) = CallStage(q)

\* A rank is only at places its phase has.
Places ==
  \A r \in Ranks :
    /\ pc[r] \in {"pausing", "pause_barrier"} => Pause
    /\ pc[r] = "bench" => Task(r) = "bench"
    /\ pc[r] \in {"script", "find_barrier"} => Task(r) = "script"
    /\ pc[r] = "pfind" => Task(r) = "pfind"
    /\ pc[r] = "script" => r = 0

Matching ==
  \A r \in Ranks :
    /\ kind[r] = KindOf(Entered(r), CallStage(r))
    /\ \A q \in Ranks :
         /\ ncoll[q] <= ncoll[r] + 1
         /\ ~ Waiting(r) => ncoll[r] <= ncoll[q]
         /\ ncoll[r] = ncoll[q] => SameCall(r, q)
         /\ ncoll[q] = ncoll[r] + 1 =>
              NextCall(Entered(r), CallStage(r), Entered(q), CallStage(q))

LoopInv == TypeOK /\ (~ popen_failed => Places /\ Matching)

-------------------------------------------------------------------------------
LEMMA SizeType == Size \in Nat /\ Size > 0 /\ 0 \in Ranks /\ Last \in Nat
BY SizeAssumption, ScheduleAssumption DEF Ranks, Last

LEMMA InitTypeOK == Init => TypeOK
<1> SUFFICES ASSUME Init PROVE TypeOK
  OBVIOUS
<1>1. pause_files \subseteq 1..Last
  BY DEF Init
<1>2. /\ pc \in [Ranks -> States]
      /\ i \in [Ranks -> 1..(Last + 1)]
      /\ ncoll \in [Ranks -> Nat]
      /\ kind \in [Ranks -> {"none", "barrier", "bench", "finalize"}]
  BY SizeType DEF Init, States
<1>3. \A r \in Ranks : pc[r] = "top"
  BY DEF Init
<1> QED
  BY <1>1, <1>2, <1>3 DEF Init, TypeOK

LEMMA StepTypeOK == TypeOK /\ [Next]_vars => TypeOK'
<1> SUFFICES ASSUME TypeOK, [Next]_vars PROVE TypeOK'
  OBVIOUS
<1> USE SizeType DEF TypeOK, States
<1>1. ASSUME NEW r \in Ranks, Step(r) PROVE TypeOK'
  <2> USE DEF Goto, Enter, environment
  <2>1. CASE EnterLoopBarrier(r)
    BY <2>1 DEF EnterLoopBarrier
  <2>2. CASE LeaveLoopBarrier(r)
    BY <2>2 DEF LeaveLoopBarrier
  <2>3. CASE EnterPauseBarrier(r)
    BY <2>3 DEF EnterPauseBarrier
  <2>4. CASE LeavePauseBarrier(r)
    BY <2>4 DEF LeavePauseBarrier
  <2>5. CASE RunAlone(r)
    BY <2>5 DEF RunAlone
  <2>6. CASE RunBench(r)
    BY <2>6 DEF RunBench
  <2>7. CASE RunPfind(r)
    BY <2>7 DEF RunPfind
  <2>8. CASE EnterFindBarrier(r)
    BY <2>8 DEF EnterFindBarrier
  <2>9. CASE EndRun(r)
    BY <2>9 DEF EndRun
  <2>10. CASE NextPhase(r)
    BY <2>10 DEF NextPhase
  <2>11. CASE EnterFinalBarrier(r)
    BY <2>11 DEF EnterFinalBarrier
  <2>12. CASE LeaveFinalBarrier(r)
    BY <2>12 DEF LeaveFinalBarrier
  <2>13. CASE EnterFinalize(r)
    BY <2>13 DEF EnterFinalize
  <2>14. CASE Exit(r)
    BY <2>14 DEF Exit
  <2> QED
    BY <1>1, <2>1, <2>2, <2>3, <2>4, <2>5, <2>6, <2>7, <2>8, <2>9, <2>10, <2>11,
       <2>12, <2>13, <2>14 DEF Step
<1>2. ASSUME NEW r \in Ranks, Kill(r) PROVE TypeOK'
  BY <1>2 DEF Kill
<1>3. CASE StartScript
  BY <1>3 DEF StartScript, Goto, environment
<1>4. CASE PopenFails
  BY <1>4 DEF PopenFails, Goto, environment
<1>5. CASE Fatal
  BY <1>5 DEF Fatal
<1>6. ASSUME NEW k \in pause_files, RemovePauseFile(k) PROVE TypeOK'
  BY <1>6 DEF RemovePauseFile
<1>7. CASE UNCHANGED vars
  BY <1>7 DEF vars
<1> QED
  BY <1>1, <1>2, <1>3, <1>4, <1>5, <1>6, <1>7 DEF Next

\* Type correctness of the phase loop, the place of a rank included.
THEOREM TypeCorrect == Spec => []TypeOK
BY InitTypeOK, StepTypeOK, PTL DEF Spec

-------------------------------------------------------------------------------
\* Where a rank is says in which phase and at which collective.
LEMMA CallType ==
  ASSUME TypeOK, NEW r \in Ranks
  PROVE  Entered(r) \in 0..(Last + 1) /\ CallStage(r) \in 0..3
BY SizeType DEF TypeOK, Entered, CallStage, StageAt, LastStage, Before

\* The sequence of collectives is the same for every rank.
LEMMA NextCallUnique ==
  ASSUME NEW k \in Nat, NEW s \in Nat, NEW m, NEW t, NEW m2, NEW t2,
         NextCall(k, s, m, t), NextCall(k, s, m2, t2)
  PROVE  m = m2 /\ t = t2
BY SizeType DEF NextCall, LastStage, Before

\* A step of rank r that calls no collective and keeps the latest one.
LEMMA QuietStep ==
  ASSUME TypeOK, Matching, NEW r \in Ranks,
         ncoll' = ncoll, kind' = kind,
         \A q \in Ranks \ {r} : pc'[q] = pc[q] /\ i'[q] = i[q],
         Entered(r)' = Entered(r), CallStage(r)' = CallStage(r),
         ~ Waiting(r)' => ~ Waiting(r) \/ CanLeave(r)
  PROVE  Matching'
<1>1. \A q \in Ranks : Entered(q)' = Entered(q) /\ CallStage(q)' = CallStage(q)
  BY DEF Entered, CallStage
<1>2. ASSUME NEW p \in Ranks, NEW q \in Ranks, ~ Waiting(p)' PROVE ncoll[p] <= ncoll[q]
  <2>1. CASE p # r
    BY <1>2, <2>1 DEF Matching, Waiting
  <2>2. CASE p = r
    BY <1>2, <2>2 DEF Matching, CanLeave, TypeOK
  <2> QED
    BY <2>1, <2>2
<1> QED
  BY <1>1, <1>2 DEF Matching, SameCall

\* A step of rank r that calls its next collective.
LEMMA CallStep ==
  ASSUME TypeOK, TypeOK', Matching, NEW r \in Ranks, ~ Waiting(r), Waiting(r)',
         \A q \in Ranks \ {r} : pc'[q] = pc[q] /\ i'[q] = i[q],
         ncoll' = [ncoll EXCEPT ![r] = @ + 1],
         kind' = [kind EXCEPT ![r] = KindOf(Entered(r), CallStage(r))'],
         NextCall(Entered(r), CallStage(r), Entered(r)', CallStage(r)')
  PROVE  Matching'
<1>1. ASSUME NEW q \in Ranks \ {r}
      PROVE  /\ Entered(q)' = Entered(q) /\ CallStage(q)' = CallStage(q)
             /\ Waiting(q)' <=> Waiting(q)
             /\ ncoll'[q] = ncoll[q] /\ kind'[q] = kind[q]
             /\ ncoll[q] \in {ncoll[r], ncoll[r] + 1}
  <2>1. ncoll[q] \in Nat /\ ncoll[r] \in Nat
    BY DEF TypeOK
  <2>2. ncoll[r] <= ncoll[q] /\ ncoll[q] <= ncoll[r] + 1
    BY DEF Matching
  <2> QED
    BY <2>1, <2>2 DEF Entered, CallStage, Waiting, TypeOK
<1>2. ncoll'[r] = ncoll[r] + 1 /\ kind'[r] = KindOf(Entered(r), CallStage(r))'
  BY DEF TypeOK
<1>3. ASSUME NEW q \in Ranks \ {r}, ncoll[q] = ncoll[r]
      PROVE  NextCall(Entered(q), CallStage(q), Entered(r)', CallStage(r)')
  BY <1>3 DEF Matching, SameCall
<1>4. ASSUME NEW q \in Ranks \ {r}, ncoll[q] = ncoll[r] + 1
      PROVE  Entered(q) = Entered(r)' /\ CallStage(q) = CallStage(r)'
  <2>1. NextCall(Entered(r), CallStage(r), Entered(q), CallStage(q))
    BY <1>4 DEF Matching
  <2> QED
    BY <2>1, CallType, NextCallUnique
<1>5. ASSUME NEW p \in Ranks, NEW q \in Ranks
      PROVE  /\ ncoll'[q] <= ncoll'[p] + 1
             /\ ~ Waiting(p)' => ncoll'[p] <= ncoll'[q]
             /\ ncoll'[p] = ncoll'[q] => SameCall(p, q)'
             /\ ncoll'[q] = ncoll'[p] + 1 =>
                  NextCall(Entered(p), CallStage(p), Entered(q), CallStage(q))'
  <2>0. \A x \in Ranks : ncoll[x] \in Nat
    BY DEF TypeOK
  <2>1. CASE p # r /\ q # r
    BY <1>1, <2>0, <2>1 DEF Matching, SameCall, NextCall
  <2>2. CASE p = r /\ q = r
    BY <1>2, <2>0, <2>2 DEF SameCall
  <2>3. CASE p = r /\ q # r
    BY <1>1, <1>2, <1>4, <2>0, <2>3 DEF SameCall
  <2>4. CASE p # r /\ q = r
    <3>1. Waiting(p) \/ ncoll[p] = ncoll[r]
      BY <1>1, <2>0, <2>4 DEF Matching
    <3> QED
      BY <1>1, <1>2, <1>3, <1>4, <2>0, <2>4, <3>1 DEF SameCall, NextCall
  <2> QED
    BY <2>1, <2>2, <2>3, <2>4
<1>6. ASSUME NEW p \in Ranks PROVE kind'[p] = KindOf(Entered(p), CallStage(p))'
  BY <1>1, <1>2 DEF Matching, KindOf
<1> QED
  BY <1>5, <1>6 DEF Matching

-------------------------------------------------------------------------------
LEMMA InitLoopInv == Init => LoopInv
<1> SUFFICES ASSUME Init PROVE LoopInv
  OBVIOUS
<1>1. \A r \in Ranks : /\ pc[r] = "top" /\ ncoll[r] = 0 /\ kind[r] = "none"
                       /\ Entered(r) = 0 /\ CallStage(r) = 0
  BY DEF Init, Entered, CallStage, StageAt, LastStage
<1>2. Places
  BY <1>1 DEF Places
<1>3. Matching
  BY <1>1 DEF Matching, KindOf, SameCall
<1> QED
  BY <1>2, <1>3, InitTypeOK DEF LoopInv

\* A step of the program on one rank.
LEMMA StepLoopInv ==
  ASSUME LoopInv, TypeOK', ~ popen_failed, NEW r \in Ranks, Step(r)
  PROVE  Places' /\ Matching'
<1>1. TypeOK /\ Places /\ Matching
  BY DEF LoopInv
<1>2. \A q \in Ranks \ {r} : pc'[q] = pc[q] /\ i'[q] = i[q]
  BY <1>1 DEF TypeOK, Step, Goto, EnterLoopBarrier, LeaveLoopBarrier, EnterPauseBarrier,
     LeavePauseBarrier, RunAlone, RunBench, RunPfind, EnterFindBarrier, EndRun, NextPhase,
     EnterFinalBarrier, LeaveFinalBarrier, EnterFinalize, Exit
<1> USE SizeType DEF Goto, Enter
<1>3. CASE EnterLoopBarrier(r)
  <2>1. /\ pc[r] = "top" /\ pc'[r] = "loop_barrier" /\ i' = i /\ i[r] \in 1..Last
    BY <1>1, <1>3 DEF EnterLoopBarrier, TypeOK
  <2>2. Places'
    BY <1>1, <1>2, <2>1 DEF Places, Task
  <2>3. /\ Entered(r) = i[r] - 1 /\ CallStage(r) = LastStage(i[r] - 1)
        /\ Entered(r)' = i[r] /\ CallStage(r)' = 1
    BY <2>1 DEF Entered, CallStage, StageAt
  <2>4. NextCall(Entered(r), CallStage(r), Entered(r)', CallStage(r)')
    BY <2>1, <2>3 DEF NextCall
  <2>5. KindOf(Entered(r), CallStage(r))' = "barrier"
    BY <2>1, <2>3 DEF KindOf
  <2> QED
    BY <1>1, <1>2, <1>3, <2>1, <2>2, <2>4, <2>5, CallStep DEF EnterLoopBarrier, Waiting
<1>4. CASE LeaveLoopBarrier(r)
  <2>1. /\ pc[r] = "loop_barrier" /\ pc'[r] = IF Pause THEN "pausing" ELSE "run"
        /\ i' = i /\ CanLeave(r)
    BY <1>1, <1>4 DEF LeaveLoopBarrier, TypeOK
  <2>2. Places'
    BY <1>1, <1>2, <2>1 DEF Places, Task
  <2>3. Entered(r)' = Entered(r) /\ CallStage(r)' = CallStage(r)
    BY <2>1, SwitchAssumption DEF Entered, CallStage, StageAt, Before
  <2> QED
    BY <1>1, <1>2, <1>4, <2>1, <2>2, <2>3, QuietStep DEF LeaveLoopBarrier
<1>5. CASE EnterPauseBarrier(r)
  <2>1. /\ pc[r] = "pausing" /\ pc'[r] = "pause_barrier" /\ i' = i /\ i[r] \in 1..Last
        /\ Pause
    BY <1>1, <1>5 DEF EnterPauseBarrier, TypeOK, Places
  <2>2. Places'
    BY <1>1, <1>2, <2>1 DEF Places, Task
  <2>3. /\ Entered(r) = i[r] /\ CallStage(r) = 1
        /\ Entered(r)' = i[r] /\ CallStage(r)' = 2
    BY <2>1 DEF Entered, CallStage, StageAt
  <2>4. NextCall(Entered(r), CallStage(r), Entered(r)', CallStage(r)')
    BY <2>1, <2>3 DEF NextCall
  <2>5. KindOf(Entered(r), CallStage(r))' = "barrier"
    BY <2>1, <2>3 DEF KindOf
  <2> QED
    BY <1>1, <1>2, <1>5, <2>1, <2>2, <2>4, <2>5, CallStep DEF EnterPauseBarrier, Waiting
<1>6. CASE LeavePauseBarrier(r)
  <2>1. /\ pc[r] = "pause_barrier" /\ pc'[r] = "run" /\ i' = i /\ CanLeave(r) /\ Pause
    BY <1>1, <1>6 DEF LeavePauseBarrier, TypeOK, Places
  <2>2. Places'
    BY <1>1, <1>2, <2>1 DEF Places, Task
  <2>3. Entered(r)' = Entered(r) /\ CallStage(r)' = CallStage(r)
    BY <2>1 DEF Entered, CallStage, StageAt, Before
  <2> QED
    BY <1>1, <1>2, <1>6, <2>1, <2>2, <2>3, QuietStep DEF LeavePauseBarrier
<1>7. CASE RunAlone(r)
  <2>1. /\ pc[r] = "run" /\ pc'[r] = "after" /\ i' = i /\ i[r] \in 1..Last
        /\ Schedule[i[r]] \notin Collective
    BY <1>1, <1>7 DEF RunAlone, TypeOK, Task, Collective
  <2>2. Places'
    BY <1>1, <1>2, <2>1 DEF Places, Task
  <2>3. Entered(r)' = Entered(r) /\ CallStage(r)' = CallStage(r)
    BY <2>1 DEF Entered, CallStage, StageAt, LastStage
  <2> QED
    BY <1>1, <1>2, <1>7, <2>1, <2>2, <2>3, QuietStep DEF RunAlone, Waiting
<1>8. CASE RunBench(r)
  <2>1. /\ pc[r] = "run" /\ pc'[r] = "bench" /\ i' = i /\ i[r] \in 1..Last
        /\ Task(r) = "bench"
    BY <1>1, <1>8 DEF RunBench, TypeOK
  <2>2. Places'
    BY <1>1, <1>2, <2>1 DEF Places, Task
  <2>3. /\ Entered(r) = i[r] /\ CallStage(r) = Before
        /\ Entered(r)' = i[r] /\ CallStage(r)' = 3
    BY <2>1 DEF Entered, CallStage, StageAt
  <2>4. NextCall(Entered(r), CallStage(r), Entered(r)', CallStage(r)')
    BY <2>1, <2>3 DEF NextCall, Task, Collective
  <2>5. KindOf(Entered(r), CallStage(r))' = "bench"
    BY <2>1, <2>3 DEF KindOf, Task
  <2> QED
    BY <1>1, <1>2, <1>8, <2>1, <2>2, <2>4, <2>5, CallStep DEF RunBench, Waiting
<1>9. CASE RunPfind(r)
  <2>1. /\ pc[r] = "run" /\ pc'[r] = "pfind" /\ i' = i /\ Task(r) = "pfind"
    BY <1>1, <1>9 DEF RunPfind, TypeOK
  <2>2. Places'
    BY <1>1, <1>2, <2>1 DEF Places, Task
  <2>3. Entered(r)' = Entered(r) /\ CallStage(r)' = CallStage(r)
    BY <2>1 DEF Entered, CallStage, StageAt
  <2> QED
    BY <1>1, <1>2, <1>9, <2>1, <2>2, <2>3, QuietStep DEF RunPfind, Waiting
<1>10. CASE EnterFindBarrier(r)
  <2>1. /\ pc[r] \in {"run", "script"} /\ pc'[r] = "find_barrier" /\ i' = i
        /\ i[r] \in 1..Last /\ Task(r) = "script"
    BY <1>1, <1>10 DEF EnterFindBarrier, TypeOK, Places
  <2>2. Places'
    BY <1>1, <1>2, <2>1 DEF Places, Task
  <2>3. /\ Entered(r) = i[r] /\ CallStage(r) = Before
        /\ Entered(r)' = i[r] /\ CallStage(r)' = 3
    BY <2>1 DEF Entered, CallStage, StageAt
  <2>4. NextCall(Entered(r), CallStage(r), Entered(r)', CallStage(r)')
    BY <2>1, <2>3 DEF NextCall, Task, Collective
  <2>5. KindOf(Entered(r), CallStage(r))' = "barrier"
    BY <2>1, <2>3 DEF KindOf, Task
  <2> QED
    BY <1>1, <1>2, <1>10, <2>1, <2>2, <2>4, <2>5, CallStep DEF EnterFindBarrier, Waiting
<1>11. CASE EndRun(r)
  <2>1. /\ pc[r] \in {"bench", "find_barrier", "pfind"} /\ pc'[r] = "after" /\ i' = i
        /\ i[r] \in 1..Last
        /\ pc[r] \in {"bench", "find_barrier"} => CanLeave(r)
    BY <1>1, <1>11 DEF EndRun, TypeOK
  <2>2. Places'
    BY <1>1, <1>2, <2>1 DEF Places, Task
  <2>3. Entered(r)' = Entered(r) /\ CallStage(r)' = CallStage(r)
    <3>1. CASE pc[r] = "pfind"
      BY <1>1, <2>1, <3>1 DEF Entered, CallStage, StageAt, LastStage, Places, Task, Collective
    <3>2. CASE pc[r] \in {"bench", "find_barrier"}
      BY <1>1, <2>1, <3>2 DEF Entered, CallStage, StageAt, LastStage, Places, Task, Collective
    <3> QED
      BY <2>1, <3>1, <3>2
  <2> QED
    BY <1>1, <1>2, <1>11, <2>1, <2>2, <2>3, QuietStep DEF EndRun, Waiting
<1>12. CASE NextPhase(r)
  <2>1. /\ pc[r] = "after" /\ pc'[r] = "top" /\ i[r] \in 1..Last /\ i'[r] = i[r] + 1
    BY <1>1, <1>12 DEF NextPhase, TypeOK
  <2>2. Places'
    BY <1>1, <1>2, <2>1 DEF Places, Task
  <2>3. Entered(r)' = Entered(r) /\ CallStage(r)' = CallStage(r)
    BY <2>1 DEF Entered, CallStage, StageAt
  <2> QED
    BY <1>1, <1>2, <1>12, <2>1, <2>2, <2>3, QuietStep DEF NextPhase, Waiting
<1>13. CASE EnterFinalBarrier(r)
  <2>1. /\ pc[r] = "top" /\ pc'[r] = "final_barrier" /\ i' = i /\ i[r] = Last + 1
    BY <1>1, <1>13 DEF EnterFinalBarrier, TypeOK
  <2>2. Places'
    BY <1>1, <1>2, <2>1 DEF Places, Task
  <2>3. /\ Entered(r) = i[r] - 1 /\ CallStage(r) = LastStage(i[r] - 1)
        /\ Entered(r)' = i[r] /\ CallStage(r)' = 1
    BY <2>1 DEF Entered, CallStage, StageAt
  <2>4. NextCall(Entered(r), CallStage(r), Entered(r)', CallStage(r)')
    BY <2>1, <2>3 DEF NextCall
  <2>5. KindOf(Entered(r), CallStage(r))' = "barrier"
    BY <2>1, <2>3 DEF KindOf
  <2> QED
    BY <1>1, <1>2, <1>13, <2>1, <2>2, <2>4, <2>5, CallStep DEF EnterFinalBarrier, Waiting
<1>14. CASE LeaveFinalBarrier(r)
  <2>1. /\ pc[r] = "final_barrier" /\ pc'[r] = "cleanup" /\ i' = i /\ CanLeave(r)
    BY <1>1, <1>14 DEF LeaveFinalBarrier, TypeOK
  <2>2. Places'
    BY <1>1, <1>2, <2>1 DEF Places, Task
  <2>3. Entered(r)' = Entered(r) /\ CallStage(r)' = CallStage(r)
    BY <2>1 DEF Entered, CallStage, StageAt
  <2> QED
    BY <1>1, <1>2, <1>14, <2>1, <2>2, <2>3, QuietStep DEF LeaveFinalBarrier
<1>15. CASE EnterFinalize(r)
  <2>1. /\ pc[r] = "cleanup" /\ pc'[r] = "finalize" /\ i' = i /\ i[r] = Last + 1
    BY <1>1, <1>15 DEF EnterFinalize, TypeOK
  <2>2. Places'
    BY <1>1, <1>2, <2>1 DEF Places, Task
  <2>3. /\ Entered(r) = i[r] /\ CallStage(r) = 1
        /\ Entered(r)' = i[r] /\ CallStage(r)' = 2
    BY <2>1 DEF Entered, CallStage, StageAt
  <2>4. NextCall(Entered(r), CallStage(r), Entered(r)', CallStage(r)')
    BY <2>1, <2>3 DEF NextCall
  <2>5. KindOf(Entered(r), CallStage(r))' = "finalize"
    BY <2>1, <2>3 DEF KindOf
  <2> QED
    BY <1>1, <1>2, <1>15, <2>1, <2>2, <2>4, <2>5, CallStep DEF EnterFinalize, Waiting
<1>16. CASE Exit(r)
  <2>1. /\ pc[r] = "finalize" /\ pc'[r] = "exited" /\ i' = i /\ CanLeave(r)
    BY <1>1, <1>16 DEF Exit, TypeOK
  <2>2. Places'
    BY <1>1, <1>2, <2>1 DEF Places, Task
  <2>3. Entered(r)' = Entered(r) /\ CallStage(r)' = CallStage(r)
    BY <2>1 DEF Entered, CallStage, StageAt
  <2> QED
    BY <1>1, <1>2, <1>16, <2>1, <2>2, <2>3, QuietStep DEF Exit
<1> QED
  BY <1>3, <1>4, <1>5, <1>6, <1>7, <1>8, <1>9, <1>10, <1>11, <1>12, <1>13, <1>14, <1>15,
     <1>16 DEF Step

\* A step that leaves the program counters and the collectives alone.
LEMMA StillLoopInv ==
  ASSUME LoopInv, TypeOK', ~ popen_failed, UNCHANGED <<pc, i, ncoll, kind>>
  PROVE  Places' /\ Matching'
BY DEF LoopInv, Places, Matching, Task, SameCall, Entered, CallStage, Waiting

LEMMA NextLoopInv == LoopInv /\ [Next]_vars => LoopInv'
<1> SUFFICES ASSUME LoopInv, [Next]_vars PROVE LoopInv'
  OBVIOUS
<1>1. TypeOK'
  BY StepTypeOK DEF LoopInv
<1>2. ASSUME ~ popen_failed' PROVE Places' /\ Matching'
  <2>1. ~ popen_failed
    BY <1>2 DEF Next, vars, Step, EnterLoopBarrier, LeaveLoopBarrier, EnterPauseBarrier,
       LeavePauseBarrier, RunAlone, RunBench, RunPfind, EnterFindBarrier, EndRun,
       NextPhase, EnterFinalBarrier, LeaveFinalBarrier, EnterFinalize, Exit,
       StartScript, PopenFails, Fatal, Kill, RemovePauseFile
  <2>2. CASE \E r \in Ranks : Step(r)
    BY <1>1, <2>1, <2>2, StepLoopInv
  <2>3. CASE StartScript
    <3> USE SizeType
    <3>1. TypeOK /\ Places /\ Matching
      BY <2>1 DEF LoopInv
    <3>2. /\ pc[0] = "run" /\ pc'[0] = "script" /\ i' = i /\ Task(0) = "script"
          /\ \A q \in Ranks \ {0} : pc'[q] = pc[q] /\ i'[q] = i[q]
      BY <2>3, <3>1 DEF StartScript, Goto, TypeOK
    <3>3. Places'
      BY <3>1, <3>2 DEF Places, Task
    <3>4. Entered(0)' = Entered(0) /\ CallStage(0)' = CallStage(0)
      BY <3>2 DEF Entered, CallStage, StageAt
    <3> QED
      BY <2>3, <3>1, <3>2, <3>3, <3>4, QuietStep DEF StartScript, Waiting
  <2>4. CASE PopenFails
    BY <1>2, <2>4 DEF PopenFails
  <2>5. CASE \/ \E r \in Ranks : Kill(r)
             \/ Fatal
             \/ \E k \in pause_files : RemovePauseFile(k)
             \/ UNCHANGED vars
    BY <1>1, <2>1, <2>5, StillLoopInv DEF Kill, Fatal, RemovePauseFile, vars
  <2> QED
    BY <2>2, <2>3, <2>4, <2>5 DEF Next
<1> QED
  BY <1>1, <1>2 DEF LoopInv

LEMMA Invariance == Spec => []LoopInv
BY InitLoopInv, NextLoopInv, PTL DEF Spec

-------------------------------------------------------------------------------
\* Of every run, unless popen() fails: ranks that have called equally many
\* collectives have called the same one.
THEOREM MatchedCollectives == Spec => []CollectivesMatch
<1>1. LoopInv => CollectivesMatch
  BY DEF LoopInv, Matching, SameCall, CollectivesMatch
<1> QED
  BY Invariance, <1>1, PTL

\* Of every run, unless popen() fails: no two ranks are ever inside run() of
\* different phases.
THEOREM Isolation == Spec => []PhaseIsolation
<1>1. LoopInv => PhaseIsolation
  <2> SUFFICES ASSUME LoopInv, ~ popen_failed, NEW r \in Ranks, NEW q \in Ranks, InRun(r)
               PROVE  Entered(q) >= i[r] /\ (InRun(q) => i[q] = i[r])
    BY DEF PhaseIsolation
  <2>1. TypeOK /\ Places /\ Matching /\ ncoll[r] \in Nat /\ ncoll[q] \in Nat
    BY DEF LoopInv, TypeOK
  <2>2. /\ i[r] \in 1..Last /\ Entered(r) = i[r]
        /\ CallStage(r) \in {Before, 3}
        /\ CallStage(r) = 3 <=> Waiting(r)
    BY <2>1, SizeType DEF InRun, Running, TypeOK, Entered, CallStage, StageAt, Before, Waiting
  <2>3. CASE ncoll[q] = ncoll[r]
    <3>1. Entered(q) = i[r]
      BY <2>1, <2>2, <2>3 DEF Matching, SameCall
    <3> QED
      BY <2>1, <2>2, <3>1 DEF InRun, Running, Entered, TypeOK
  <2>4. CASE ncoll[q] = ncoll[r] + 1
    <3>1. NextCall(i[r], CallStage(r), Entered(q), CallStage(q)) /\ Waiting(q)
      BY <2>1, <2>2, <2>4 DEF Matching
    <3>2. Entered(q) = i[r] \/ (Entered(q) = i[r] + 1 /\ CallStage(q) = 1)
      BY <2>2, <3>1 DEF NextCall
    <3>3. InRun(q) => CallStage(q) = 3 /\ Entered(q) = i[q]
      BY <3>1 DEF InRun, Running, Waiting, CallStage, StageAt, Entered
    <3> QED
      BY <2>1, <2>2, <3>2, <3>3 DEF TypeOK
  <2>5. CASE ncoll[r] = ncoll[q] + 1
    <3>1. NextCall(Entered(q), CallStage(q), i[r], CallStage(r)) /\ Waiting(r)
      BY <2>1, <2>2, <2>5 DEF Matching
    <3>2. Entered(q) = i[r]
      BY <2>2, <3>1, CallType, <2>1 DEF NextCall
    <3> QED
      BY <2>1, <2>2, <3>2 DEF InRun, Running, Entered, TypeOK
  <2> QED
    BY <2>1, <2>3, <2>4, <2>5 DEF Matching
<1> QED
  BY Invariance, <1>1, PTL

-------------------------------------------------------------------------------
\* A step of rank r, or of the script, changes no other rank's pc and phase.
LEMMA RootStays ==
  ASSUME TypeOK, NEW r \in Ranks, Step(r), r # 0
  PROVE  pc'[0] = pc[0] /\ i'[0] = i[0] /\ reported' = reported
                        /\ pause_files' = pause_files
BY SizeType DEF TypeOK, Step, Goto, environment, EnterLoopBarrier, LeaveLoopBarrier,
   EnterPauseBarrier, LeavePauseBarrier, RunAlone, RunBench, RunPfind, EnterFindBarrier,
   EndRun, NextPhase, EnterFinalBarrier, LeaveFinalBarrier, EnterFinalize, Exit

\* Rank 0 has reported only if it is past the final barrier.
ReportInv == reported => pc[0] \in {"cleanup", "finalize", "exited"}

LEMMA ReportStep == TypeOK /\ ReportInv /\ [Next]_vars => ReportInv'
<1> SUFFICES ASSUME TypeOK, ReportInv, [Next]_vars PROVE ReportInv'
  OBVIOUS
<1>1. ASSUME NEW r \in Ranks, Step(r), r # 0 PROVE ReportInv'
  BY <1>1, RootStays DEF ReportInv
<1>2. CASE Step(0)
  BY <1>2, SizeType DEF ReportInv, TypeOK, Step, Goto, environment, EnterLoopBarrier,
     LeaveLoopBarrier, EnterPauseBarrier, LeavePauseBarrier, RunAlone, RunBench, RunPfind,
     EnterFindBarrier, EndRun, NextPhase, EnterFinalBarrier, LeaveFinalBarrier,
     EnterFinalize, Exit
<1>3. CASE StartScript \/ PopenFails
  BY <1>3, SizeType DEF ReportInv, TypeOK, Goto, environment, StartScript, PopenFails
<1>4. CASE \/ \E r \in Ranks : Kill(r)
           \/ Fatal
           \/ \E k \in pause_files : RemovePauseFile(k)
           \/ UNCHANGED vars
  BY <1>4 DEF ReportInv, Kill, Fatal, RemovePauseFile, vars
<1> QED
  BY <1>1, <1>2, <1>3, <1>4 DEF Next

\* Of every run, unless popen() fails: when rank 0 reports, every rank has ended
\* its last phase.
THEOREM ReportLast == Spec => []ReportComesLast
<1>1. Init => ReportInv
  BY DEF Init, ReportInv
<1>2. LoopInv /\ ReportInv => ReportComesLast
  <2> SUFFICES ASSUME LoopInv, ReportInv, reported, ~ popen_failed, NEW q \in Ranks
               PROVE  i[q] = Last + 1
    BY DEF ReportComesLast
  <2>1. /\ TypeOK /\ Matching /\ ncoll[0] \in Nat /\ ncoll[q] \in Nat
        /\ pc[0] \in {"cleanup", "finalize", "exited"} /\ i[0] = Last + 1
    BY SizeType DEF LoopInv, TypeOK, ReportInv
  <2>2. Entered(0) = Last + 1 /\ CallStage(0) \in {1, 2}
    BY <2>1 DEF Entered, CallStage, StageAt
  <2>3. CallStage(0) = 1 <=> pc[0] = "cleanup"
    BY <2>1 DEF CallStage, StageAt
  <2>4. Entered(q) = Last + 1
    <3>1. CASE ncoll[q] = ncoll[0]
      BY <2>1, <2>2, <3>1, SizeType DEF Matching, SameCall
    <3>2. CASE ncoll[q] = ncoll[0] + 1
      <4>1. NextCall(Last + 1, CallStage(0), Entered(q), CallStage(q))
        BY <2>1, <2>2, <3>2, SizeType DEF Matching
      <4> QED
        BY <2>2, <4>1, SizeType DEF NextCall
    <3>3. CASE ncoll[0] = ncoll[q] + 1
      <4>1. NextCall(Entered(q), CallStage(q), Last + 1, CallStage(0)) /\ Waiting(0)
        BY <2>1, <2>2, <3>3, SizeType DEF Matching
      <4>2. CallStage(0) = 2
        BY <2>1, <2>2, <2>3, <4>1 DEF Waiting
      <4> QED
        BY <2>1, <4>1, <4>2, CallType, SizeType DEF NextCall
    <3> QED
      BY <2>1, <3>1, <3>2, <3>3, SizeType DEF Matching
  <2> QED
    BY <2>1, <2>4, SizeType DEF Entered, TypeOK
<1>3. Spec => []ReportInv
  <2>1. Spec => []TypeOK
    BY TypeCorrect
  <2> QED
    BY <1>1, ReportStep, <2>1, PTL DEF Spec
<1> QED
  BY Invariance, <1>2, <1>3, PTL

-------------------------------------------------------------------------------
\* A rank that is where only rank 0 creates the file is at most one collective
\* behind, so that nobody is past the barrier of the next phase.
LEMMA TimestampStep ==
  ASSUME LoopInv, ~ popen_failed, pc[0] = "run", Task(0) = "timestamp", NEW q \in Ranks
  PROVE  Ended(q) >= i[0] - 1 /\ Began(q) <= i[0]
<1>1. /\ TypeOK /\ Matching /\ ncoll[0] \in Nat /\ ncoll[q] \in Nat
      /\ i[0] \in 1..Last /\ i[q] \in 1..(Last + 1)
  BY SizeType DEF LoopInv, TypeOK
<1>2. /\ Entered(0) = i[0] /\ CallStage(0) = Before /\ ~ Waiting(0)
      /\ Schedule[i[0]] \notin Collective
  BY DEF Entered, CallStage, StageAt, Waiting, Task, Collective
<1>3. CASE ncoll[q] = ncoll[0]
  <2>1. Entered(q) = i[0]
    BY <1>1, <1>2, <1>3, SizeType DEF Matching, SameCall
  <2> QED
    BY <1>1, <2>1 DEF Entered, Ended, Began, Running
<1>4. CASE ncoll[q] = ncoll[0] + 1
  <2>1. NextCall(i[0], Before, Entered(q), CallStage(q)) /\ Waiting(q)
    BY <1>1, <1>2, <1>4, SizeType DEF Matching
  <2>2. Entered(q) = i[0] + 1 /\ CallStage(q) = 1
    BY <1>1, <1>2, <2>1, SizeType DEF NextCall, Before
  <2>3. pc[q] \in {"loop_barrier", "final_barrier"} /\ i[q] = i[0] + 1
    BY <2>1, <2>2 DEF Waiting, CallStage, StageAt, Entered
  <2> QED
    BY <1>1, <2>3 DEF Ended, Began, Running
<1> QED
  BY <1>1, <1>2, <1>3, <1>4, SizeType DEF Matching

\* Of every run, unless popen() fails: the timestampfile is created between the
\* phases in front of it and those behind it, on every rank.
THEOREM TimestampSeparates == Spec => TimestampSeparatesPhases
<1>1. LoopInv /\ [Next]_vars =>
        (stamped' # stamped /\ ~ popen_failed =>
           \A q \in Ranks : Ended(q) >= i[0] - 1 /\ Began(q) <= i[0])
  <2> SUFFICES ASSUME LoopInv, [Next]_vars, stamped' # stamped, ~ popen_failed
               PROVE  \A q \in Ranks : Ended(q) >= i[0] - 1 /\ Began(q) <= i[0]
    OBVIOUS
  <2>1. PICK r \in Ranks : RunAlone(r)
    BY DEF Next, vars, Step, environment, EnterLoopBarrier, LeaveLoopBarrier,
       EnterPauseBarrier, LeavePauseBarrier, RunBench, RunPfind, EnterFindBarrier, EndRun,
       NextPhase, EnterFinalBarrier, LeaveFinalBarrier, EnterFinalize, Exit, StartScript,
       PopenFails, Fatal, Kill, RemovePauseFile
  <2>2. r = 0 /\ pc[0] = "run" /\ Task(0) = "timestamp"
    BY <2>1 DEF RunAlone, LoopInv, TypeOK
  <2> QED
    BY <2>2, TimestampStep
<1> QED
  BY Invariance, <1>1, PTL DEF Spec, TimestampSeparatesPhases

-------------------------------------------------------------------------------
\* A pause file that lies there belongs to a phase that rank 0 has not let pass.
PauseInv ==
  /\ ~ Pause => pause_files = {}
  /\ \A k \in pause_files :
       k > i[0] \/ (k = i[0] /\ pc[0] \in {"top", "loop_barrier", "pausing"})

LEMMA PauseStep == LoopInv /\ PauseInv /\ ~ popen_failed /\ [Next]_vars => PauseInv'
<1> SUFFICES ASSUME LoopInv, PauseInv, ~ popen_failed, [Next]_vars PROVE PauseInv'
  OBVIOUS
<1>0. TypeOK /\ Places /\ i[0] \in Nat
  BY SizeType DEF LoopInv, TypeOK
<1>1. ASSUME NEW r \in Ranks, Step(r), r # 0 PROVE PauseInv'
  BY <1>0, <1>1, RootStays DEF PauseInv
<1>2. CASE Step(0)
  <2> USE SizeType, <1>0 DEF PauseInv, TypeOK, Goto, environment
  <2>1. CASE EnterLoopBarrier(0)
    BY <2>1 DEF EnterLoopBarrier
  <2>2. CASE LeaveLoopBarrier(0)
    BY <2>2 DEF LeaveLoopBarrier
  <2>3. CASE EnterPauseBarrier(0)
    BY <2>3 DEF EnterPauseBarrier, PauseOver
  <2>4. CASE LeavePauseBarrier(0)
    BY <2>4 DEF LeavePauseBarrier
  <2>5. CASE RunAlone(0) \/ RunBench(0) \/ RunPfind(0)
    BY <2>5 DEF RunAlone, RunBench, RunPfind
  <2>6. CASE EnterFindBarrier(0)
    BY <2>6 DEF EnterFindBarrier
  <2>7. CASE EndRun(0)
    BY <2>7 DEF EndRun
  <2>8. CASE NextPhase(0)
    <3>1. /\ pc[0] = "after" /\ i'[0] = i[0] + 1 /\ pc'[0] = "top"
          /\ pause_files' = pause_files /\ \A k \in pause_files : k \in Nat
      BY <2>8 DEF NextPhase
    <3> QED
      BY <3>1
  <2>9. CASE EnterFinalBarrier(0) \/ LeaveFinalBarrier(0)
    <3>1. i[0] = Last + 1 /\ i' = i /\ pause_files' = pause_files
      BY <2>9 DEF EnterFinalBarrier, LeaveFinalBarrier
    <3>2. \A k \in pause_files : k \in 1..Last
      OBVIOUS
    <3>3. pause_files = {}
      BY <3>1, <3>2
    <3> QED
      BY <3>1, <3>3
  <2>10. CASE EnterFinalize(0) \/ Exit(0)
    BY <2>10 DEF EnterFinalize, Exit
  <2> QED
    BY <1>2, <2>1, <2>2, <2>3, <2>4, <2>5, <2>6, <2>7, <2>8, <2>9, <2>10 DEF Step
<1>3. CASE StartScript \/ PopenFails
  BY <1>0, <1>3, SizeType DEF PauseInv, TypeOK, Goto, environment, StartScript, PopenFails
<1>4. CASE \/ \E r \in Ranks : Kill(r)
           \/ Fatal
           \/ \E k \in pause_files : RemovePauseFile(k)
           \/ UNCHANGED vars
  BY <1>4 DEF PauseInv, Kill, Fatal, RemovePauseFile, vars
<1> QED
  BY <1>1, <1>2, <1>3, <1>4 DEF Next

\* Of every run, unless popen() fails: no rank is in a phase whose pause file has
\* not been removed.
THEOREM PauseHolds == Spec => []PauseHoldsEveryRank
<1>1. Init => PauseInv
  BY SizeType DEF Init, PauseInv
<1>2. LoopInv /\ PauseInv /\ PhaseIsolation => PauseHoldsEveryRank
  <2> SUFFICES ASSUME LoopInv, PauseInv, PhaseIsolation, ~ popen_failed,
                      NEW q \in Ranks, InRun(q), i[q] \in pause_files
               PROVE  FALSE
    BY DEF PauseHoldsEveryRank
  <2>1. /\ TypeOK /\ Matching /\ ncoll[0] \in Nat /\ ncoll[q] \in Nat
        /\ i[0] \in Nat /\ i[q] \in 1..Last /\ Pause
    BY SizeType DEF LoopInv, TypeOK, PauseInv
  <2>2. Entered(0) >= i[q]
    BY SizeType DEF PhaseIsolation
  <2>3. i[0] = i[q] /\ pc[0] \in {"loop_barrier", "pausing"}
    BY <2>1, <2>2 DEF PauseInv, Entered
  <2>4. Entered(0) = i[q] /\ CallStage(0) = 1
    BY <2>3 DEF Entered, CallStage, StageAt
  <2>5. /\ Entered(q) = i[q] /\ CallStage(q) \in {2, 3}
        /\ CallStage(q) = 2 => ~ Waiting(q)
    BY <2>1 DEF InRun, Running, Entered, CallStage, StageAt, Before, Waiting
  <2>6. CASE ncoll[q] = ncoll[0]
    BY <2>1, <2>4, <2>5, <2>6, SizeType DEF Matching, SameCall
  <2>7. CASE ncoll[q] = ncoll[0] + 1
    <3>1. NextCall(i[q], 1, i[q], CallStage(q)) /\ Waiting(q)
      BY <2>1, <2>4, <2>5, <2>7, SizeType DEF Matching
    <3> QED
      BY <2>1, <2>5, <3>1 DEF NextCall, Before
  <2>8. CASE ncoll[0] = ncoll[q] + 1
    <3>1. NextCall(i[q], CallStage(q), i[q], 1)
      BY <2>1, <2>4, <2>5, <2>8, SizeType DEF Matching
    <3> QED
      BY <2>1, <2>5, <3>1 DEF NextCall
  <2> QED
    BY <2>1, <2>6, <2>7, <2>8, SizeType DEF Matching
<1>3. popen_failed /\ [Next]_vars => popen_failed'
  BY DEF Next, vars, Step, EnterLoopBarrier, LeaveLoopBarrier, EnterPauseBarrier,
     LeavePauseBarrier, RunAlone, RunBench, RunPfind, EnterFindBarrier, EndRun,
     NextPhase, EnterFinalBarrier, LeaveFinalBarrier, EnterFinalize, Exit,
     StartScript, PopenFails, Fatal, Kill, RemovePauseFile
<1>4. popen_failed => PauseHoldsEveryRank
  BY DEF PauseHoldsEveryRank
<1>5. Spec => [](popen_failed \/ PauseInv)
  <2>1. (popen_failed \/ PauseInv) /\ LoopInv /\ [Next]_vars => (popen_failed \/ PauseInv)'
    BY <1>3, PauseStep
  <2> QED
    BY <1>1, <2>1, Invariance, PTL DEF Spec
<1> QED
  BY <1>2, <1>4, <1>5, Invariance, Isolation, PTL

-------------------------------------------------------------------------------
\* A rank in a collective that no rank has called fewer collectives than can leave it.
LEMMA LeastLeaves ==
  ASSUME LoopInv, ~ popen_failed, NEW r \in Ranks, \A q \in Ranks : ncoll[r] <= ncoll[q]
  PROVE  CanLeave(r)
<1>1. TypeOK /\ Matching /\ \A q \in Ranks : ncoll[q] \in Nat
  BY DEF LoopInv, TypeOK
<1>2. ASSUME NEW q \in Ranks, ncoll[q] = ncoll[r] PROVE kind[q] = kind[r]
  BY <1>1, <1>2 DEF Matching, SameCall
<1> QED
  BY <1>1, <1>2 DEF CanLeave

LEMMA NobodyStuck == LoopInv => NeverAllWait
<1> SUFFICES ASSUME LoopInv, ~ popen_failed, NEW x \in Ranks, pc[x] # "exited",
                    \A r \in Ranks : pc[r] = "exited" \/ WaitsForRanks(r)
             PROVE  FALSE
  BY DEF NeverAllWait
<1>1. /\ TypeOK /\ Places /\ Matching
      /\ \A q \in Ranks : ncoll[q] \in Nat /\ i[q] \in 1..(Last + 1)
  BY DEF LoopInv, TypeOK
\* A rank that waits in MPI_COMM_WORLD has called more collectives than another one.
<1>2. ASSUME NEW r \in Ranks, Waiting(r) PROVE \E q \in Ranks : ncoll[q] < ncoll[r]
  <2>1. ~ CanLeave(r)
    BY <1>2 DEF WaitsForRanks, Waiting
  <2> QED
    BY <1>1, <2>1, LeastLeaves
\* All wait in MPI_COMM_WORLD: those that have called the fewest collectives can go on.
<1>3. CASE \A r \in Ranks : Waiting(r)
  <2>1. PICK q \in Ranks : ncoll[q] < ncoll[0]
    BY <1>2, <1>3, SizeType
  <2>2. PICK p \in Ranks : ncoll[p] < ncoll[q]
    BY <1>2, <1>3
  <2>3. ncoll[0] <= ncoll[p] + 1
    BY SizeType, <1>1 DEF Matching
  <2> QED
    BY <1>1, <2>1, <2>2, <2>3, SizeType
\* Some rank has exited: the others have called their last collective, and can leave it.
<1>4. ASSUME NEW e \in Ranks, pc[e] = "exited", ~ \E r \in Ranks : pc[r] = "pfind"
      PROVE  FALSE
  <2>1. Waiting(x)
    BY <1>4 DEF WaitsForRanks
  <2>2. \A q \in Ranks : ncoll[e] <= ncoll[q]
    BY <1>1, <1>4 DEF Matching, Waiting
  <2>3. ncoll[x] = ncoll[e] + 1
    BY <1>1, <1>2, <2>1, <2>2 DEF Matching
  <2>4. NextCall(Last + 1, 2, Entered(x), CallStage(x))
    <3>1. Entered(e) = Last + 1 /\ CallStage(e) = 2
      BY <1>1, <1>4 DEF TypeOK, Entered, CallStage, StageAt
    <3> QED
      BY <1>1, <2>3, <3>1 DEF Matching
  <2> QED
    BY <2>4, SizeType DEF NextCall
\* Some rank is in pfind: no member of its communicator waits anywhere else.
<1>5. ASSUME NEW r \in Ranks, pc[r] = "pfind" PROVE FALSE
  <2>1. PICK q \in Ranks : ~ (i[q] > i[r]) /\ ~ (i[q] = i[r] /\ pc[q] = "pfind")
    BY <1>5 DEF WaitsForRanks, Waiting, PfindCanEnd, Members
  <2>2. \A p \in Ranks : ncoll[r] <= ncoll[p]
    BY <1>1, <1>5 DEF Matching, Waiting
  <2>3. /\ Entered(r) = i[r] /\ CallStage(r) = Before /\ i[r] \in 1..Last
        /\ Schedule[i[r]] = "pfind"
    BY <1>1, <1>5, SizeType DEF TypeOK, Places, Task, Entered, CallStage, StageAt
  <2>4. CASE ncoll[q] = ncoll[r]
    <3>1. ~ Waiting(q) /\ Entered(q) = i[r]
      BY <1>1, <1>2, <2>2, <2>3, <2>4 DEF Matching, SameCall
    <3>2. pc[q] \in {"exited", "pfind"}
      BY <3>1 DEF WaitsForRanks
    <3> QED
      BY <1>1, <2>1, <2>3, <3>1, <3>2, SizeType DEF TypeOK, Entered
  <2>5. CASE ncoll[q] = ncoll[r] + 1
    <3>1. NextCall(i[r], Before, Entered(q), CallStage(q))
      BY <1>1, <2>3, <2>5 DEF Matching
    <3>2. Entered(q) = i[r] + 1
      BY <2>3, <3>1, SizeType DEF NextCall, Before, Collective
    <3> QED
      BY <1>1, <2>1, <2>3, <3>2 DEF Entered
  <2> QED
    BY <1>1, <2>2, <2>4, <2>5 DEF Matching
<1> QED
  BY <1>3, <1>4, <1>5 DEF WaitsForRanks

\* Of every run, until a rank dies or popen() fails: the ranks never all wait for each
\* other, although those in pfind synchronise on a communicator of their own while the
\* others are already in the collectives of the next phase.
THEOREM NoDeadlock == Spec => []NeverAllWait
BY NobodyStuck, Invariance, PTL

-------------------------------------------------------------------------------
\* PhaseLoop implements Lockstep, provided popen() does not fail.

Open ==
  /\ OpenPhase \in 0..(Last + 1)
  /\ \A r \in Ranks : Entered(r) >= OpenPhase
  /\ \E r \in Ranks : Entered(r) = OpenPhase

\* No rank is more than a phase ahead, so that the phase that is open, the least
\* one a rank has entered, exists.
LEMMA EnteredClose ==
  ASSUME LoopInv, ~ popen_failed, NEW r \in Ranks, NEW q \in Ranks
  PROVE  Entered(q) <= Entered(r) + 1
<1>1. /\ TypeOK /\ Matching /\ ncoll[r] \in Nat /\ ncoll[q] \in Nat
      /\ Entered(r) \in 0..(Last + 1) /\ Entered(q) \in 0..(Last + 1)
  BY CallType DEF LoopInv, TypeOK
<1>2. CASE ncoll[q] = ncoll[r]
  BY <1>1, <1>2, SizeType DEF Matching, SameCall
<1>3. CASE ncoll[q] = ncoll[r] + 1
  <2>1. NextCall(Entered(r), CallStage(r), Entered(q), CallStage(q))
    BY <1>1, <1>3 DEF Matching
  <2> QED
    BY <1>1, <2>1, SizeType DEF NextCall
<1>4. CASE ncoll[r] = ncoll[q] + 1
  <2>1. NextCall(Entered(q), CallStage(q), Entered(r), CallStage(r))
    BY <1>1, <1>4 DEF Matching
  <2> QED
    BY <1>1, <2>1, SizeType DEF NextCall
<1> QED
  BY <1>1, <1>2, <1>3, <1>4 DEF Matching

LEMMA OpenPhaseExists == LoopInv /\ ~ popen_failed => Open
<1> SUFFICES ASSUME LoopInv, ~ popen_failed PROVE Open
  OBVIOUS
<1> DEFINE Least(k) == /\ \A r \in Ranks : Entered(r) >= k
                       /\ \E r \in Ranks : Entered(r) = k
<1>1. \A r \in Ranks : Entered(r) \in 0..(Last + 1)
  BY CallType DEF LoopInv
<1>2. \A r, q \in Ranks : Entered(q) <= Entered(r) + 1
  BY EnteredClose
<1>3. \E k \in 0..(Last + 1) : Least(k)
  <2>1. CASE \A r \in Ranks : Entered(r) >= Entered(0)
    BY <1>1, <2>1, SizeType
  <2>2. CASE \E q \in Ranks : ~ (Entered(q) >= Entered(0))
    <3>1. PICK q \in Ranks : ~ (Entered(q) >= Entered(0))
      BY <2>2
    <3>2. \A r \in Ranks : Entered(r) >= Entered(q)
      BY <1>1, <1>2, <3>1, SizeType
    <3> QED
      BY <1>1, <3>2
  <2> QED
    BY <2>1, <2>2
<1> QED
  BY <1>3 DEF Open, OpenPhase

\* While the phases entered stay the same, so does the open phase.
LEMMA SameOpenPhase ==
  ASSUME Open, Open', \A q \in Ranks : Entered(q) \in Int /\ Entered(q)' = Entered(q)
  PROVE  OpenPhase' = OpenPhase
BY SizeType DEF Open

\* A step of rank r that begins and ends nothing.
LEMMA StutterStep ==
  ASSUME Open, Open',
         \A q \in Ranks : /\ Entered(q) \in Int /\ Entered(q)' = Entered(q)
                          /\ Began(q)' = Began(q) /\ Ended(q)' = Ended(q)
  PROVE  UNCHANGED L!vars
BY SameOpenPhase DEF L!vars

LEMMA BeginStep ==
  ASSUME Open, Open', NEW r \in Ranks,
         \A q \in Ranks : /\ Entered(q) \in Int /\ Entered(q)' = Entered(q)
                          /\ Ended(q)' = Ended(q)
                          /\ q # r => Began(q)' = Began(q),
         OpenPhase <= Last, Began(r) = Ended(r), Ended(r) < OpenPhase, Began(r)' = OpenPhase
  PROVE  L!Begin(r)
BY SameOpenPhase DEF L!Begin

LEMMA EndStep ==
  ASSUME Open, Open', NEW r \in Ranks,
         \A q \in Ranks : /\ Entered(q) \in Int /\ Entered(q)' = Entered(q)
                          /\ Began(q)' = Began(q)
                          /\ q # r => Ended(q)' = Ended(q),
         Ended(r) < Began(r), Ended(r)' = Began(r)
  PROVE  L!End(r)
BY SameOpenPhase DEF L!End

\* A step in which rank r enters a phase: the last rank to do so opens it.
LEMMA EnterStep ==
  ASSUME LoopInv, ~ popen_failed, Open, Open', NEW r \in Ranks,
         pc[r] = "top", i[r] \in 1..(Last + 1), Entered(r)' = i[r],
         \A q \in Ranks : /\ Began(q)' = Began(q) /\ Ended(q)' = Ended(q)
                          /\ q # r => Entered(q)' = Entered(q)
  PROVE  L!Advance \/ UNCHANGED L!vars
<1>1. /\ Entered(r) = i[r] - 1 /\ TypeOK
      /\ \A q \in Ranks : Entered(q) \in 0..(Last + 1) /\ Entered(q) <= i[r]
  BY CallType, EnteredClose DEF LoopInv, Entered, TypeOK
<1>2. CASE OpenPhase' = OpenPhase
  BY <1>2 DEF L!vars
<1>3. CASE OpenPhase' # OpenPhase
  <2>1. OpenPhase = i[r] - 1 /\ \A q \in Ranks \ {r} : Entered(q) = i[r]
    BY <1>1, <1>3, SizeType DEF Open
  <2>2. OpenPhase' = i[r]
    BY <1>1, <2>1, SizeType DEF Open
  <2>3. ASSUME NEW q \in Ranks, q # r PROVE Ended(q) = i[r] - 1
    <3>1. Entered(q) = Entered(r) + 1 /\ Matching /\ ncoll[r] \in Nat /\ ncoll[q] \in Nat
      BY <1>1, <2>1, <2>3 DEF LoopInv, TypeOK
    <3>2. ~ Waiting(r) /\ ncoll[r] <= ncoll[q]
      BY <3>1 DEF Waiting, Matching
    <3>3. ncoll[q] = ncoll[r] + 1
      BY <1>1, <3>1, <3>2 DEF Matching, SameCall
    <3>4. NextCall(Entered(r), CallStage(r), Entered(q), CallStage(q)) /\ Waiting(q)
      BY <3>1, <3>3 DEF Matching
    <3>5. CallStage(q) = 1
      BY <1>1, <3>1, <3>4 DEF NextCall
    <3>6. pc[q] \in {"loop_barrier", "final_barrier"} /\ i[q] = i[r]
      BY <2>1, <2>3, <3>4, <3>5 DEF Waiting, CallStage, StageAt, Entered
    <3> QED
      BY <3>6 DEF Ended
  <2>4. Ended(r) = i[r] - 1
    BY DEF Ended
  <2>5. L!Advance
    BY <1>1, <2>1, <2>2, <2>3, <2>4, SizeType DEF L!Advance
  <2> QED
    BY <2>5
<1> QED
  BY <1>2, <1>3

\* Where a rank may leave the barrier in front of run(), its phase is open.
LEMMA OpenAtRun ==
  ASSUME LoopInv, ~ popen_failed, Open, NEW r \in Ranks, CanLeave(r), Entered(r) = i[r]
  PROVE  OpenPhase = i[r]
<1>1. /\ TypeOK /\ Matching /\ ncoll[r] \in Nat
      /\ \A q \in Ranks : ncoll[q] \in Nat /\ Entered(q) \in 0..(Last + 1)
  BY CallType DEF LoopInv, TypeOK
<1>2. ASSUME NEW q \in Ranks PROVE Entered(q) >= i[r]
  <2>1. CASE ncoll[q] = ncoll[r]
    BY <1>1, <2>1 DEF Matching, SameCall
  <2>2. CASE ncoll[q] = ncoll[r] + 1
    <3>1. NextCall(Entered(r), CallStage(r), Entered(q), CallStage(q))
      BY <1>1, <2>2 DEF Matching
    <3> QED
      BY <1>1, <3>1 DEF NextCall
  <2> QED
    BY <1>1, <2>1, <2>2 DEF Matching, CanLeave
<1> QED
  BY <1>1, <1>2, SizeType DEF Open

LEMMA StepImplements ==
  ASSUME LoopInv, ~ popen_failed, Open, Open', TypeOK', NEW r \in Ranks, Step(r)
  PROVE  [L!Next]_(L!vars)
<1>1. /\ TypeOK /\ i[r] \in 1..(Last + 1)
      /\ \A q \in Ranks : Entered(q) \in Int /\ i[q] \in Int
      /\ pc[r] \in {"loop_barrier", "pausing", "pause_barrier", "after"} \cup Running =>
           i[r] <= Last
  BY SizeType, CallType DEF LoopInv, TypeOK, Running
<1>2. \A q \in Ranks \ {r} : pc'[q] = pc[q] /\ i'[q] = i[q]
  BY <1>1 DEF TypeOK, Step, Goto, EnterLoopBarrier, LeaveLoopBarrier,
     EnterPauseBarrier, LeavePauseBarrier, RunAlone, RunBench, RunPfind, EnterFindBarrier,
     EndRun, NextPhase, EnterFinalBarrier, LeaveFinalBarrier, EnterFinalize, Exit
<1>3. \A q \in Ranks \ {r} : Entered(q)' = Entered(q) /\ Began(q)' = Began(q)
                                                      /\ Ended(q)' = Ended(q)
  BY <1>2 DEF Entered, Began, Ended
<1>4. ASSUME Entered(r)' = Entered(r), Began(r)' = Began(r), Ended(r)' = Ended(r)
      PROVE  UNCHANGED L!vars
  BY <1>1, <1>3, <1>4, StutterStep
<1>5. ASSUME i[r] <= Last, CanLeave(r), pc[r] \in {"loop_barrier", "pause_barrier"},
             pc'[r] = "run", i'[r] = i[r]
      PROVE  L!Begin(r)
  <2>1. /\ Entered(r) = i[r] /\ Entered(r)' = i[r] /\ Ended(r) = i[r] - 1
        /\ Began(r) = i[r] - 1 /\ Ended(r)' = i[r] - 1 /\ Began(r)' = i[r]
    BY <1>5 DEF Entered, Began, Ended, Running
  <2>2. OpenPhase = i[r]
    BY <1>5, <2>1, OpenAtRun
  <2> QED
    BY <1>1, <1>3, <1>5, <2>1, <2>2, BeginStep
<1>6. ASSUME pc[r] \in Running, pc'[r] = "after", i'[r] = i[r]
      PROVE  L!End(r)
  <2>1. /\ Entered(r) = i[r] /\ Entered(r)' = i[r] /\ Ended(r) = i[r] - 1
        /\ Began(r) = i[r] /\ Ended(r)' = i[r] /\ Began(r)' = i[r]
    BY <1>6 DEF Entered, Began, Ended, Running
  <2> QED
    BY <1>1, <1>3, <2>1, EndStep
<1>7. ASSUME pc[r] = "top", pc'[r] \in {"loop_barrier", "final_barrier"}, i'[r] = i[r]
      PROVE  L!Advance \/ UNCHANGED L!vars
  <2>1. /\ Entered(r)' = i[r] /\ Began(r)' = Began(r) /\ Ended(r)' = Ended(r)
    BY <1>7 DEF Entered, Began, Ended, Running
  <2> QED
    BY <1>1, <1>3, <1>7, <2>1, EnterStep
<1> USE <1>1 DEF TypeOK, Goto
<1>8. CASE EnterLoopBarrier(r)
  BY <1>7, <1>8 DEF EnterLoopBarrier, L!Next
<1>9. CASE LeaveLoopBarrier(r)
  <2>1. /\ pc[r] = "loop_barrier" /\ CanLeave(r) /\ i'[r] = i[r]
        /\ pc'[r] = "pausing" \/ pc'[r] = "run"
    BY <1>9 DEF LeaveLoopBarrier
  <2>2. CASE pc'[r] = "run"
    BY <1>5, <2>1, <2>2 DEF L!Next
  <2>3. CASE pc'[r] = "pausing"
    BY <1>4, <2>1, <2>3 DEF Entered, Began, Ended, Running
  <2> QED
    BY <2>1, <2>2, <2>3
<1>10. CASE EnterPauseBarrier(r)
  BY <1>4, <1>10 DEF EnterPauseBarrier, Entered, Began, Ended, Running
<1>11. CASE LeavePauseBarrier(r)
  BY <1>5, <1>11 DEF LeavePauseBarrier, L!Next
<1>12. CASE RunAlone(r)
  BY <1>6, <1>12 DEF RunAlone, Running, L!Next
<1>13. CASE RunBench(r) \/ RunPfind(r)
  BY <1>4, <1>13 DEF RunBench, RunPfind, Entered, Began, Ended, Running
<1>14. CASE EnterFindBarrier(r)
  BY <1>4, <1>14 DEF EnterFindBarrier, Entered, Began, Ended, Running
<1>15. CASE EndRun(r)
  BY <1>6, <1>15 DEF EndRun, Running, L!Next
<1>16. CASE NextPhase(r)
  <2>1. pc[r] = "after" /\ pc'[r] = "top" /\ i'[r] = i[r] + 1
    BY <1>16 DEF NextPhase
  <2>2. /\ Entered(r) = i[r] /\ Entered(r)' = i[r] /\ Began(r) = i[r] /\ Began(r)' = i[r]
        /\ Ended(r) = i[r] /\ Ended(r)' = i[r]
    BY <2>1 DEF Entered, Began, Ended, Running
  <2> QED
    BY <1>4, <2>2
<1>17. CASE EnterFinalBarrier(r)
  BY <1>7, <1>17 DEF EnterFinalBarrier, L!Next
<1>18. CASE LeaveFinalBarrier(r)
  BY <1>4, <1>18 DEF LeaveFinalBarrier, Entered, Began, Ended, Running
<1>19. CASE EnterFinalize(r) \/ Exit(r)
  BY <1>4, <1>19 DEF EnterFinalize, Exit, Entered, Began, Ended, Running
<1> QED
  BY <1>8, <1>9, <1>10, <1>11, <1>12, <1>13, <1>14, <1>15, <1>16, <1>17, <1>18, <1>19 DEF Step

LEMMA NextImplements ==
  ASSUME LoopInv, LoopInv', ~ popen_failed, ~ popen_failed', Open, Open', [Next]_vars
  PROVE  [L!Next]_(L!vars)
<1>1. TypeOK /\ TypeOK' /\ \A q \in Ranks : Entered(q) \in Int
  BY CallType, SizeType DEF LoopInv
<1>2. CASE \E r \in Ranks : Step(r)
  BY <1>1, <1>2, StepImplements
<1>3. CASE StartScript
  <2>1. \A q \in Ranks : /\ Entered(q)' = Entered(q) /\ Began(q)' = Began(q)
                         /\ Ended(q)' = Ended(q)
    BY <1>1, <1>3 DEF StartScript, Goto, TypeOK, Entered, Began, Ended, Running
  <2> QED
    BY <1>1, <2>1, StutterStep
<1>4. CASE PopenFails
  BY <1>4 DEF PopenFails
<1>5. CASE \/ \E r \in Ranks : Kill(r)
           \/ Fatal
           \/ \E k \in pause_files : RemovePauseFile(k)
           \/ UNCHANGED vars
  <2>1. pc' = pc /\ i' = i
    BY <1>5 DEF Kill, Fatal, RemovePauseFile, vars
  <2>2. \A q \in Ranks : /\ Entered(q)' = Entered(q) /\ Began(q)' = Began(q)
                         /\ Ended(q)' = Ended(q)
    BY <2>1 DEF Entered, Began, Ended
  <2> QED
    BY <1>1, <2>2, StutterStep
<1> QED
  BY <1>2, <1>3, <1>4, <1>5 DEF Next

LEMMA InitImplements == Init /\ Open => L!Init
<1> SUFFICES ASSUME Init, Open PROVE L!Init
  OBVIOUS
<1>1. \A r \in Ranks : Entered(r) = 0 /\ Began(r) = 0 /\ Ended(r) = 0
  BY DEF Init, Entered, Began, Ended, Running
<1>2. OpenPhase = 0
  BY <1>1, SizeType DEF Open
<1> QED
  BY <1>1, <1>2 DEF L!Init

\* Of every run in which popen() does not fail: the job is a bulk-synchronous run of its
\* schedule, whatever else happens to it.
THEOREM LockstepWhilePopenWorks == Spec /\ []~ popen_failed => ImplementsLockstep
<1>1. LoopInv /\ LoopInv' /\ ~ popen_failed /\ ~ popen_failed' /\ Open /\ Open' /\ [Next]_vars
        => [L!Next]_(L!vars)
  BY NextImplements
<1> QED
  BY Invariance, OpenPhaseExists, InitImplements, <1>1, PTL DEF Spec, ImplementsLockstep, L!Spec

\* Of every run of an io500 whose popen() cannot fail: the job is a bulk-synchronous run of
\* its schedule.
THEOREM LockstepImplemented ==
  ASSUME ~ PopenMayFail
  PROVE  Spec => ImplementsLockstep
<1>1. Init => ~ popen_failed
  BY DEF Init
<1>2. ~ popen_failed /\ [Next]_vars => ~ popen_failed'
  BY DEF Next, vars, Step, EnterLoopBarrier, LeaveLoopBarrier, EnterPauseBarrier,
     LeavePauseBarrier, RunAlone, RunBench, RunPfind, EnterFindBarrier, EndRun,
     NextPhase, EnterFinalBarrier, LeaveFinalBarrier, EnterFinalize, Exit,
     StartScript, PopenFails, Fatal, Kill, RemovePauseFile
<1>3. Spec => []~ popen_failed
  BY <1>1, <1>2, PTL DEF Spec
<1> QED
  BY <1>3, LockstepWhilePopenWorks

===============================================================================
