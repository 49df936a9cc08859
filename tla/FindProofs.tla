------------------------------ MODULE FindProofs ------------------------------
(***************************************************************************)
(* Proofs about Find, for every number of ranks and all find sections.     *)
(*                                                                         *)
(* The argument.  All ranks have prepared a section in the same way        *)
(* (Prepared), and no rank gets past one that asks for too many processes  *)
(* (Exits).  A rank that searches is at a section no rank has yet to come  *)
(* to (Order), so that all who search are at the same one.  While rank 0   *)
(* collects, every other member is sending or has just returned, and when  *)
(* it does not, at most the return of the last MPI_Send is outstanding     *)
(* (Stages).  A channel therefore holds the one message its sender has     *)
(* sent and rank 0 has not received (Transit), and what has been received  *)
(* is in the rows (Rows).                                                  *)
(*                                                                         *)
(* The ranks never all wait: the one whose message rank 0 is in need of    *)
(* has yet to send it, and where nobody collects, the ranks at the least   *)
(* section are in pfind, together (Together).                              *)
(***************************************************************************)
EXTENDS Find, SequenceTheorems, WellFoundedInduction, TLAPS

Result == [rows : Seq(Contribution \X Contribution), found : BOOLEAN]

Types ==
  /\ nproc_option \in Sections
  /\ pc \in [Ranks -> States]
  /\ at \in [Ranks -> 1..(N + 1)]
  /\ nproc \in [Ranks -> [1..N -> Nat \cup {Unset}]]
  /\ com \in [Ranks -> [1..N -> Coms \cup {Null}]]
  /\ hits \subseteq Ranks
  /\ channel \in [Ranks \X Coms \X {Errors, Monitor} -> Seq(Contribution)]
  /\ received \in Contribution
  /\ csv \in Seq(Contribution \X Contribution)
  /\ reports \in Seq(Result)
  /\ disagreed \in BOOLEAN

Sending    == {"send_errors", "errors_sent", "send_monitor", "monitor_sent"}
Searching  == {"find", "aggregate", "row", "monitor"} \cup Sending
Collecting == pc[0] \in {"row", "monitor"}

\* What validate() makes of section k on rank r.
PreparedAt(r, k) ==
  /\ com[r][k] = IF nproc_option[k] = Unset THEN World
                 ELSE IF r < nproc_option[k] THEN k ELSE Null
  /\ nproc[r][k] = IF nproc_option[k] = Unset THEN Size ELSE nproc_option[k]

Prepared ==
  \A r \in Ranks : \A k \in 1..N :
    IF pc[r] \in {"validate", "exited"} /\ k >= at[r]
      THEN com[r][k] = Null /\ nproc[r][k] = nproc_option[k]
      ELSE PreparedAt(r, k)

Exits ==
  /\ \A k \in 1..N : nproc_option[k] > Size =>
       \A r \in Ranks : pc[r] \in {"validate", "exited"} /\ at[r] <= k
  /\ \A r \in Ranks : pc[r] = "exited" => at[r] <= N /\ nproc_option[at[r]] > Size

Order ==
  \A r \in Ranks :
    /\ pc[r] \in Searching => /\ at[r] <= N /\ com[r][at[r]] # Null
                              /\ \A q \in Ranks : pc[q] # "validate" /\ at[q] >= at[r]
    /\ pc[r] = "ready" /\ at[r] > 1 =>
         \A q \in Ranks : pc[q] # "validate" /\ at[q] >= at[r] - 1
    /\ IF r = 0 THEN pc[r] \notin Sending ELSE pc[r] \notin {"row", "monitor"}

Others == Members(at[0]) \ {0}

Stages ==
  IF Collecting
    THEN \A m \in Others : \/ pc[m] \in Sending /\ at[m] = at[0]
                           \/ pc[m] = "ready" /\ at[m] = at[0] + 1
    ELSE \A m \in Ranks : pc[m] \in Sending => pc[m] = "monitor_sent" /\ at[m] < at[0]

\* Rank m has sent its message in the search rank 0 is collecting for; rank 0 has
\* received it.
Sent(m, tag) ==
  \/ at[m] = at[0] + 1
  \/ pc[m] \in IF tag = Errors THEN {"errors_sent", "send_monitor", "monitor_sent"}
               ELSE {"monitor_sent"}
Got(m, tag) == m < Len(csv) \/ (tag = Errors /\ pc[0] = "monitor" /\ m = Len(csv))

\* What channel c holds.
Expected(c) ==
  IF /\ Collecting /\ c[1] \in Others /\ c[2] = com[0][at[0]]
     /\ Sent(c[1], c[3]) /\ ~ Got(c[1], c[3])
  THEN << Counts(at[0], c[1]) >> ELSE <<>>

Transit == \A c \in DOMAIN channel : channel[c] = Expected(c)

Rows ==
  /\ pc[0] = "aggregate" \/ Collecting => hits \subseteq Members(at[0])
  /\ Collecting =>
       /\ Len(csv) \in 1..nproc[0][at[0]]
       /\ \A j \in 1..Len(csv) : csv[j] = <<Counts(at[0], j - 1), Counts(at[0], j - 1)>>
       /\ \A m \in Others : \A tag \in {Errors, Monitor} : Got(m, tag) => Sent(m, tag)
  /\ pc[0] = "monitor" => Len(csv) < nproc[0][at[0]] /\ received = Counts(at[0], Len(csv))

Reported == Len(reports) = IF pc[0] \in {"validate", "exited"} THEN 0 ELSE at[0] - 1

FindInv == /\ Types /\ Prepared /\ Exits /\ Order /\ Stages /\ Transit /\ Rows /\ Reported

-------------------------------------------------------------------------------
LEMMA RankFacts == 0 \in Ranks /\ Ranks \subseteq Nat /\ \A r \in Ranks : r < Size
BY SizeAssumption DEF Ranks

LEMMA SectionFacts ==
  ASSUME nproc_option \in Sections
  PROVE  /\ N \in Nat
         /\ \A k \in 1..N : nproc_option[k] \in Nat \cup {Unset}
         /\ DOMAIN nproc_option = 1..N
BY SectionsAssumption DEF N

\* What there is to be done by a step.
Local(r) ==
  \/ UseWorld(r) \/ Split(r) \/ CannotSplit(r) \/ Validated(r)
  \/ StandAside(r) \/ CallPfind(r)
  \/ SendErrors(r) \/ SendMonitor(r) \/ SendReturns(r)

LEMMA NextCases ==
  ASSUME [Next]_vars
  PROVE  \/ \E r \in Ranks : Local(r)
         \/ ReceiveErrors \/ ReceiveMonitor \/ ReturnResult
         \/ \E k \in 1..N : \E failed \in SUBSET Members(k) : PfindFind(k, failed)
         \/ \E k \in 1..N : Aggregate(k)
         \/ UNCHANGED vars
BY DEF Next, Step, Buffered, Delivered, Collect, Search, Local

\* The communicator of section k, where all have prepared it: the first ranks.
LEMMA MembersFacts ==
  ASSUME FindInv, \A q \in Ranks : pc[q] # "validate", pc[0] # "exited", NEW k \in 1..N
  PROVE  /\ \A r \in Ranks : PreparedAt(r, k) /\ pc[r] # "exited"
         /\ nproc[0][k] \in 0..Size
         /\ Members(k) = {r \in Ranks : r < nproc[0][k]}
         /\ Members(k) = {r \in Ranks : nproc_option[k] = Unset \/ r < nproc_option[k]}
         /\ Members(k) # {} => 0 \in Members(k)
         /\ \A r \in Members(k) : com[r][k] = com[0][k] /\ com[r][k] \in Coms
<1>1. N \in Nat /\ nproc_option[k] \in Nat \cup {Unset} /\ k \in Nat
  BY SectionFacts DEF FindInv, Types
<1>2. \A r \in Ranks : pc[r] # "exited"
  BY RankFacts, SectionFacts, SizeAssumption DEF FindInv, Exits, Types
<1>3. \A r \in Ranks : PreparedAt(r, k)
  BY <1>2 DEF FindInv, Prepared
<1>4. nproc_option[k] <= Size
  BY RankFacts, SizeAssumption, <1>1, <1>2 DEF FindInv, Exits, Unset
<1>5. nproc[0][k] \in 0..Size
  BY RankFacts, SizeAssumption, <1>1, <1>3, <1>4 DEF PreparedAt, Unset
<1>6. \A r \in Ranks : com[r][k] # Null <=> nproc_option[k] = Unset \/ r < nproc_option[k]
  <2> SUFFICES ASSUME NEW r \in Ranks
               PROVE  com[r][k] # Null <=> nproc_option[k] = Unset \/ r < nproc_option[k]
    OBVIOUS
  <2>1. World # Null /\ k # Null
    BY <1>1 DEF World, Null
  <2> QED
    BY <1>3, <2>1 DEF PreparedAt
<1>7. \A r \in Ranks : com[r][k] # Null <=> r < nproc[0][k]
  BY RankFacts, <1>3, <1>6 DEF PreparedAt
<1>8. ASSUME NEW r \in Members(k)
      PROVE  0 \in Members(k) /\ com[r][k] = com[0][k] /\ com[r][k] \in Coms
  <2>1. r \in Ranks /\ r \in Nat /\ 0 \in Ranks /\ com[r][k] # Null /\ r < nproc[0][k]
    BY RankFacts, <1>7 DEF Members
  <2>2. com[0][k] # Null
    BY <1>5, <1>7, <2>1
  <2>3. com[r][k] = com[0][k] /\ com[r][k] \in {World, k}
    BY <1>3, <2>1, <2>2 DEF PreparedAt
  <2> QED
    BY <1>1, <2>1, <2>2, <2>3 DEF Members, Coms, World
<1> QED
  BY <1>2, <1>3, <1>5, <1>6, <1>7, <1>8 DEF Members

LEMMA InitInv == Init => FindInv
<1> SUFFICES ASSUME Init PROVE FindInv
  OBVIOUS
<1>1. nproc_option \in Sections /\ N \in Nat /\ \A k \in 1..N : nproc_option[k] \in Nat \cup {Unset}
  BY SectionFacts DEF Init
<1>2. Types
  <2>1. nproc_option \in [1..N -> Nat \cup {Unset}]
    BY <1>1, SectionsAssumption, LenProperties DEF N
  <2>2. nproc \in [Ranks -> [1..N -> Nat \cup {Unset}]]
    BY <2>1 DEF Init
  <2>3. /\ pc \in [Ranks -> States] /\ at \in [Ranks -> 1..(N + 1)]
        /\ com \in [Ranks -> [1..N -> Coms \cup {Null}]]
    BY <1>1 DEF Init, States
  <2>4. channel \in [Ranks \X Coms \X {Errors, Monitor} -> Seq(Contribution)]
    BY DEF Init
  <2>5. /\ received \in Contribution /\ csv \in Seq(Contribution \X Contribution)
        /\ reports \in Seq(Result)
        /\ disagreed \in BOOLEAN /\ hits \subseteq Ranks
    BY EmptySeq DEF Init, Contribution
  <2> QED
    BY <1>1, <2>2, <2>3, <2>4, <2>5 DEF Types
<1>3. /\ \A r \in Ranks : pc[r] = "validate" /\ at[r] = 1 /\ nproc[r] = nproc_option
      /\ \A r \in Ranks : \A k \in 1..N : com[r][k] = Null
  BY DEF Init
<1>4. Prepared /\ Exits /\ Order /\ Stages /\ Rows
  BY <1>1, <1>3, RankFacts DEF Prepared, Exits, Order, Stages, Rows, Collecting, Searching, Sending
<1>5. Transit /\ Reported
  BY <1>3, RankFacts DEF Init, Transit, Expected, Reported, Collecting
<1> QED
  BY <1>2, <1>4, <1>5 DEF FindInv

-------------------------------------------------------------------------------
LEMMA CountsType ==
  ASSUME NEW k \in Nat, NEW m PROVE Counts(k, m) \in Contribution
BY DEF Counts, Contribution

LEMMA ResultType ==
  /\ Nothing \in Result
  /\ \A rows \in Seq(Contribution \X Contribution), found \in BOOLEAN :
       [rows |-> rows, found |-> found] \in Result
<1>1. <<>> \in Seq(Contribution \X Contribution)
  BY EmptySeq
<1> QED
  BY <1>1 DEF Result, Nothing

LEMMA StepTypes == FindInv /\ [Next]_vars => Types'
<1> SUFFICES ASSUME FindInv, [Next]_vars PROVE Types'
  OBVIOUS
<1> USE DEF Types, prepared, collected
<1>0. /\ Types /\ N \in Nat /\ 0 \in Ranks
      /\ \A r \in Ranks : pc[r] \in Searching => at[r] <= N /\ com[r][at[r]] # Null
  BY SectionFacts, RankFacts DEF FindInv, Order
<1>1. ASSUME NEW r \in Ranks, Local(r) PROVE Types'
  <2>0. at[r] \in 1..(N + 1)
    BY <1>0
  <2>1. CASE UseWorld(r)
    <3>1. /\ com' = [com EXCEPT ![r][at[r]] = World] /\ nproc' = [nproc EXCEPT ![r][at[r]] = Size]
          /\ at' = [at EXCEPT ![r] = at[r] + 1] /\ at[r] <= N
          /\ UNCHANGED <<nproc_option, pc, hits, channel, received, csv, reports, disagreed>>
      BY <2>1 DEF UseWorld
    <3>2. World \in Coms \cup {Null} /\ Size \in Nat \cup {Unset}
      BY <1>0, SizeAssumption DEF World, Coms
    <3>3. at' \in [Ranks -> 1..(N + 1)]
      BY <1>0, <2>0, <3>1
    <3> QED
      BY <1>0, <3>1, <3>2, <3>3 DEF N, Coms
  <2>2. CASE Split(r)
    <3> DEFINE k == at[r]
               c == IF color(r) THEN k ELSE Null
               n == IF color(r) THEN SplitSize(nproc[r][k]) ELSE nproc[r][k]
    <3>1. /\ com' = [com EXCEPT ![r][k] = c] /\ nproc' = [nproc EXCEPT ![r][k] = n]
          /\ at' = [at EXCEPT ![r] = k + 1] /\ k <= N
          /\ UNCHANGED <<nproc_option, pc, hits, channel, received, csv, reports, disagreed>>
      BY <1>0, <2>2 DEF Split, CallsSplit
    <3>2. c \in Coms \cup {Null} /\ n \in Nat \cup {Unset}
      BY <1>0, <2>0, <3>1, SizeAssumption DEF SplitSize, Coms
    <3>3. at' \in [Ranks -> 1..(N + 1)]
      BY <1>0, <2>0, <3>1
    <3> HIDE DEF k, c, n
    <3> QED
      BY <1>0, <3>1, <3>2, <3>3 DEF N, Coms
  <2>3. CASE CannotSplit(r)
    BY <1>0, <2>3 DEF CannotSplit, Goto, States, N, Coms
  <2>4. CASE Validated(r)
    BY <1>0, <2>4 DEF Validated, Goto, States, N, Coms
  <2>5. CASE StandAside(r)
    <3>1. reports' \in Seq(Result)
      BY <1>0, <2>5, ResultType DEF StandAside
    <3> QED
      BY <1>0, <2>0, <2>5, <3>1 DEF StandAside, N, Coms
  <2>6. CASE CallPfind(r)
    BY <1>0, <2>6 DEF CallPfind, Goto, States, N, Coms
  <2>7. ASSUME NEW tag \in {Errors, Monitor}, Send(r, tag), pc[r] \in Searching
        PROVE  channel' \in [Ranks \X Coms \X {Errors, Monitor} -> Seq(Contribution)]
    <3>1. Counts(at[r], r) \in Contribution
      BY <2>0, CountsType
    <3>2. <<r, com[r][at[r]], tag>> \in Ranks \X Coms \X {Errors, Monitor}
      BY <1>0, <2>0, <2>7
    <3> QED
      BY <1>0, <2>7, <3>1, <3>2 DEF Send
  <2>8. CASE SendErrors(r)
    <3>1. pc[r] \in Searching /\ pc' \in [Ranks -> States]
      BY <1>0, <2>8 DEF SendErrors, Goto, Searching, Sending, States
    <3> QED
      BY <1>0, <2>7, <2>8, <3>1 DEF SendErrors, N, Coms
  <2>9. CASE SendMonitor(r)
    <3>1. pc[r] \in Searching /\ pc' \in [Ranks -> States]
      BY <1>0, <2>9 DEF SendMonitor, Goto, Searching, Sending, States
    <3> QED
      BY <1>0, <2>7, <2>9, <3>1 DEF SendMonitor, N, Coms
  <2>10. CASE SendReturns(r)
    <3>1. pc' \in [Ranks -> States]
      BY <1>0, <2>10 DEF SendReturns, Goto, States
    <3>2. at[r] <= N
      BY <1>0, <2>10 DEF SendReturns, Goto, Searching, Sending
    <3>3. at' \in [Ranks -> 1..(N + 1)]
      BY <1>0, <2>0, <2>10, <3>2 DEF SendReturns
    <3> QED
      BY <1>0, <2>10, <3>1, <3>3 DEF SendReturns, N, Coms
  <2> QED
    BY <1>1, <2>1, <2>2, <2>3, <2>4, <2>5, <2>6, <2>8, <2>9, <2>10 DEF Local
<1>2. ASSUME NEW tag \in {Errors, Monitor}, Receive(tag)
      PROVE  channel[Pending(tag)] \in Seq(Contribution) =>
               /\ Head(channel[Pending(tag)]) \in Contribution
               /\ channel' \in [Ranks \X Coms \X {Errors, Monitor} -> Seq(Contribution)]
  BY <1>0, <1>2, HeadTailProperties DEF Receive
<1>3. ASSUME Collecting, RowsMissing, NEW tag \in {Errors, Monitor}
      PROVE  channel[Pending(tag)] \in Seq(Contribution)
  <2>1. /\ at[0] \in 1..N /\ com[0][at[0]] # Null /\ nproc[0][at[0]] <= Size
        /\ Len(csv) \in Nat
    <3>1. /\ at[0] \in 1..N /\ com[0][at[0]] # Null /\ pc[0] # "exited"
          /\ \A q \in Ranks : pc[q] # "validate"
      BY <1>0, <1>3 DEF FindInv, Order, Collecting, Searching
    <3> QED
      BY <1>0, <3>1, MembersFacts
  <2>a. nproc[0][at[0]] \in Int
    BY <1>0, <2>1 DEF Unset
  <2>2. source \in Ranks
    BY <1>3, <2>1, <2>a, SizeAssumption DEF source, RowsMissing, Ranks
  <2> QED
    BY <1>0, <2>1, <2>2 DEF Pending
<1>4. CASE ReceiveErrors
  <2>1. Collecting /\ RowsMissing /\ Receive(Errors) /\ pc' \in [Ranks -> States]
    BY <1>0, <1>4 DEF ReceiveErrors, Goto, Collecting, States
  <2> QED
    BY <1>0, <1>2, <1>3, <1>4, <2>1 DEF ReceiveErrors, N, Coms
<1>5. CASE ReceiveMonitor
  <2>1. Collecting /\ Receive(Monitor) /\ pc' \in [Ranks -> States]
    BY <1>0, <1>5 DEF ReceiveMonitor, Goto, Collecting, States
  <2>2. RowsMissing
    BY <1>5 DEF FindInv, Rows, ReceiveMonitor, Goto, RowsMissing, source
  <2>3. Head(channel[Pending(Monitor)]) \in Contribution
    BY <1>2, <1>3, <2>1, <2>2
  <2>4. csv' \in Seq(Contribution \X Contribution)
    BY <1>0, <1>5, <2>3 DEF ReceiveMonitor
  <2> QED
    BY <1>0, <1>2, <1>3, <1>5, <2>1, <2>2, <2>4 DEF ReceiveMonitor, N, Coms
<1>6. CASE ReturnResult
  <2>1. [rows |-> csv, found |-> hits # {}] \in Result
    BY <1>0, ResultType
  <2>2. reports' \in Seq(Result)
    BY <1>0, <1>6, <2>1 DEF ReturnResult
  <2>3. pc' \in [Ranks -> States] /\ at' \in [Ranks -> 1..(N + 1)]
    BY <1>0, <1>6 DEF ReturnResult, Goto, States, Searching
  <2> QED
    BY <1>0, <1>6, <2>2, <2>3 DEF ReturnResult, N, Coms
<1>7. ASSUME NEW k \in 1..N, NEW failed \in SUBSET Members(k), PfindFind(k, failed) PROVE Types'
  <2>1. reports' \in Seq(Result)
    BY <1>0, <1>7, ResultType DEF PfindFind
  <2>2. pc' \in [Ranks -> States] /\ at' \in [Ranks -> 1..(N + 1)] /\ hits' \subseteq Ranks
    BY <1>0, <1>7 DEF PfindFind, States, Members
  <2> QED
    BY <1>0, <1>7, <2>1, <2>2 DEF PfindFind, N, Coms
<1>8. ASSUME NEW k \in 1..N, Aggregate(k) PROVE Types'
  <2>1. csv' \in Seq(Contribution \X Contribution)
    <3>1. <<Counts(k, 0), Counts(k, 0)>> \in Contribution \X Contribution
      BY CountsType
    <3> QED
      BY <1>8, <3>1 DEF Aggregate
  <2>2. pc' \in [Ranks -> States]
    BY <1>0, <1>8 DEF Aggregate, States
  <2> QED
    BY <1>0, <1>8, <2>1, <2>2 DEF Aggregate, N, Coms
<1>9. CASE UNCHANGED vars
  BY <1>0, <1>9 DEF vars, N, Coms
<1> QED
  BY <1>1, <1>4, <1>5, <1>6, <1>7, <1>8, <1>9, NextCases

LEMMA StepPrepared == FindInv /\ [Next]_vars => Prepared'
<1> SUFFICES ASSUME FindInv, [Next]_vars PROVE Prepared'
  OBVIOUS
<1> USE DEF prepared, collected
<1>0. Types /\ Types' /\ Prepared /\ N \in Nat /\ nproc_option' = nproc_option /\ N' = N
  <2>1. nproc_option' = nproc_option
    BY NextCases DEF Local, UseWorld, Split, CannotSplit, Validated, StandAside, CallPfind,
       SendErrors, SendMonitor, SendReturns, ReceiveErrors, ReceiveMonitor, ReturnResult,
       PfindFind, Aggregate, vars
  <2> QED
    BY <2>1, StepTypes, SectionFacts DEF FindInv, Types, N
\* Rank r prepares section k.
<1>a. ASSUME NEW r \in Ranks, NEW k \in 1..N, pc[r] = "validate", at[r] = k, at'[r] = k + 1,
             pc' = pc, PreparedAt(r, k)',
             \A q \in Ranks : q # r => UNCHANGED <<at[q], com[q], nproc[q]>>,
             \A j \in 1..N : j # k => UNCHANGED <<com[r][j], nproc[r][j]>>
      PROVE  Prepared'
  <2>1. SUFFICES ASSUME NEW q \in Ranks, NEW j \in 1..N
                 PROVE  IF pc'[q] \in {"validate", "exited"} /\ j >= at'[q]
                          THEN com'[q][j] = Null /\ nproc'[q][j] = nproc_option'[j]
                          ELSE PreparedAt(q, j)'
    BY <1>0 DEF Prepared
  <2>2. CASE q # r
    BY <1>0, <1>a, <2>2 DEF Prepared, PreparedAt
  <2>3. CASE q = r /\ j # k
    <3>1. j >= at'[r] <=> j >= at[r]
      BY <1>0, <1>a, <2>3
    <3> QED
      BY <1>0, <1>a, <2>3, <3>1 DEF Prepared, PreparedAt
  <2>4. CASE q = r /\ j = k
    BY <1>0, <1>a, <2>4
  <2> QED
    BY <2>2, <2>3, <2>4
\* Nothing is prepared.
<1>b. ASSUME UNCHANGED <<com, nproc>>,
             \A q \in Ranks :
               IF pc'[q] \in {"validate", "exited"}
                 THEN pc[q] \in {"validate", "exited"} /\ at'[q] = at[q]
                 ELSE pc[q] \notin {"validate", "exited"} \/ at[q] = N + 1
      PROVE  Prepared'
  BY <1>0, <1>b DEF Prepared, PreparedAt, Types
<1>1. ASSUME NEW r \in Ranks, NEW k, k = at[r], Local(r) PROVE Prepared'
  <2>0. k = at[r] /\ k \in 1..(N + 1) /\ r \in Nat /\ 0 < Size /\ r < Size
    BY <1>0, <1>1, RankFacts, SizeAssumption DEF Types
  <2>1. CASE UseWorld(r)
    <3>1. k \in 1..N /\ pc[r] = "validate" /\ nproc[r][k] = Unset /\ pc' = pc
      BY <2>0, <2>1 DEF UseWorld
    <3>2. nproc_option[k] = Unset
      BY <1>0, <2>0, <3>1 DEF Prepared
    <3>3. /\ at'[r] = k + 1 /\ com'[r][k] = World /\ nproc'[r][k] = Size
          /\ \A q \in Ranks : q # r => UNCHANGED <<at[q], com[q], nproc[q]>>
          /\ \A j \in 1..N : j # k => UNCHANGED <<com[r][j], nproc[r][j]>>
      BY <1>0, <2>0, <2>1, <3>1 DEF UseWorld, Types
    <3>4. PreparedAt(r, k)'
      BY <1>0, <3>2, <3>3, <3>1 DEF PreparedAt
    <3> QED
      BY <1>a, <2>0, <3>1, <3>3, <3>4
  <2>2. CASE Split(r)
    <3> DEFINE c == IF color(r) THEN k ELSE Null
               n == IF color(r) THEN SplitSize(nproc[r][k]) ELSE nproc[r][k]
    <3>1. /\ k \in 1..N /\ pc[r] = "validate" /\ nproc[r][k] # Unset /\ pc' = pc
          /\ color(r) => nproc[r][k] = SplitSize(nproc[r][k])
      BY <2>0, <2>2 DEF Split, CallsSplit
    <3>2. nproc[r][k] = nproc_option[k]
      BY <1>0, <2>0, <3>1 DEF Prepared
    <3>3. n = nproc_option[k] /\ c = IF r < nproc_option[k] THEN k ELSE Null
      BY <2>0, <3>1, <3>2 DEF color
    <3>4. /\ com' = [com EXCEPT ![r][k] = c] /\ nproc' = [nproc EXCEPT ![r][k] = n]
          /\ at' = [at EXCEPT ![r] = k + 1]
      BY <2>0, <2>2 DEF Split
    <3> HIDE DEF c, n
    <3>5. /\ at'[r] = k + 1 /\ com'[r][k] = c /\ nproc'[r][k] = n
          /\ \A q \in Ranks : q # r => UNCHANGED <<at[q], com[q], nproc[q]>>
          /\ \A j \in 1..N : j # k => UNCHANGED <<com[r][j], nproc[r][j]>>
      BY <1>0, <3>1, <3>4 DEF Types
    <3>6. PreparedAt(r, k)'
      <4>1. nproc_option'[k] # Unset
        BY <1>0, <3>1, <3>2
      <4>2. nproc'[r][k] = nproc_option'[k]
            /\ com'[r][k] = IF r < nproc_option'[k] THEN k ELSE Null
        BY <1>0, <3>3, <3>5
      <4> QED
        BY <4>1, <4>2 DEF PreparedAt
    <3> QED
      BY <1>a, <2>0, <3>1, <3>5, <3>6
  <2>3. CASE CannotSplit(r)
    BY <1>0, <1>b, <2>3 DEF CannotSplit, Goto, Types
  <2>4. CASE Validated(r)
    BY <1>0, <1>b, <2>4 DEF Validated, Goto, Types
  <2>5. CASE StandAside(r) \/ CallPfind(r)
    BY <1>0, <1>b, <2>5 DEF StandAside, CallPfind, Goto, Types
  <2>6. CASE SendErrors(r) \/ SendMonitor(r) \/ SendReturns(r)
    BY <1>0, <1>b, <2>6 DEF SendErrors, SendMonitor, SendReturns, Goto, Types
  <2> QED
    BY <1>1, <2>1, <2>2, <2>3, <2>4, <2>5, <2>6 DEF Local
<1>2. CASE ReceiveErrors \/ ReceiveMonitor \/ ReturnResult
  BY <1>0, <1>b, <1>2, RankFacts DEF ReceiveErrors, ReceiveMonitor, ReturnResult, Goto, Types
<1>3. ASSUME NEW k \in 1..N, NEW failed \in SUBSET Members(k), PfindFind(k, failed)
      PROVE  Prepared'
  <2>1. \A q \in Members(k) : q \in Ranks /\ pc[q] = "find"
    BY <1>3 DEF PfindFind, AllIn, Members
  <2>2. \A q \in Ranks : \/ pc'[q] = pc[q] /\ at'[q] = at[q]
                         \/ pc[q] = "find" /\ pc'[q] \notin {"validate", "exited"}
    BY <1>3, <2>1 DEF PfindFind
  <2> QED
    BY <1>b, <1>3, <2>2 DEF PfindFind
<1>4. ASSUME NEW k \in 1..N, Aggregate(k) PROVE Prepared'
  <2>1. \A q \in Members(k) : q \in Ranks /\ pc[q] = "aggregate"
    BY <1>4 DEF Aggregate, AllIn, Members
  <2>2. \A q \in Ranks : \/ pc'[q] = pc[q] /\ at'[q] = at[q]
                         \/ pc[q] = "aggregate" /\ pc'[q] \notin {"validate", "exited"}
    BY <1>4, <2>1 DEF Aggregate
  <2> QED
    BY <1>b, <1>4, <2>2 DEF Aggregate
<1>5. CASE UNCHANGED vars
  BY <1>b, <1>5 DEF vars
<1> QED
  BY <1>1, <1>2, <1>3, <1>4, <1>5, NextCases

LEMMA Frame ==
  ASSUME [Next]_vars
  PROVE  nproc_option' = nproc_option /\ N' = N
BY NextCases
   DEF Local, UseWorld, Split, CannotSplit, Validated, StandAside, CallPfind, SendErrors,
       SendMonitor, SendReturns, ReceiveErrors, ReceiveMonitor, ReturnResult, PfindFind,
       Aggregate, vars, prepared, N

LEMMA StepExits == FindInv /\ [Next]_vars => Exits'
<1> SUFFICES ASSUME FindInv, [Next]_vars PROVE Exits'
  OBVIOUS
<1> USE DEF prepared, collected
<1>0. Types /\ Types' /\ Exits /\ Prepared /\ nproc_option' = nproc_option /\ N' = N /\ N \in Nat
  BY Frame, StepTypes, SectionFacts DEF FindInv, Types
\* No rank changes the section it is at in validate(), nor exits there.
<1>a. ASSUME \A q \in Ranks : pc[q] \in {"validate", "exited"} => at[q] = N + 1 \/
                                (pc'[q] = pc[q] /\ at'[q] = at[q]),
             \A q \in Ranks : pc'[q] = "exited" => pc[q] = "exited" /\ at'[q] = at[q]
      PROVE  Exits'
  <2>1. ASSUME NEW k \in 1..N, nproc_option[k] > Size, NEW q \in Ranks
        PROVE  pc'[q] \in {"validate", "exited"} /\ at'[q] <= k
    <3>1. pc[q] \in {"validate", "exited"} /\ at[q] <= k /\ at[q] # N + 1
      BY <1>0, <2>1 DEF Exits
    <3> QED
      BY <1>a, <3>1
  <2>2. ASSUME NEW q \in Ranks, pc'[q] = "exited"
        PROVE  at'[q] <= N /\ nproc_option[at'[q]] > Size
    BY <1>0, <1>a, <2>2 DEF Exits
  <2> QED
    BY <1>0, <2>1, <2>2 DEF Exits
<1>1. ASSUME NEW r \in Ranks, Local(r) PROVE Exits'
  <2>0. at[r] \in 1..(N + 1) /\ r \in Nat /\ 0 < Size /\ r < Size
    BY <1>0, RankFacts, SizeAssumption DEF Types
  \* One more section is prepared: it does not ask for too many.
  <2>a. ASSUME pc' = pc, pc[r] = "validate", at[r] \in 1..N, at' = [at EXCEPT ![r] = at[r] + 1],
               ~ (nproc_option[at[r]] > Size)
        PROVE  Exits'
    <3>1. ASSUME NEW k \in 1..N, nproc_option[k] > Size, NEW q \in Ranks
          PROVE  pc'[q] \in {"validate", "exited"} /\ at'[q] <= k
      <4>1. pc[q] \in {"validate", "exited"} /\ at[q] <= k /\ k # at[r] /\ at[q] \in Nat
        BY <1>0, <2>a, <3>1 DEF Exits, Types
      <4> QED
        BY <1>0, <2>a, <3>1, <4>1 DEF Types
    <3>2. ASSUME NEW q \in Ranks, pc'[q] = "exited"
          PROVE  at'[q] <= N /\ nproc_option[at'[q]] > Size
      BY <1>0, <2>a, <3>2 DEF Exits, Types
    <3> QED
      BY <1>0, <3>1, <3>2 DEF Exits
  <2>1. CASE UseWorld(r)
    <3>1. /\ pc' = pc /\ pc[r] = "validate" /\ at[r] \in 1..N
          /\ at' = [at EXCEPT ![r] = at[r] + 1] /\ nproc[r][at[r]] = Unset
      BY <2>0, <2>1 DEF UseWorld
    <3>2. nproc_option[at[r]] = Unset
      BY <1>0, <2>0, <3>1 DEF Prepared
    <3>3. ~ (nproc_option[at[r]] > Size)
      BY <3>2, SizeAssumption DEF Unset
    <3> QED
      BY <2>a, <3>1, <3>3
  <2>2. CASE Split(r)
    <3>1. /\ pc' = pc /\ pc[r] = "validate" /\ at[r] \in 1..N
          /\ at' = [at EXCEPT ![r] = at[r] + 1]
          /\ color(r) => nproc[r][at[r]] = SplitSize(nproc[r][at[r]])
      BY <2>0, <2>2 DEF Split, CallsSplit
    <3>2. nproc[r][at[r]] = nproc_option[at[r]] /\ nproc_option[at[r]] \in Int
      BY <1>0, <2>0, <3>1, SectionFacts DEF Prepared, Types, Unset
    <3>3. ~ (nproc_option[at[r]] > Size)
      BY <2>0, <3>1, <3>2, SizeAssumption DEF color, SplitSize
    <3> QED
      BY <2>a, <3>1, <3>3
  <2>3. CASE CannotSplit(r)
    <3>1. /\ pc[r] = "validate" /\ at[r] \in 1..N /\ at' = at /\ color(r)
          /\ pc' = [pc EXCEPT ![r] = "exited"]
          /\ nproc[r][at[r]] # SplitSize(nproc[r][at[r]])
      BY <2>0, <2>3 DEF CannotSplit, CallsSplit, Goto
    <3>2. nproc[r][at[r]] = nproc_option[at[r]] /\ nproc_option[at[r]] \in Int
      BY <1>0, <2>0, <3>1, SectionFacts DEF Prepared, Types, Unset
    <3>3. nproc_option[at[r]] > Size
      BY <2>0, <3>1, <3>2, SizeAssumption DEF color, SplitSize
    <3>4. \A q \in Ranks : pc'[q] = IF q = r THEN "exited" ELSE pc[q]
      BY <1>0, <3>1 DEF Types
    <3>5. \A k \in 1..N : nproc_option[k] > Size =>
            \A q \in Ranks : pc'[q] \in {"validate", "exited"} /\ at'[q] <= k
      BY <1>0, <3>1, <3>4 DEF Exits
    <3>6. \A q \in Ranks : pc'[q] = "exited" => at'[q] <= N /\ nproc_option[at'[q]] > Size
      BY <1>0, <3>1, <3>3, <3>4 DEF Exits
    <3> QED
      BY <1>0, <3>5, <3>6 DEF Exits
  <2>4. CASE Validated(r)
    <3>1. /\ at[r] = N + 1 /\ pc'[r] = "ready"
          /\ \A q \in Ranks : q # r => pc'[q] = pc[q] /\ at'[q] = at[q]
      BY <1>0, <2>4 DEF Validated, Goto, Types
    <3>2. \A q \in Ranks : pc[q] \in {"validate", "exited"} =>
            at[q] = N + 1 \/ (pc'[q] = pc[q] /\ at'[q] = at[q])
      BY <3>1
    <3>3. \A q \in Ranks : pc'[q] = "exited" => pc[q] = "exited" /\ at'[q] = at[q]
      BY <3>1
    <3> QED
      BY <1>a, <3>2, <3>3
  <2>5. CASE StandAside(r) \/ CallPfind(r)
    BY <1>0, <1>a, <2>5 DEF StandAside, CallPfind, Goto, Types
  <2>6. CASE SendErrors(r) \/ SendMonitor(r) \/ SendReturns(r)
    BY <1>0, <1>a, <2>6 DEF SendErrors, SendMonitor, SendReturns, Goto, Types
  <2> QED
    BY <1>1, <2>1, <2>2, <2>3, <2>4, <2>5, <2>6 DEF Local
<1>2. CASE ReceiveErrors \/ ReceiveMonitor \/ ReturnResult
  BY <1>0, <1>a, <1>2, RankFacts DEF ReceiveErrors, ReceiveMonitor, ReturnResult, Goto, Types
<1>3. ASSUME NEW k \in 1..N, NEW failed \in SUBSET Members(k), PfindFind(k, failed)
      PROVE  Exits'
  <2>1. \A q \in Members(k) : q \in Ranks /\ pc[q] = "find"
    BY <1>3 DEF PfindFind, AllIn, Members
  <2> QED
    BY <1>a, <1>3, <2>1 DEF PfindFind
<1>4. ASSUME NEW k \in 1..N, Aggregate(k) PROVE Exits'
  <2>1. \A q \in Members(k) : q \in Ranks /\ pc[q] = "aggregate"
    BY <1>4 DEF Aggregate, AllIn, Members
  <2> QED
    BY <1>a, <1>4, <2>1 DEF Aggregate
<1>5. CASE UNCHANGED vars
  BY <1>a, <1>5 DEF vars
<1> QED
  BY <1>1, <1>2, <1>3, <1>4, <1>5, NextCases

LEMMA StepOrder == FindInv /\ [Next]_vars => Order'
<1> SUFFICES ASSUME FindInv, [Next]_vars PROVE Order'
  OBVIOUS
<1> USE DEF prepared, collected
<1>0. Types /\ Types' /\ Exits /\ Order /\ N' = N /\ N \in Nat /\ 0 \in Ranks
  BY Frame, StepTypes, SectionFacts, RankFacts DEF FindInv, Types
<1>b. \A q \in Ranks : at[q] \in 1..(N + 1) /\ at'[q] \in 1..(N + 1)
  BY <1>0 DEF Types
<1>t. pc \in [Ranks -> States] /\ at \in [Ranks -> 1..(N + 1)]
  BY <1>0 DEF Types
<1>c. \A r, q \in Ranks : pc[r] \notin {"validate", "exited"} => pc[q] # "exited"
  BY <1>0, SectionFacts DEF Exits, Types
\* Only rank r moves, in validate().
<1>d. ASSUME NEW r \in Ranks, pc[r] = "validate",
             pc'[r] \in {"validate", "exited"} \/ (pc'[r] = "ready" /\ at'[r] = 1),
             \A q \in Ranks : q # r => pc'[q] = pc[q] /\ at'[q] = at[q]
      PROVE  Order'
  <2>1. \A q \in Ranks : pc[q] \notin Searching /\ (pc[q] = "ready" => at[q] = 1)
    BY <1>0, <1>b, <1>d DEF Order
  <2>2. \A q \in Ranks : pc'[q] \notin Searching /\ (pc'[q] = "ready" => at'[q] = 1)
    BY <1>d, <2>1 DEF Searching, Sending
  <2> QED
    BY <2>2 DEF Order, Searching, Sending
\* Only rank r moves, and stays at its section.
<1>e. ASSUME NEW r \in Ranks, com' = com, at' = at, pc[r] \in Searching, pc'[r] \in Searching,
             IF r = 0 THEN pc'[r] \notin Sending ELSE pc'[r] \notin {"row", "monitor"},
             \A q \in Ranks : q # r => pc'[q] = pc[q]
      PROVE  Order'
  BY <1>0, <1>e DEF Order, Searching, Sending
\* Rank r is through with its section.
<1>f. ASSUME NEW r \in Ranks, com' = com, at'[r] = at[r] + 1, pc'[r] = "ready",
             \A q \in Ranks : pc[q] # "validate" /\ at[q] >= at[r],
             \A q \in Ranks : q # r => pc'[q] = pc[q] /\ at'[q] = at[q]
      PROVE  Order'
  <2>1. \A q \in Ranks : pc'[q] # "validate" /\ at'[q] >= at[q]
    BY <1>b, <1>f
  <2>2. ASSUME NEW q \in Ranks, q # r
        PROVE  /\ pc'[q] \in Searching => /\ at'[q] <= N' /\ com'[q][at'[q]] # Null
                                          /\ \A p \in Ranks : pc'[p] # "validate" /\ at'[p] >= at'[q]
               /\ pc'[q] = "ready" /\ at'[q] > 1 =>
                    \A p \in Ranks : pc'[p] # "validate" /\ at'[p] >= at'[q] - 1
               /\ IF q = 0 THEN pc'[q] \notin Sending ELSE pc'[q] \notin {"row", "monitor"}
    BY <1>0, <1>b, <1>f, <2>1, <2>2 DEF Order
  <2>3. \A p \in Ranks : pc'[p] # "validate" /\ at'[p] >= at'[r] - 1
    BY <1>b, <1>f, <2>1
  <2> QED
    BY <1>f, <2>2, <2>3 DEF Order, Searching, Sending
<1>1. ASSUME NEW r \in Ranks, Local(r) PROVE Order'
  <2>1. CASE UseWorld(r) \/ Split(r) \/ CannotSplit(r) \/ Validated(r)
    <3>1. /\ pc[r] = "validate" /\ \A q \in Ranks : q # r => pc'[q] = pc[q] /\ at'[q] = at[q]
          /\ pc'[r] \in {"validate", "exited"} \/ (pc'[r] = "ready" /\ at'[r] = 1)
      <4>1. CASE UseWorld(r) \/ Split(r)
        BY <1>t, <4>1 DEF UseWorld, Split, CallsSplit
      <4>2. CASE CannotSplit(r)
        BY <1>t, <4>2 DEF CannotSplit, Goto
      <4>3. CASE Validated(r)
        BY <1>t, <4>3 DEF Validated, Goto
      <4> QED
        BY <2>1, <4>1, <4>2, <4>3
    <3> QED
      BY <1>d, <3>1
  <2>2. CASE StandAside(r)
    BY <1>0, <1>f, <2>2 DEF StandAside, LoopBarrier, Types
  <2>3. CASE CallPfind(r)
    <3>1. /\ com' = com /\ at' = at /\ pc[r] = "ready" /\ pc'[r] = "find" /\ at[r] <= N
          /\ com[r][at[r]] # Null /\ \A q \in Ranks : pc[q] # "validate" /\ at[q] >= at[r]
          /\ \A q \in Ranks : q # r => pc'[q] = pc[q]
      BY <1>0, <2>3 DEF CallPfind, LoopBarrier, Goto, Types
    <3> QED
      BY <1>0, <3>1 DEF Order, Searching, Sending
  <2>4. CASE SendErrors(r) \/ SendMonitor(r)
    <3>1. /\ com' = com /\ at' = at /\ pc[r] \in Sending /\ pc'[r] \in Sending
          /\ \A q \in Ranks : q # r => pc'[q] = pc[q]
      BY <1>0, <2>4 DEF SendErrors, SendMonitor, Goto, Types, Sending
    <3> QED
      BY <1>0, <1>e, <3>1 DEF Order, Sending, Searching
  <2>5. CASE SendReturns(r)
    <3>1. CASE pc[r] = "errors_sent"
      <4>1. /\ com' = com /\ at' = at /\ pc'[r] = "send_monitor"
            /\ \A q \in Ranks : q # r => pc'[q] = pc[q]
        BY <1>0, <2>5, <3>1 DEF SendReturns, Goto, Types
      <4> QED
        BY <1>0, <1>e, <3>1, <4>1 DEF Order, Sending, Searching
    <3>2. CASE pc[r] # "errors_sent"
      <4>1. /\ com' = com /\ at'[r] = at[r] + 1 /\ pc[r] = "monitor_sent" /\ pc'[r] = "ready"
            /\ \A q \in Ranks : q # r => pc'[q] = pc[q] /\ at'[q] = at[q]
        BY <1>0, <2>5, <3>2 DEF SendReturns, Goto, Types
      <4> QED
        BY <1>0, <1>f, <4>1 DEF Order, Sending, Searching
    <3> QED
      BY <3>1, <3>2
  <2> QED
    BY <1>1, <2>1, <2>2, <2>3, <2>4, <2>5 DEF Local
<1>2. CASE ReceiveErrors \/ ReceiveMonitor
  <2>1. /\ com' = com /\ at' = at /\ pc[0] \in {"row", "monitor"} /\ pc'[0] \in {"row", "monitor"}
        /\ \A q \in Ranks : q # 0 => pc'[q] = pc[q]
    BY <1>0, <1>2 DEF ReceiveErrors, ReceiveMonitor, Goto, Types
  <2> QED
    BY <1>0, <1>e, <2>1 DEF Searching, Sending
<1>3. CASE ReturnResult
  <2>1. /\ com' = com /\ at'[0] = at[0] + 1 /\ pc[0] = "row" /\ pc'[0] = "ready"
        /\ \A q \in Ranks : q # 0 => pc'[q] = pc[q] /\ at'[q] = at[q]
    BY <1>0, <1>3 DEF ReturnResult, Goto, Types
  <2> QED
    BY <1>0, <1>f, <2>1 DEF Order, Searching
<1>4. ASSUME NEW k \in 1..N, NEW failed \in SUBSET Members(k), PfindFind(k, failed)
      PROVE  Order'
  <2>1. \A q \in Members(k) : q \in Ranks /\ pc[q] = "find" /\ at[q] = k /\ com[q][k] # Null
    BY <1>4 DEF PfindFind, AllIn, Members
  <2>2. \A q \in Ranks : pc[q] # "validate" /\ at[q] >= k
    <3>1. PICK m \in Members(k) : TRUE
      BY <1>4 DEF PfindFind, AllIn
    <3> QED
      BY <1>0, <2>1, <3>1 DEF Order, Searching
  <2>3. /\ com' = com
        /\ \A q \in Ranks :
             /\ q \in failed => pc'[q] = "ready" /\ at'[q] = k + 1
             /\ q \in Members(k) \ failed => pc'[q] = "aggregate" /\ at'[q] = k
             /\ q \notin Members(k) => pc'[q] = pc[q] /\ at'[q] = at[q]
    BY <1>4, <2>1 DEF PfindFind
  <2>4. \A q \in Ranks : pc'[q] # "validate" /\ at'[q] >= k /\ at'[q] >= at[q]
    BY <1>b, <2>1, <2>2, <2>3
  <2>5. ASSUME NEW q \in Ranks, q \notin Members(k)
        PROVE  /\ pc'[q] \in Searching => /\ at'[q] <= N' /\ com'[q][at'[q]] # Null
                                          /\ \A p \in Ranks : pc'[p] # "validate" /\ at'[p] >= at'[q]
               /\ pc'[q] = "ready" /\ at'[q] > 1 =>
                    \A p \in Ranks : pc'[p] # "validate" /\ at'[p] >= at'[q] - 1
               /\ IF q = 0 THEN pc'[q] \notin Sending ELSE pc'[q] \notin {"row", "monitor"}
    BY <1>0, <1>b, <2>3, <2>4, <2>5 DEF Order
  <2>6. ASSUME NEW q \in Members(k) \ failed
        PROVE  /\ pc'[q] = "aggregate" /\ at'[q] <= N' /\ com'[q][at'[q]] # Null
               /\ \A p \in Ranks : pc'[p] # "validate" /\ at'[p] >= at'[q]
    BY <1>0, <2>1, <2>3, <2>4
  <2>7. ASSUME NEW q \in failed
        PROVE  pc'[q] = "ready" /\ \A p \in Ranks : pc'[p] # "validate" /\ at'[p] >= at'[q] - 1
    BY <1>0, <1>b, <2>1, <2>3, <2>4
  <2> QED
    BY <2>5, <2>6, <2>7 DEF Order, Searching, Sending
<1>5. ASSUME NEW k \in 1..N, Aggregate(k) PROVE Order'
  <2>1. \A q \in Members(k) : q \in Ranks /\ pc[q] = "aggregate" /\ at[q] = k
    BY <1>5 DEF Aggregate, AllIn, Members
  <2>2. /\ com' = com /\ at' = at
        /\ \A q \in Ranks :
             /\ q \in Members(k) => pc'[q] = IF q = 0 THEN "row" ELSE "send_errors"
             /\ q \notin Members(k) => pc'[q] = pc[q]
    BY <1>5 DEF Aggregate
  <2> QED
    BY <1>0, <2>1, <2>2 DEF Order, Searching, Sending
<1>6. CASE UNCHANGED vars
  BY <1>0, <1>6 DEF vars, Order
<1> QED
  BY <1>1, <1>2, <1>3, <1>4, <1>5, <1>6, NextCases

-------------------------------------------------------------------------------
\* While rank 0 collects, it does so for the only search there is.
LEMMA CollectFacts ==
  ASSUME FindInv, Collecting
  PROVE  /\ at[0] \in 1..N /\ com[0][at[0]] \in Coms /\ nproc[0][at[0]] \in 1..Size
         /\ \A q \in Ranks : pc[q] # "validate" /\ at[q] >= at[0]
         /\ Members(at[0]) = {r \in Ranks : r < nproc[0][at[0]]}
         /\ \A m \in Members(at[0]) : com[m][at[0]] = com[0][at[0]]
         /\ \A m \in Ranks : pc[m] \in Sending =>
              m \in Others /\ at[m] = at[0] /\ com[m][at[m]] = com[0][at[0]]
         /\ \A m \in Ranks : pc[m] = "ready" /\ at[0] >= at[m] => m \notin Others
         /\ Len(csv) \in Nat
<1>0. Types /\ Order /\ Stages /\ 0 \in Ranks /\ N \in Nat
  BY RankFacts, SectionFacts DEF FindInv, Types
<1>1. /\ at[0] \in 1..N /\ com[0][at[0]] # Null /\ pc[0] # "exited"
      /\ \A q \in Ranks : pc[q] # "validate" /\ at[q] >= at[0]
  BY <1>0 DEF Order, Types, Collecting, Searching
<1>2. /\ Members(at[0]) = {r \in Ranks : r < nproc[0][at[0]]} /\ nproc[0][at[0]] \in 0..Size
      /\ \A m \in Members(at[0]) : com[m][at[0]] = com[0][at[0]] /\ com[m][at[0]] \in Coms
  BY <1>1, MembersFacts
<1>3. 0 \in Members(at[0])
  BY <1>0, <1>1 DEF Members
<1>4. nproc[0][at[0]] \in 1..Size
  BY <1>2, <1>3
<1>5. ASSUME NEW m \in Ranks, pc[m] \in Sending
      PROVE  m \in Others /\ at[m] = at[0] /\ com[m][at[m]] = com[0][at[0]]
  <2>1. /\ at[m] \in Nat /\ at[0] \in Nat /\ at[0] >= at[m] /\ com[m][at[m]] # Null /\ m # 0
    BY <1>0, <1>5 DEF Order, Types, Searching
  <2>2. at[m] = at[0] /\ m \in Members(at[0])
    BY <1>1, <2>1 DEF Members
  <2> QED
    BY <1>2, <2>1, <2>2 DEF Others
<1>6. ASSUME NEW m \in Ranks, pc[m] = "ready", at[0] >= at[m] PROVE m \notin Others
  <2>1. at[m] \in Nat /\ at[0] \in Nat
    BY <1>0 DEF Types
  <2> QED
    BY <1>0, <1>6, <2>1 DEF Stages, Collecting, Sending
<1>7. Len(csv) \in Nat
  BY <1>0 DEF Types
<1> QED
  BY <1>1, <1>2, <1>3, <1>4, <1>5, <1>6, <1>7

\* Where nobody collects, before and after a step, nothing is in transit.
LEMMA NotCollecting ==
  ASSUME FindInv, ~ Collecting, ~ Collecting', channel' = channel
  PROVE  Transit'
BY DEF FindInv, Transit, Expected

\* A step that leaves alone what rank 0 collects and who has sent what.
LEMMA Aside ==
  ASSUME FindInv, Collecting, UNCHANGED <<com, nproc, hits, channel, csv, received>>,
         pc'[0] = pc[0], at'[0] = at[0],
         \A m \in Others : \/ pc'[m] = pc[m] /\ at'[m] = at[m]
                           \/ pc[m] = "errors_sent" /\ pc'[m] = "send_monitor" /\ at'[m] = at[m]
                           \/ pc[m] = "monitor_sent" /\ pc'[m] = "ready" /\ at'[m] = at[m] + 1
  PROVE  Stages' /\ Transit' /\ Rows'
<1>0. /\ Types /\ Stages /\ Transit /\ Rows
      /\ \A m \in Others : m \in Ranks /\ at[m] \in Nat
  BY DEF FindInv, Others, Members, Types
<1>1. /\ Collecting' /\ Others' = Others /\ Members(at[0])' = Members(at[0])
      /\ com'[0][at'[0]] = com[0][at[0]] /\ nproc'[0][at'[0]] = nproc[0][at[0]]
      /\ at[0] \in Nat
  BY CollectFacts DEF Collecting, Others, Members
<1>2. \A m \in Others : pc[m] \in Sending => at[m] = at[0]
  BY <1>0, CollectFacts
<1>3. \A m \in Others : \A tag \in {Errors, Monitor} :
        /\ Sent(m, tag)' = Sent(m, tag) /\ Got(m, tag)' = Got(m, tag)
  <2>1. ASSUME NEW m \in Others, NEW tag \in {Errors, Monitor} PROVE Sent(m, tag)' = Sent(m, tag)
    <3>1. pc[m] \in {"errors_sent", "monitor_sent"} => at[m] = at[0]
      BY <1>2 DEF Sending
    <3> QED
      BY <1>0, <1>1, <3>1 DEF Sent, Errors, Monitor
  <2> QED
    BY <2>1 DEF Got
<1>4. Stages'
  BY <1>0, <1>1, <1>2 DEF Stages, Sending
<1>5. Transit'
  BY <1>0, <1>1, <1>3 DEF Transit, Expected, Counts, Types
<1>6. Rows'
  BY <1>0, <1>1, <1>3 DEF Rows, Counts
<1> QED
  BY <1>4, <1>5, <1>6

\* A step that lets no rank begin to send or to collect.
LEMMA Idle ==
  ASSUME FindInv, ~ Collecting, pc'[0] \notin {"aggregate", "row", "monitor"},
         channel' = channel,
         \A m \in Ranks : pc'[m] \in Sending => pc'[m] = pc[m] /\ at'[m] = at[m],
         at'[0] >= at[0], at[0] \in Nat, at'[0] \in Nat, \A m \in Ranks : at[m] \in Nat
  PROVE  Stages' /\ Transit' /\ Rows'
<1>1. ~ Collecting'
  BY DEF Collecting
<1>2. Stages'
  BY <1>1 DEF FindInv, Stages
<1>3. Rows'
  BY <1>1 DEF Rows, Collecting
<1> QED
  BY <1>1, <1>2, <1>3, NotCollecting

\* SendErrors and SendMonitor: rank r sends with a tag what it has not yet sent.
LEMMA Sends ==
  ASSUME FindInv, NEW r \in Ranks, NEW tag \in {Errors, Monitor}, Types',
         pc[r] = IF tag = Errors THEN "send_errors" ELSE "send_monitor",
         pc' = [pc EXCEPT ![r] = IF tag = Errors THEN "errors_sent" ELSE "monitor_sent"],
         Send(r, tag), UNCHANGED <<com, nproc, at, hits, received, csv>>
  PROVE  Stages' /\ Transit' /\ Rows'
<1>0. /\ Types /\ Order /\ Stages /\ Transit /\ Rows /\ pc[r] \in Sending
      /\ \A m \in Ranks : at[m] \in Nat
  BY DEF FindInv, Types, Sending
<1>1. Collecting
  BY <1>0, RankFacts DEF Stages
<1>2. /\ r \in Others /\ r # 0 /\ at[r] = at[0] /\ com[r][at[r]] = com[0][at[0]]
      /\ com[0][at[0]] \in Coms
  BY <1>0, <1>1, CollectFacts DEF Others
<1>3. /\ Collecting' /\ Others' = Others /\ Members(at[0])' = Members(at[0])
      /\ com'[0][at'[0]] = com[0][at[0]] /\ nproc'[0][at'[0]] = nproc[0][at[0]]
      /\ pc'[0] = pc[0] /\ pc'[r] = IF tag = Errors THEN "errors_sent" ELSE "monitor_sent"
      /\ \A m \in Ranks : m # r => pc'[m] = pc[m]
  BY <1>0, <1>1, <1>2, RankFacts DEF Collecting, Others, Members, Types
<1>4. /\ ~ Sent(r, tag) /\ Sent(r, tag)'
      /\ \A m \in Ranks : \A t \in {Errors, Monitor} : <<m, t>> # <<r, tag>> =>
           Sent(m, t)' = Sent(m, t)
      /\ \A m \in Ranks : \A t \in {Errors, Monitor} : Got(m, t)' = Got(m, t)
  <2>1. ~ Sent(r, tag) /\ Sent(r, tag)'
    BY <1>0, <1>2, <1>3 DEF Sent, Errors, Monitor
  <2>2. ASSUME NEW m \in Ranks, NEW t \in {Errors, Monitor}, <<m, t>> # <<r, tag>>
        PROVE  Sent(m, t)' = Sent(m, t)
    BY <1>0, <1>3, <2>2 DEF Sent, Errors, Monitor
  <2> QED
    BY <1>3, <2>1, <2>2 DEF Got
<1>5. ~ Got(r, tag)
  BY <1>0, <1>1, <1>2, <1>4 DEF Rows
<1>6. Stages'
  BY <1>0, <1>1, <1>2, <1>3 DEF Stages, Sending
<1>7. Transit'
  <2> DEFINE d == <<r, com[0][at[0]], tag>>
  <2>1. /\ d \in DOMAIN channel /\ DOMAIN channel' = DOMAIN channel
        /\ channel' = [channel EXCEPT ![d] = Append(@, Counts(at[0], r))]
    BY <1>0, <1>2 DEF Types, Send
  <2>2. Expected(d) = <<>> /\ Expected(d)' = << Counts(at[0], r) >>
    BY <1>1, <1>2, <1>3, <1>4, <1>5 DEF Expected, Counts
  <2>3. ASSUME NEW c \in DOMAIN channel, c # d PROVE Expected(c)' = Expected(c)
    <3>1. c[1] \in Ranks /\ c[3] \in {Errors, Monitor} /\ c = <<c[1], c[2], c[3]>>
      BY <1>0 DEF Types
    <3>2. c[2] = com[0][at[0]] => <<c[1], c[3]>> # <<r, tag>>
      BY <2>3, <3>1
    <3> QED
      BY <1>1, <1>3, <1>4, <3>1, <3>2 DEF Expected, Counts
  <2>4. channel'[d] = << Counts(at[0], r) >>
    <3>1. channel[d] = <<>>
      BY <1>0, <2>1, <2>2 DEF Transit
    <3>2. channel'[d] = Append(<<>>, Counts(at[0], r))
      BY <2>1, <3>1
    <3> QED
      BY <3>2
  <2>5. \A c \in DOMAIN channel : c # d => channel'[c] = Expected(c)'
    BY <1>0, <2>1, <2>3 DEF Transit
  <2> QED
    BY <2>1, <2>2, <2>4, <2>5 DEF Transit
<1>8. Rows'
  <2>1. /\ hits' \subseteq Members(at[0])' /\ Len(csv) \in 1..nproc[0][at[0]]
        /\ \A j \in 1..Len(csv) : csv[j] = <<Counts(at[0], j - 1), Counts(at[0], j - 1)>>
        /\ \A m \in Others : \A t \in {Errors, Monitor} : Got(m, t) => Sent(m, t)
        /\ pc[0] = "monitor" => Len(csv) < nproc[0][at[0]] /\ received = Counts(at[0], Len(csv))
    BY <1>0, <1>1, <1>3 DEF Rows
  <2>2. \A m \in Others : \A t \in {Errors, Monitor} : Got(m, t)' => Sent(m, t)'
    BY <1>4, <2>1 DEF Others, Members
  <2> QED
    BY <1>3, <2>1, <2>2 DEF Rows, Counts
<1> QED
  BY <1>6, <1>7, <1>8

\* Rank 0 receives a message with a tag from the process whose row comes next.
LEMMA Receives ==
  ASSUME FindInv, Types', NEW tag \in {Errors, Monitor}, NEW m0, m0 = source, RowsMissing,
         Receive(tag),
         pc[0] = IF tag = Errors THEN "row" ELSE "monitor",
         pc' = [pc EXCEPT ![0] = IF tag = Errors THEN "monitor" ELSE "row"],
         UNCHANGED <<com, nproc, at, hits>>
  PROVE  /\ m0 \in Others /\ Sent(m0, tag)
         /\ Head(channel[Pending(tag)]) = Counts(at[0], m0)
         /\ \A m \in Others : pc'[m] = pc[m] /\ at'[m] = at[m]
         /\ Collecting /\ Collecting' /\ Others' = Others
         /\ Members(at[0])' = Members(at[0])
         /\ Stages'
         /\ (csv' = IF tag = Errors THEN csv
                    ELSE Append(csv, <<received, Counts(at[0], m0)>>)) => Transit'
<1>0. Types /\ Order /\ Stages /\ Transit /\ Rows /\ Collecting /\ 0 \in Ranks
  BY RankFacts DEF FindInv, Collecting
<1>1. m0 \in Others /\ com[0][at[0]] \in Coms /\ m0 \in Ranks
  <2>1. m0 \in 1..(nproc[0][at[0]] - 1) /\ nproc[0][at[0]] \in 1..Size
    BY <1>0, CollectFacts DEF Rows, RowsMissing, source
  <2>2. m0 \in Ranks
    BY <2>1, SizeAssumption DEF Ranks
  <2> QED
    BY <1>0, <2>1, <2>2, CollectFacts DEF Others
<1>2. Pending(tag) = <<m0, com[0][at[0]], tag>> /\ Pending(tag) \in DOMAIN channel
  BY <1>0, <1>1 DEF Pending, Types
<1>3. /\ channel[Pending(tag)] = << Counts(at[0], m0) >> /\ Sent(m0, tag)
  BY <1>0, <1>2 DEF Transit, Expected, Receive
<1>4. /\ \A m \in Ranks : m # 0 => pc'[m] = pc[m] /\ at'[m] = at[m]
      /\ Collecting' /\ Others' = Others /\ Members(at[0])' = Members(at[0])
      /\ pc'[0] = IF tag = Errors THEN "monitor" ELSE "row"
      /\ com'[0][at'[0]] = com[0][at[0]]
  BY <1>0 DEF Types, Collecting, Others, Members
<1>5. Stages'
  BY <1>0, <1>4 DEF Stages, Others, Members
<1>6. ASSUME csv' = IF tag = Errors THEN csv
                    ELSE Append(csv, <<received, Counts(at[0], m0)>>)
      PROVE  Transit'
  <2> DEFINE d == <<m0, com[0][at[0]], tag>>
  <2>1. /\ d \in DOMAIN channel /\ DOMAIN channel' = DOMAIN channel
        /\ channel' = [channel EXCEPT ![d] = Tail(@)]
    BY <1>0, <1>2 DEF Types, Receive
  <2>2. Len(csv') = IF tag = Errors THEN Len(csv) ELSE Len(csv) + 1
    BY <1>0, <1>6 DEF Types
  <2>3. /\ Got(m0, tag)' /\ Len(csv) \in Nat
        /\ \A m \in Ranks : \A t \in {Errors, Monitor} : <<m, t>> # <<m0, tag>> =>
             Got(m, t)' = Got(m, t) \/ m = 0
        /\ \A m \in Ranks : \A t \in {Errors, Monitor} : m # 0 => Sent(m, t)' = Sent(m, t)
    <3>0. Len(csv) \in Nat /\ Ranks \subseteq Nat /\ m0 = Len(csv)
      BY <1>0, RankFacts DEF Types, source
    <3>1. Got(m0, tag)'
      BY <1>4, <2>2, <3>0 DEF Got
    <3>2. ASSUME NEW m \in Ranks, NEW t \in {Errors, Monitor}, <<m, t>> # <<m0, tag>>
          PROVE  Got(m, t)' = Got(m, t)
      <4>1. CASE tag = Errors
        BY <1>4, <2>2, <3>0, <3>2, <4>1 DEF Got, Errors, Monitor
      <4>2. CASE tag = Monitor
        BY <1>4, <2>2, <3>0, <3>2, <4>2 DEF Got, Errors, Monitor
      <4> QED
        BY <4>1, <4>2
    <3>3. ASSUME NEW m \in Ranks, NEW t \in {Errors, Monitor}, m # 0
          PROVE  Sent(m, t)' = Sent(m, t)
      BY <1>4, <3>3 DEF Sent
    <3> QED
      BY <3>0, <3>1, <3>2, <3>3
  <2>4. Expected(d)' = <<>>
    BY <2>3 DEF Expected
  <2>5. ASSUME NEW c \in DOMAIN channel, c # d PROVE Expected(c)' = Expected(c)
    <3>1. c[1] \in Ranks /\ c[3] \in {Errors, Monitor} /\ c = <<c[1], c[2], c[3]>>
      BY <1>0 DEF Types
    <3>2. c[2] = com[0][at[0]] => <<c[1], c[3]>> # <<m0, tag>>
      BY <2>5, <3>1
    <3>3. 0 \notin Others
      BY DEF Others
    <3> QED
      BY <1>0, <1>4, <2>3, <3>1, <3>2, <3>3 DEF Expected, Counts
  <2>6. channel'[d] = <<>>
    <3> DEFINE x == Counts(at[0], m0)
    <3>1. channel'[d] = Tail(<< x >>)
      BY <1>2, <1>3, <2>1
    <3> HIDE DEF x
    <3>2. Tail(<< x >>) = <<>>
      OBVIOUS
    <3> QED
      BY <3>1, <3>2
  <2>7. \A c \in DOMAIN channel : c # d => channel'[c] = Expected(c)'
    BY <1>0, <2>1, <2>5 DEF Transit
  <2> QED
    BY <2>1, <2>4, <2>6, <2>7 DEF Transit
<1> QED
  BY <1>0, <1>1, <1>3, <1>4, <1>5, <1>6 DEF Others, Members

LEMMA StepMessages == FindInv /\ [Next]_vars => Stages' /\ Transit' /\ Rows'
<1> SUFFICES ASSUME FindInv, [Next]_vars PROVE Stages' /\ Transit' /\ Rows'
  OBVIOUS
<1> USE DEF prepared, collected
<1>0. /\ Types /\ Types' /\ Order /\ Stages /\ Transit /\ Rows /\ N' = N /\ N \in Nat /\ 0 \in Ranks
      /\ \A m \in Ranks : at[m] \in Nat /\ at'[m] \in Nat
  <2>1. Types /\ Types' /\ Order /\ Stages /\ Transit /\ Rows /\ N' = N /\ 0 \in Ranks
    BY Frame, StepTypes, RankFacts DEF FindInv
  <2>2. N \in Nat
    BY <2>1, SectionFacts DEF Types
  <2>3. \A m \in Ranks : at[m] \in 1..(N + 1) /\ at'[m] \in 1..(N + 1)
    BY <2>1 DEF Types
  <2> QED
    BY <2>1, <2>2, <2>3
<1>t. pc \in [Ranks -> States] /\ at \in [Ranks -> 1..(N + 1)]
  BY <1>0 DEF Types
<1>1. ASSUME NEW r \in Ranks, Local(r) PROVE Stages' /\ Transit' /\ Rows'
  <2>1. CASE UseWorld(r) \/ Split(r) \/ CannotSplit(r) \/ Validated(r)
    <3>1. /\ pc[r] = "validate" /\ channel' = channel
          /\ pc'[r] \in {"validate", "exited", "ready"}
          /\ \A q \in Ranks : q # r => pc'[q] = pc[q] /\ at'[q] = at[q]
          /\ \A q \in Ranks : at[q] = 1 \/ pc[q] # "ready"
      <4>1. CASE UseWorld(r) \/ Split(r)
        BY <1>0, <1>t, <4>1 DEF UseWorld, Split, CallsSplit, Order
      <4>2. CASE CannotSplit(r)
        BY <1>0, <1>t, <4>2 DEF CannotSplit, CallsSplit, Goto, Order
      <4>3. CASE Validated(r)
        BY <1>0, <1>t, <4>3 DEF Validated, Goto, Order
      <4> QED
        BY <2>1, <4>1, <4>2, <4>3
    <3>2. \A q \in Ranks : pc[q] \notin Searching
      BY <1>0, <3>1 DEF Order
    <3>3. \A q \in Ranks : pc'[q] \notin Searching
      BY <3>1, <3>2 DEF Searching, Sending
    <3>4. ~ Collecting /\ ~ Collecting' /\ pc'[0] # "aggregate"
      BY <1>0, <3>2, <3>3 DEF Collecting, Searching
    <3>5. Stages' /\ Rows'
      BY <3>3, <3>4 DEF Stages, Rows, Searching, Collecting
    <3> QED
      BY <3>1, <3>4, <3>5, NotCollecting
  <2>2. CASE StandAside(r) \/ CallPfind(r)
    <3>1. /\ pc[r] = "ready" /\ channel' = channel /\ LoopBarrier(r)
          /\ pc'[r] \in {"ready", "find"}
          /\ UNCHANGED <<com, nproc, hits, csv, received>>
          /\ \A q \in Ranks : q # r => pc'[q] = pc[q] /\ at'[q] = at[q]
          /\ at'[r] >= at[r]
      BY <1>0, <1>t, <2>2 DEF StandAside, CallPfind, Goto
    <3>2. CASE Collecting
      <4>1. r # 0 /\ r \notin Others
        BY <1>0, <3>1, <3>2, CollectFacts DEF Collecting, LoopBarrier
      <4>2. \A m \in Others : pc'[m] = pc[m] /\ at'[m] = at[m]
        BY <3>1, <4>1 DEF Others, Members
      <4> QED
        BY <1>0, <3>1, <3>2, <4>1, <4>2, Aside
    <3>3. CASE ~ Collecting /\ pc[0] # "aggregate"
      <4>1. pc'[0] \notin {"aggregate", "row", "monitor"}
        BY <1>0, <3>1, <3>3 DEF Collecting
      <4>2. /\ \A m \in Ranks : pc'[m] \in Sending => pc'[m] = pc[m] /\ at'[m] = at[m]
            /\ at'[0] >= at[0]
        BY <1>0, <3>1 DEF Sending
      <4> QED
        BY <1>0, <3>1, <3>3, <4>1, <4>2, Idle
    <3>4. CASE pc[0] = "aggregate"
      <4>1. /\ ~ Collecting /\ r # 0 /\ pc'[0] = "aggregate" /\ at'[0] = at[0] /\ ~ Collecting'
            /\ Members(at[0])' = Members(at[0])
        BY <1>0, <3>1, <3>4 DEF Collecting, Members
      <4>2. Stages'
        BY <1>0, <3>1, <4>1 DEF Stages, Sending
      <4>3. Rows'
        BY <1>0, <3>1, <3>4, <4>1 DEF Rows, Collecting
      <4> QED
        BY <3>1, <4>1, <4>2, <4>3, NotCollecting
    <3> QED
      BY <3>2, <3>3, <3>4
  <2>3. CASE SendErrors(r)
    <3>1. /\ pc[r] = "send_errors" /\ pc' = [pc EXCEPT ![r] = "errors_sent"] /\ Send(r, Errors)
          /\ UNCHANGED <<com, nproc, at, hits, received, csv>>
      BY <2>3 DEF SendErrors, Goto
    <3> QED
      BY <1>0, <3>1, Sends
  <2>4. CASE SendMonitor(r)
    <3>1. /\ pc[r] = "send_monitor" /\ pc' = [pc EXCEPT ![r] = "monitor_sent"] /\ Send(r, Monitor)
          /\ UNCHANGED <<com, nproc, at, hits, received, csv>>
      BY <2>4 DEF SendMonitor, Goto
    <3>2. Errors # Monitor
      BY DEF Errors, Monitor
    <3> QED
      BY <1>0, <3>1, <3>2, Sends
  <2>5. CASE SendReturns(r)
    <3>1. /\ pc[r] \in Sending /\ r # 0 /\ channel' = channel
          /\ UNCHANGED <<com, nproc, hits, csv, received>>
          /\ \A q \in Ranks : q # r => pc'[q] = pc[q] /\ at'[q] = at[q]
          /\ \/ pc[r] = "errors_sent" /\ pc'[r] = "send_monitor" /\ at'[r] = at[r]
             \/ pc[r] = "monitor_sent" /\ pc'[r] = "ready" /\ at'[r] = at[r] + 1
      <4>1. pc[r] \in Sending /\ r # 0
        BY <1>0, <2>5 DEF SendReturns, Goto, Order, Sending
      <4>2. \A q \in Ranks : q # r => pc'[q] = pc[q] /\ at'[q] = at[q]
        BY <1>0, <1>t, <2>5 DEF SendReturns, Goto
      <4>3. \/ pc[r] = "errors_sent" /\ pc'[r] = "send_monitor" /\ at'[r] = at[r]
            \/ pc[r] = "monitor_sent" /\ pc'[r] = "ready" /\ at'[r] = at[r] + 1
        BY <1>0, <1>t, <2>5 DEF SendReturns, Goto
      <4> QED
        BY <2>5, <4>1, <4>2, <4>3 DEF SendReturns
    <3>2. CASE Collecting
      <4>1. \A m \in Others :
              \/ pc'[m] = pc[m] /\ at'[m] = at[m]
              \/ pc[m] = "errors_sent" /\ pc'[m] = "send_monitor" /\ at'[m] = at[m]
              \/ pc[m] = "monitor_sent" /\ pc'[m] = "ready" /\ at'[m] = at[m] + 1
        BY <3>1 DEF Others, Members
      <4> QED
        BY <1>0, <3>1, <3>2, <4>1, Aside
    <3>3. CASE ~ Collecting
      <4>1. pc[r] = "monitor_sent" /\ pc'[r] = "ready"
        BY <1>0, <3>1, <3>3 DEF Stages
      <4>2. ~ Collecting' /\ pc'[0] = pc[0] /\ at'[0] = at[0] /\ Members(at[0])' = Members(at[0])
        BY <1>0, <3>1, <3>3 DEF Collecting, Members
      <4>3. Stages'
        BY <1>0, <3>1, <3>3, <4>1, <4>2 DEF Stages, Sending
      <4>4. Rows'
        BY <1>0, <3>1, <3>3, <4>2 DEF Rows, Collecting
      <4> QED
        BY <3>1, <3>3, <4>2, <4>3, <4>4, NotCollecting
    <3> QED
      BY <3>2, <3>3
  <2> QED
    BY <1>1, <2>1, <2>2, <2>3, <2>4, <2>5 DEF Local
<1>2. CASE ReceiveErrors
  <2> DEFINE m0 == source
  <2>1. /\ m0 \in Others /\ Sent(m0, Errors) /\ received' = Counts(at[0], m0)
        /\ \A m \in Others : pc'[m] = pc[m] /\ at'[m] = at[m]
        /\ Others' = Others /\ Members(at[0])' = Members(at[0]) /\ Stages' /\ Transit'
    BY <1>0, <1>2, Receives DEF ReceiveErrors, Goto
  <2>2. /\ at' = at /\ com' = com /\ nproc' = nproc /\ csv' = csv /\ hits' = hits
        /\ pc[0] = "row" /\ pc'[0] = "monitor" /\ Len(csv) < nproc[0][at[0]]
        /\ Len(csv) = m0
    BY <1>0, <1>2 DEF ReceiveErrors, Goto, RowsMissing, source, Types
  <2>3. ASSUME NEW m \in Others, NEW tag \in {Errors, Monitor}, Got(m, tag)'
        PROVE  Sent(m, tag)'
    <3>1. Got(m, tag) \/ (m = m0 /\ tag = Errors)
      BY <2>2, <2>3 DEF Got
    <3>2. Sent(m, tag)
      BY <1>0, <2>1, <2>2, <3>1 DEF Rows, Collecting
    <3> QED
      BY <2>1, <2>2, <3>2 DEF Sent
  <2>4. Rows'
    BY <1>0, <2>1, <2>2, <2>3 DEF Rows, Collecting, Counts
  <2> QED
    BY <2>1, <2>4
<1>3. CASE ReceiveMonitor
  <2> DEFINE m0 == source
  <2>1. /\ at' = at /\ com' = com /\ nproc' = nproc /\ hits' = hits /\ received' = received
        /\ pc[0] = "monitor" /\ pc'[0] = "row" /\ Len(csv) < nproc[0][at[0]]
        /\ Len(csv) = m0 /\ Receive(Monitor) /\ Len(csv) \in Nat
        /\ pc' = [pc EXCEPT ![0] = "row"]
    BY <1>0, <1>3 DEF ReceiveMonitor, Goto, Rows, source, Types
  <2>2. /\ m0 \in Others /\ Sent(m0, Monitor)
        /\ Head(channel[Pending(Monitor)]) = Counts(at[0], m0)
        /\ \A m \in Others : pc'[m] = pc[m] /\ at'[m] = at[m]
        /\ Others' = Others /\ Members(at[0])' = Members(at[0]) /\ Stages'
        /\ csv' = Append(csv, <<received, Counts(at[0], m0)>>) => Transit'
    BY <1>0, <2>1, Receives DEF RowsMissing, source, Errors, Monitor
  <2>3. csv' = Append(csv, <<received, Counts(at[0], m0)>>)
    BY <1>3, <2>2 DEF ReceiveMonitor
  <2>4. received = Counts(at[0], m0)
    BY <1>0, <2>1 DEF Rows
  <2>5. /\ Len(csv') = Len(csv) + 1
        /\ \A j \in 1..Len(csv) : csv'[j] = csv[j]
        /\ csv'[Len(csv) + 1] = <<Counts(at[0], m0), Counts(at[0], m0)>>
    BY <1>0, <2>3, <2>4 DEF Types
  <2>6. ASSUME NEW j \in 1..Len(csv')
        PROVE  csv'[j] = <<Counts(at[0], j - 1), Counts(at[0], j - 1)>>
    BY <1>0, <2>1, <2>5 DEF Rows, Collecting
  <2>7. ASSUME NEW m \in Others, NEW tag \in {Errors, Monitor}, Got(m, tag)'
        PROVE  Sent(m, tag)'
    <3>0. m \in Nat
      BY RankFacts DEF Others, Members
    <3>1. Got(m, tag) \/ (m = m0 /\ tag = Monitor)
      BY <2>1, <2>5, <2>7, <3>0 DEF Got, Errors, Monitor
    <3>2. Sent(m, tag)
      BY <1>0, <2>1, <2>2, <3>1 DEF Rows, Collecting
    <3> QED
      BY <2>1, <2>2, <3>2 DEF Sent
  <2>8. Len(csv') \in 1..nproc[0][at[0]] /\ hits \subseteq Members(at[0])
    BY <1>0, <2>1, <2>5, CollectFacts DEF Rows, Collecting, FindInv
  <2>9. Rows'
    BY <2>1, <2>2, <2>6, <2>7, <2>8 DEF Rows, Collecting, Counts
  <2> QED
    BY <2>2, <2>3, <2>9
<1>4. CASE ReturnResult
  <2>1. /\ Collecting /\ pc[0] = "row" /\ pc'[0] = "ready" /\ ~ Collecting' /\ at'[0] = at[0] + 1
        /\ channel' = channel /\ Len(csv) >= nproc[0][at[0]]
        /\ \A q \in Ranks : q # 0 => pc'[q] = pc[q] /\ at'[q] = at[q]
    <3>1. Len(csv) \in Nat /\ nproc[0][at[0]] \in Nat
      BY <1>4, CollectFacts DEF ReturnResult, Goto, Collecting
    <3>2. ~ (Len(csv) < nproc[0][at[0]])
      BY <1>4 DEF ReturnResult, RowsMissing, source
    <3> QED
      BY <1>0, <1>t, <1>4, <3>1, <3>2 DEF ReturnResult, Goto, Collecting
  <2>2. \A m \in Others : \A tag \in {Errors, Monitor} : Got(m, tag) /\ Sent(m, tag)
    <3>0. /\ Others = {r \in Ranks : r < nproc[0][at[0]]} \ {0}
          /\ nproc[0][at[0]] \in 1..Size /\ Len(csv) \in Nat
      BY <2>1, CollectFacts DEF Others
    <3>1. ASSUME NEW m \in Others PROVE m < Len(csv)
      <4>1. m \in Nat /\ m < nproc[0][at[0]]
        BY <3>0, RankFacts
      <4>2. nproc[0][at[0]] <= Len(csv) /\ nproc[0][at[0]] \in Nat /\ Len(csv) \in Nat
        BY <2>1, <3>0, SizeAssumption
      <4> QED
        BY <4>1, <4>2
    <3> QED
      BY <1>0, <2>1, <3>1 DEF Got, Rows
  <2>3. \A c \in DOMAIN channel : channel[c] = <<>>
    <3>1. ASSUME NEW c \in DOMAIN channel PROVE c[3] \in {Errors, Monitor}
      BY <1>0 DEF Types
    <3> QED
      BY <1>0, <2>2, <3>1 DEF Transit, Expected
  <2>4. \A m \in Ranks : pc'[m] \in Sending => pc'[m] = "monitor_sent" /\ at'[m] < at'[0]
    <3>1. ASSUME NEW m \in Ranks, pc'[m] \in Sending
          PROVE  pc'[m] = "monitor_sent" /\ at'[m] < at'[0]
      <4>1. m # 0 /\ m \in Others /\ at[m] = at[0] /\ pc[m] \in Sending
        BY <2>1, <3>1, CollectFacts DEF Sending
      <4>2. pc[m] = "monitor_sent"
        BY <1>0, <2>2, <4>1 DEF Sent, Errors, Monitor
      <4> QED
        BY <1>0, <2>1, <4>1, <4>2
    <3> QED
      BY <3>1
  <2>5. Transit'
    BY <2>1, <2>3 DEF Transit, Expected
  <2>6. Stages' /\ Rows'
    BY <2>1, <2>4 DEF Stages, Rows, Collecting
  <2> QED
    BY <2>5, <2>6
<1>5. ASSUME NEW k \in 1..N, NEW failed \in SUBSET Members(k), PfindFind(k, failed)
      PROVE  Stages' /\ Transit' /\ Rows'
  <2>1. /\ \A q \in Members(k) : q \in Ranks /\ pc[q] = "find" /\ at[q] = k
        /\ Members(k) # {}
    BY <1>5 DEF PfindFind, AllIn, Members
  <2>2. /\ \A q \in Ranks : pc[q] # "validate"
        /\ pc[0] # "exited"
    <3>1. PICK m \in Members(k) : TRUE
      BY <2>1
    <3>2. \A q \in Ranks : pc[q] # "validate"
      BY <1>0, <2>1, <3>1 DEF Order, Searching
    <3>3. ASSUME pc[0] = "exited" PROVE FALSE
      <4>1. at[0] \in 1..N /\ nproc_option[at[0]] > Size
        <5>1. at[0] \in 1..(N + 1)
          BY <1>0, <1>t
        <5> QED
          BY <1>0, <3>3, <5>1 DEF FindInv, Exits
      <4>2. pc[m] \in {"validate", "exited"}
        BY <2>1, <3>1, <4>1 DEF FindInv, Exits
      <4> QED
        BY <2>1, <3>1, <4>2
    <3> QED
      BY <3>2, <3>3
  <2>3. 0 \in Members(k)
    BY <2>1, <2>2, MembersFacts
  <2>4. /\ com' = com /\ channel' = channel /\ hits' \subseteq Members(k) \ failed
        /\ \A q \in Ranks :
             /\ q \in failed => pc'[q] = "ready" /\ at'[q] = k + 1
             /\ q \in Members(k) \ failed => pc'[q] = "aggregate" /\ at'[q] = k
             /\ q \notin Members(k) => pc'[q] = pc[q] /\ at'[q] = at[q]
    BY <1>5, <2>1 DEF PfindFind
  <2>5. /\ ~ Collecting /\ ~ Collecting' /\ pc'[0] \in {"ready", "aggregate"} /\ at'[0] >= at[0]
        /\ pc'[0] = "aggregate" => at'[0] = k
    BY <1>0, <2>1, <2>3, <2>4 DEF Collecting
  <2>6. Stages'
    <3>1. ASSUME NEW m \in Ranks, pc'[m] \in Sending
          PROVE  pc'[m] = "monitor_sent" /\ at'[m] < at'[0]
      <4>1. pc'[m] = pc[m] /\ at'[m] = at[m]
        BY <2>4, <3>1 DEF Sending
      <4> QED
        BY <1>0, <2>5, <3>1, <4>1 DEF Stages
    <3> QED
      BY <2>5, <3>1 DEF Stages
  <2>7. Rows'
    BY <2>4, <2>5 DEF Rows, Collecting, Members
  <2> QED
    BY <2>4, <2>5, <2>6, <2>7, NotCollecting
<1>6. ASSUME NEW k \in 1..N, Aggregate(k) PROVE Stages' /\ Transit' /\ Rows'
  <2>1. /\ \A q \in Members(k) : q \in Ranks /\ pc[q] = "aggregate" /\ at[q] = k
        /\ Members(k) # {}
    BY <1>6 DEF Aggregate, AllIn, Members
  <2>2. /\ \A q \in Ranks : pc[q] # "validate"
        /\ pc[0] # "exited"
    <3>1. PICK m \in Members(k) : TRUE
      BY <2>1
    <3>2. \A q \in Ranks : pc[q] # "validate"
      BY <1>0, <2>1, <3>1 DEF Order, Searching
    <3>3. ASSUME pc[0] = "exited" PROVE FALSE
      <4>1. at[0] \in 1..N /\ nproc_option[at[0]] > Size
        <5>1. at[0] \in 1..(N + 1)
          BY <1>0, <1>t
        <5> QED
          BY <1>0, <3>3, <5>1 DEF FindInv, Exits
      <4>2. pc[m] \in {"validate", "exited"}
        BY <2>1, <3>1, <4>1 DEF FindInv, Exits
      <4> QED
        BY <2>1, <3>1, <4>2
    <3> QED
      BY <3>2, <3>3
  <2>3. /\ 0 \in Members(k) /\ nproc[0][k] \in Nat
        /\ Members(k) = {r \in Ranks : r < nproc[0][k]}
    BY <2>1, <2>2, MembersFacts
  <2>4. /\ com' = com /\ nproc' = nproc /\ at' = at /\ channel' = channel /\ hits' = hits
        /\ pc'[0] = "row" /\ pc[0] = "aggregate" /\ at[0] = k
        /\ \A q \in Ranks : q \in Members(k) \ {0} => pc'[q] = "send_errors" /\ at[q] = k
        /\ csv' = << <<Counts(k, 0), Counts(k, 0)>> >>
    BY <1>0, <1>6, <2>1, <2>3 DEF Aggregate
  <2>5. /\ ~ Collecting /\ Collecting' /\ Members(at[0])' = Members(k) /\ Others' = Members(k) \ {0}
    BY <1>0, <2>4 DEF Collecting, Others, Members
  <2>6. \A m \in Members(k) \ {0} : \A tag \in {Errors, Monitor} :
          ~ Sent(m, tag)' /\ ~ Got(m, tag)'
    <3>1. ASSUME NEW m \in Members(k) \ {0}, NEW tag \in {Errors, Monitor}
          PROVE  ~ Sent(m, tag)' /\ ~ Got(m, tag)'
      <4>0. Len(csv') = 1
        <5> DEFINE x == <<Counts(k, 0), Counts(k, 0)>>
        <5>1. csv' = << x >>
          BY <2>4
        <5> HIDE DEF x
        <5> QED
          BY <5>1
      <4>1. m \in Ranks /\ m \in Nat /\ m # 0 /\ Len(csv') = 1 /\ k \in Nat
        <5>1. m \in Ranks /\ m # 0 /\ k \in Nat
          BY <1>0, <2>1, <3>1
        <5> QED
          BY <4>0, <5>1, RankFacts
      <4>2. ~ Sent(m, tag)'
        BY <2>4, <3>1, <4>1 DEF Sent
      <4> QED
        BY <2>4, <4>1, <4>2 DEF Got
    <3> QED
      BY <3>1
  <2>7. Stages'
    BY <2>1, <2>4, <2>5 DEF Stages, Sending
  <2>8. Transit'
    <3>1. ASSUME NEW c \in DOMAIN channel' PROVE c[3] \in {Errors, Monitor} /\ c \in DOMAIN channel
      BY <1>0, <2>4 DEF Types
    <3>2. \A c \in DOMAIN channel : channel[c] = <<>>
      BY <1>0, <2>5 DEF Transit, Expected
    <3> QED
      BY <2>4, <2>5, <2>6, <3>1, <3>2 DEF Transit, Expected
  <2>9. Rows'
    <3>1. hits' \subseteq Members(k)
      BY <1>0, <2>4 DEF Rows
    <3>2. Len(csv') \in 1..nproc[0][k] /\ Len(csv') = 1
      <4> DEFINE x == <<Counts(k, 0), Counts(k, 0)>>
      <4>1. csv' = << x >>
        BY <2>4
      <4> HIDE DEF x
      <4>2. 0 < nproc[0][k]
        BY <2>3
      <4> QED
        BY <2>3, <4>1, <4>2
    <3>3. \A j \in 1..Len(csv') : csv'[j] = <<Counts(k, j - 1), Counts(k, j - 1)>>
      BY <2>4, <3>2
    <3> QED
      BY <2>4, <2>5, <2>6, <3>1, <3>2, <3>3 DEF Rows, Collecting, Counts
  <2> QED
    BY <2>7, <2>8, <2>9
<1>7. CASE UNCHANGED vars
  BY <1>0, <1>7 DEF vars, Stages, Transit, Rows, Expected, Sent, Got, Counts, Collecting, Others,
     Members
<1> QED
  BY <1>1, <1>2, <1>3, <1>4, <1>5, <1>6, <1>7, NextCases

LEMMA StepReported == FindInv /\ [Next]_vars => Reported'
<1> SUFFICES ASSUME FindInv, [Next]_vars PROVE Reported'
  OBVIOUS
<1> USE DEF prepared, collected
<1>0. Types /\ Reported /\ 0 \in Ranks /\ at[0] \in Nat /\ reports \in Seq(Result)
  <2>1. Types /\ Reported /\ 0 \in Ranks /\ N \in Nat
    BY RankFacts, SectionFacts DEF FindInv, Types
  <2> QED
    BY <2>1 DEF Types
<1>t. pc \in [Ranks -> States] /\ at \in [Ranks -> 1..(N + 1)]
  BY <1>0 DEF Types
\* Rank 0 is not through with a section.
<1>a. ASSUME reports' = reports,
             pc'[0] \in {"validate", "exited"} <=> pc[0] \in {"validate", "exited"},
             pc'[0] \notin {"validate", "exited"} => at'[0] = at[0]
      PROVE  Reported'
  BY <1>0, <1>a DEF Reported
\* Rank 0 is through with a section, and has its result.
<1>b. ASSUME NEW x \in Result, reports' = Append(reports, x), at'[0] = at[0] + 1,
             pc[0] \notin {"validate", "exited"}, pc'[0] \notin {"validate", "exited"}
      PROVE  Reported'
  <2>1. Len(reports') = Len(reports) + 1
    BY <1>0, <1>b
  <2> QED
    BY <1>0, <1>b, <2>1 DEF Reported
<1>1. ASSUME NEW r \in Ranks, Local(r) PROVE Reported'
  <2>1. CASE UseWorld(r) \/ Split(r)
    <3>1. pc[r] = "validate" /\ pc' = pc /\ reports' = reports
          /\ \A q \in Ranks : q # r => at'[q] = at[q]
      BY <1>t, <2>1 DEF UseWorld, Split, CallsSplit
    <3> QED
      BY <1>0, <1>a, <3>1
  <2>2. CASE CannotSplit(r)
    BY <1>0, <1>t, <1>a, <2>2 DEF CannotSplit, Goto
  <2>3. CASE Validated(r)
    <3>1. /\ pc[r] = "validate" /\ pc'[r] = "ready" /\ at'[r] = 1 /\ reports' = reports
          /\ \A q \in Ranks : q # r => pc'[q] = pc[q] /\ at'[q] = at[q]
      BY <1>t, <2>3 DEF Validated, Goto
    <3>2. CASE r = 0
      BY <3>1, <3>2, <1>0 DEF Reported
    <3>3. CASE r # 0
      BY <1>0, <1>a, <3>1, <3>3
    <3> QED
      BY <3>2, <3>3
  <2>4. CASE StandAside(r)
    <3>1. /\ pc[r] = "ready" /\ pc' = pc /\ at'[r] = at[r] + 1
          /\ \A q \in Ranks : q # r => at'[q] = at[q]
          /\ reports' = IF r = 0 THEN Append(reports, Nothing) ELSE reports
      BY <1>t, <2>4 DEF StandAside
    <3> QED
      BY <1>0, <1>a, <1>b, <3>1, ResultType
  <2>5. CASE CallPfind(r)
    BY <1>0, <1>t, <1>a, <2>5 DEF CallPfind, Goto
  <2>6. CASE SendErrors(r) \/ SendMonitor(r)
    BY <1>0, <1>t, <1>a, <2>6 DEF SendErrors, SendMonitor, Goto
  <2>7. CASE SendReturns(r)
    <3>1. r # 0 /\ reports' = reports
      BY <2>7, <1>0 DEF SendReturns, Goto, FindInv, Order, Sending
    <3>2. pc'[0] = pc[0] /\ at'[0] = at[0]
      BY <1>0, <1>t, <2>7, <3>1 DEF SendReturns, Goto
    <3> QED
      BY <1>a, <3>1, <3>2
  <2> QED
    BY <1>1, <2>1, <2>2, <2>3, <2>4, <2>5, <2>6, <2>7 DEF Local
<1>2. CASE ReceiveErrors \/ ReceiveMonitor
  BY <1>0, <1>t, <1>a, <1>2 DEF ReceiveErrors, ReceiveMonitor, Goto
<1>3. CASE ReturnResult
  <2>1. [rows |-> csv, found |-> hits # {}] \in Result
    BY <1>0, ResultType DEF Types
  <2>2. /\ pc[0] = "row" /\ pc'[0] = "ready" /\ at'[0] = at[0] + 1
        /\ reports' = Append(reports, [rows |-> csv, found |-> hits # {}])
    BY <1>0, <1>t, <1>3 DEF ReturnResult, Goto
  <2> QED
    BY <1>b, <2>1, <2>2
<1>4. ASSUME NEW k \in 1..N, NEW failed \in SUBSET Members(k), PfindFind(k, failed)
      PROVE  Reported'
  <2>1. \A q \in Members(k) : pc[q] = "find" /\ at[q] = k
    BY <1>4 DEF PfindFind, AllIn
  <2>2. /\ reports' = IF 0 \in failed THEN Append(reports, Nothing) ELSE reports
        /\ \A q \in Ranks :
             /\ q \in failed => pc'[q] = "ready" /\ at'[q] = k + 1
             /\ q \notin failed => at'[q] = at[q]
             /\ q \in Members(k) \ failed => pc'[q] = "aggregate"
             /\ q \notin Members(k) => pc'[q] = pc[q]
    BY <1>4 DEF PfindFind
  <2> QED
    BY <1>0, <1>a, <1>b, <2>1, <2>2, ResultType
<1>5. ASSUME NEW k \in 1..N, Aggregate(k) PROVE Reported'
  <2>1. \A q \in Members(k) : pc[q] = "aggregate"
    BY <1>5 DEF Aggregate, AllIn
  <2>2. /\ reports' = reports /\ at' = at
        /\ \A q \in Ranks : IF q \in Members(k) THEN pc'[q] \in {"row", "send_errors"}
                            ELSE pc'[q] = pc[q]
    BY <1>5 DEF Aggregate
  <2> QED
    BY <1>0, <1>a, <2>1, <2>2
<1>6. CASE UNCHANGED vars
  BY <1>0, <1>6 DEF vars, Reported
<1> QED
  BY <1>1, <1>2, <1>3, <1>4, <1>5, <1>6, NextCases

LEMMA StepInv == FindInv /\ [Next]_vars => FindInv'
BY StepTypes, StepPrepared, StepExits, StepOrder, StepMessages, StepReported DEF FindInv

LEMMA FindInvariant == Spec => []FindInv
BY InitInv, StepInv, PTL DEF Spec

-------------------------------------------------------------------------------
\* The variables have their types, the loop over the rows has the length of the
\* communicator of the search (of->nproc is what MPI_Comm_size returned for it), and
\* rank 0 has one result for each find section it is through with.
THEOREM TypeCorrect == Spec => []TypeOK
<1>1. FindInv => TypeOK
  <2> SUFFICES ASSUME FindInv PROVE TypeOK
    OBVIOUS
  <2>1. Types /\ N \in Nat /\ 0 \in Ranks
    BY RankFacts, SectionFacts DEF FindInv, Types
  <2>2. ASSUME NEW k \in 1..N, com[0][k] # Null PROVE nproc[0][k] \in 1..Size
    <3>1. PreparedAt(0, k) /\ ~ (pc[0] \in {"validate", "exited"} /\ k >= at[0])
      BY <2>1, <2>2 DEF FindInv, Prepared
    <3>2. ~ (nproc_option[k] > Size)
      BY <2>1, <3>1 DEF FindInv, Exits, Types
    <3>3. nproc_option[k] \in Nat \cup {Unset}
      BY <2>1, SectionFacts DEF Types
    <3> QED
      BY <2>2, <3>1, <3>2, <3>3, SizeAssumption DEF PreparedAt, Unset
  <2> QED
    BY <2>1, <2>2 DEF FindInv, Types, Reported, TypeOK
<1> QED
  BY <1>1, FindInvariant, PTL

\* No find phase leaves a message for a later one: whatever is in transit was sent in
\* the search rank 0 is collecting for, while it collects, although all searches use
\* the tags 4712 and 4713 and those without nproc the same communicator.
THEOREM NothingLeftBehind == Spec => []NoMessageLeftBehind
<1>1. FindInv => NoMessageLeftBehind
  <2> SUFFICES ASSUME FindInv, NEW c \in DOMAIN channel, NEW j \in 1..Len(channel[c])
               PROVE  channel[c][j].find = at[0] /\ Collecting
    BY DEF NoMessageLeftBehind, Collecting
  <2>1. channel[c] = Expected(c)
    BY DEF FindInv, Transit
  <2>2. channel[c] # <<>>
    BY <2>1
  <2>3. Collecting /\ channel[c] = << Counts(at[0], c[1]) >>
    BY <2>1, <2>2 DEF Expected
  <2>4. j = 1 /\ channel[c][1] = Counts(at[0], c[1])
    <3> DEFINE x == Counts(at[0], c[1])
    <3>1. channel[c] = << x >>
      BY <2>3
    <3> HIDE DEF x
    <3>2. j = 1 /\ channel[c][1] = x
      BY <3>1
    <3> QED
      BY <3>2 DEF x
  <2>5. Counts(at[0], c[1]).find = at[0]
    BY DEF Counts
  <2> QED
    BY <2>3, <2>4, <2>5
<1> QED
  BY <1>1, FindInvariant, PTL

-------------------------------------------------------------------------------
\* NeverAllWait.  The members of a communicator leave pfind, and the aggregation of its
\* results, together, unless pfind returns NULL on some of them only.

Beyond(r, k) == at[r] > k /\ pc[r] \notin {"validate", "exited"}
Found(r, k)  == Beyond(r, k) \/ (at[r] = k /\ pc[r] \in {"aggregate", "row", "monitor"} \cup Sending)
Summed(r, k) == Beyond(r, k) \/ (at[r] = k /\ pc[r] \in {"row", "monitor"} \cup Sending)

Together ==
  \A k \in 1..N : \A r, q \in Members(k) : /\ Found(r, k) <=> Found(q, k)
                                           /\ Summed(r, k) <=> Summed(q, k)

\* A step after which each member of a communicator is as far as it was.
LEMMA KeepsTogether ==
  ASSUME Together, com' = com, N' = N,
         \A k \in 1..N : \A r \in Members(k) : /\ Found(r, k)' <=> Found(r, k)
                                               /\ Summed(r, k)' <=> Summed(r, k)
  PROVE  Together'
BY DEF Together, Members

\* A step in which the members of the communicator of section k, and no other ranks, get
\* further, all of them equally far.
LEMMA MovesTogether ==
  ASSUME Together, com' = com, N' = N, NEW k \in 1..N,
         \A r \in Members(k) : Found(r, k)' /\ (Summed(r, k)' <=> ~ (pc'[r] = "aggregate")),
         \A r, q \in Members(k) : pc'[r] = "aggregate" <=> pc'[q] = "aggregate",
         \A j \in 1..N : \A r \in Members(j) : j # k => /\ Found(r, j)' <=> Found(r, j)
                                                        /\ Summed(r, j)' <=> Summed(r, j)
  PROVE  Together'
BY DEF Together, Members

LEMMA StepTogether == FindInv /\ Together /\ ~ disagreed' /\ [Next]_vars => Together'
<1> SUFFICES ASSUME FindInv, Together, ~ disagreed', [Next]_vars PROVE Together'
  OBVIOUS
<1> USE DEF prepared, collected
<1>0. Types /\ Order /\ N' = N /\ N \in Nat /\ 0 \in Ranks
  BY Frame, SectionFacts, RankFacts DEF FindInv, Types
<1>b. \A q \in Ranks : at[q] \in 1..(N + 1) /\ at[q] \in Nat
  BY <1>0 DEF Types
<1>t. pc \in [Ranks -> States] /\ at \in [Ranks -> 1..(N + 1)]
  BY <1>0 DEF Types
<1>m. \A k : Members(k) \subseteq Ranks
  BY DEF Members
\* Rank r alone moves: within its section, or on from the end of it.
<1>a. ASSUME NEW r \in Ranks, com' = com, \A q \in Ranks : q # r => pc'[q] = pc[q] /\ at'[q] = at[q],
             \/ /\ at'[r] = at[r]
                /\ \/ pc[r] = "ready" /\ pc'[r] = "find"
                   \/ pc[r] \in Sending /\ pc'[r] \in Sending
                   \/ pc[r] \in {"row", "monitor"} /\ pc'[r] \in {"row", "monitor"}
             \/ /\ at'[r] = at[r] + 1 /\ pc'[r] = "ready"
                /\ \/ pc[r] \in {"monitor_sent", "row"}
                   \/ pc[r] = "ready" /\ r \notin Members(at[r])
      PROVE  Together'
  <2>1. ASSUME NEW k \in 1..N, NEW q \in Members(k), q # r
        PROVE  (Found(q, k)' <=> Found(q, k)) /\ (Summed(q, k)' <=> Summed(q, k))
    BY <1>a, <1>m, <2>1 DEF Found, Summed, Beyond
  <2>2. ASSUME NEW k \in 1..N, r \in Members(k)
        PROVE  (Found(r, k)' <=> Found(r, k)) /\ (Summed(r, k)' <=> Summed(r, k))
    BY <1>a, <1>b, <2>2 DEF Found, Summed, Beyond, Sending
  <2> QED
    BY <1>0, <1>a, <2>1, <2>2, KeepsTogether
\* A rank is in validate(): no rank has begun to search.
<1>d. ASSUME NEW r \in Ranks, pc[r] = "validate",
             pc'[r] \in {"validate", "exited"} \/ (pc'[r] = "ready" /\ at'[r] = 1),
             \A q \in Ranks : q # r => pc'[q] = pc[q] /\ at'[q] = at[q]
      PROVE  Together'
  <2>1. \A q \in Ranks : pc[q] \notin Searching /\ (pc[q] = "ready" => at[q] = 1)
    BY <1>0, <1>b, <1>d DEF Order
  <2>2. \A q \in Ranks : pc'[q] \in {"validate", "exited"} \/ (pc'[q] = "ready" /\ at'[q] = 1)
    <3>1. \A q \in Ranks : pc[q] \in {"validate", "exited", "ready"}
      BY <1>t, <2>1 DEF Searching, Sending, States
    <3> QED
      BY <1>d, <2>1, <3>1
  <2>3. \A k \in 1..N : \A q \in Ranks : ~ Found(q, k)' /\ ~ Summed(q, k)'
    BY <1>0, <2>2 DEF Found, Summed, Beyond, Sending
  <2>4. \A k : Members(k)' \subseteq Ranks
    BY DEF Members
  <2> QED
    BY <1>0, <2>3, <2>4 DEF Together
<1>1. ASSUME NEW r \in Ranks, Local(r) PROVE Together'
  <2>1. CASE UseWorld(r) \/ Split(r) \/ CannotSplit(r) \/ Validated(r)
    <3>1. CASE UseWorld(r) \/ Split(r)
      BY <1>t, <1>d, <3>1 DEF UseWorld, Split, CallsSplit
    <3>2. CASE CannotSplit(r)
      BY <1>t, <1>d, <3>2 DEF CannotSplit, Goto
    <3>3. CASE Validated(r)
      BY <1>t, <1>d, <3>3 DEF Validated, Goto
    <3> QED
      BY <2>1, <3>1, <3>2, <3>3
  <2>2. CASE StandAside(r)
    <3>1. /\ com' = com /\ pc' = pc /\ pc[r] = "ready" /\ at'[r] = at[r] + 1
          /\ \A q \in Ranks : q # r => at'[q] = at[q]
      BY <1>t, <2>2 DEF StandAside
    <3>2. r \notin Members(at[r])
      BY <2>2 DEF StandAside, Members
    <3> QED
      BY <1>a, <3>1, <3>2
  <2>3. CASE CallPfind(r)
    BY <1>t, <1>a, <2>3 DEF CallPfind, Goto
  <2>4. CASE SendErrors(r) \/ SendMonitor(r)
    <3>1. /\ com' = com /\ at' = at /\ pc[r] \in Sending /\ pc'[r] \in Sending
          /\ \A q \in Ranks : q # r => pc'[q] = pc[q]
      BY <1>t, <2>4 DEF SendErrors, SendMonitor, Goto, Sending
    <3> QED
      BY <1>a, <3>1
  <2>5. CASE SendReturns(r)
    <3>1. /\ com' = com /\ \A q \in Ranks : q # r => pc'[q] = pc[q] /\ at'[q] = at[q]
          /\ \/ at' = at /\ pc[r] \in Sending /\ pc'[r] \in Sending
             \/ at'[r] = at[r] + 1 /\ pc[r] = "monitor_sent" /\ pc'[r] = "ready"
      BY <1>t, <2>5 DEF SendReturns, Goto, Sending
    <3> QED
      BY <1>a, <3>1
  <2> QED
    BY <1>1, <2>1, <2>2, <2>3, <2>4, <2>5 DEF Local
<1>2. CASE ReceiveErrors \/ ReceiveMonitor
  <2>1. /\ com' = com /\ at' = at /\ pc[0] \in {"row", "monitor"} /\ pc'[0] \in {"row", "monitor"}
        /\ \A q \in Ranks : q # 0 => pc'[q] = pc[q]
    BY <1>0, <1>t, <1>2 DEF ReceiveErrors, ReceiveMonitor, Goto
  <2> QED
    BY <1>0, <1>a, <2>1
<1>3. CASE ReturnResult
  <2>1. /\ com' = com /\ at'[0] = at[0] + 1 /\ pc[0] = "row" /\ pc'[0] = "ready"
        /\ \A q \in Ranks : q # 0 => pc'[q] = pc[q] /\ at'[q] = at[q]
    BY <1>0, <1>t, <1>3 DEF ReturnResult, Goto
  <2> QED
    BY <1>0, <1>a, <2>1
<1>4. ASSUME NEW k \in 1..N, NEW failed \in SUBSET Members(k), PfindFind(k, failed)
      PROVE  Together'
  <2>1. com' = com /\ \A q \in Members(k) : q \in Ranks /\ pc[q] = "find" /\ at[q] = k
    BY <1>4 DEF PfindFind, AllIn, Members
  <2>2. failed \in {{}, Members(k)}
    BY <1>4 DEF PfindFind
  <2>3. \A q \in Ranks :
          /\ q \in failed => pc'[q] = "ready" /\ at'[q] = k + 1
          /\ q \in Members(k) \ failed => pc'[q] = "aggregate" /\ at'[q] = k
          /\ q \notin Members(k) => pc'[q] = pc[q] /\ at'[q] = at[q]
    BY <1>4, <2>1 DEF PfindFind
  <2>4. \A q \in Members(k) : Found(q, k)' /\ (Summed(q, k)' <=> ~ (pc'[q] = "aggregate"))
    BY <2>1, <2>2, <2>3 DEF Found, Summed, Beyond, Sending
  <2>5. ASSUME NEW j \in 1..N, NEW q \in Members(j), j # k
        PROVE  (Found(q, j)' <=> Found(q, j)) /\ (Summed(q, j)' <=> Summed(q, j))
    <3>1. CASE q \in Members(k)
      <4>1. k + 1 > j <=> k > j
        BY <1>0, <2>5
      <4>2. /\ pc[q] = "find" /\ at[q] = k
            /\ \/ pc'[q] = "ready" /\ at'[q] = k + 1
               \/ pc'[q] = "aggregate" /\ at'[q] = k
        BY <2>1, <2>3, <3>1
      <4> QED
        BY <2>5, <4>1, <4>2 DEF Found, Summed, Beyond, Sending
    <3>2. CASE q \notin Members(k)
      BY <1>m, <2>3, <2>5, <3>2 DEF Found, Summed, Beyond
    <3> QED
      BY <3>1, <3>2
  <2>6. \A q, r \in Members(k) : pc'[q] = "aggregate" <=> pc'[r] = "aggregate"
    BY <2>1, <2>2, <2>3
  <2> QED
    BY <1>0, <2>1, <2>4, <2>5, <2>6, MovesTogether
<1>5. ASSUME NEW k \in 1..N, Aggregate(k) PROVE Together'
  <2>1. com' = com /\ at' = at /\ \A q \in Members(k) : q \in Ranks /\ pc[q] = "aggregate" /\ at[q] = k
    BY <1>5 DEF Aggregate, AllIn, Members
  <2>2. \A q \in Ranks : IF q \in Members(k) THEN pc'[q] \in {"row", "send_errors"}
                         ELSE pc'[q] = pc[q]
    BY <1>5 DEF Aggregate
  <2>3. \A q \in Members(k) : Found(q, k)' /\ Summed(q, k)' /\ pc'[q] # "aggregate"
    BY <2>1, <2>2 DEF Found, Summed, Sending
  <2>4. ASSUME NEW j \in 1..N, NEW q \in Members(j), j # k
        PROVE  (Found(q, j)' <=> Found(q, j)) /\ (Summed(q, j)' <=> Summed(q, j))
    <3>1. CASE q \in Members(k)
      BY <2>1, <2>2, <2>4, <3>1 DEF Found, Summed, Beyond
    <3>2. CASE q \notin Members(k)
      BY <1>m, <2>1, <2>2, <2>4, <3>2 DEF Found, Summed, Beyond
    <3> QED
      BY <3>1, <3>2
  <2> QED
    BY <1>0, <2>1, <2>3, <2>4, MovesTogether
<1>6. CASE UNCHANGED vars
  BY <1>0, <1>6, KeepsTogether DEF vars, Found, Summed, Beyond
<1> QED
  BY <1>1, <1>2, <1>3, <1>4, <1>5, <1>6, NextCases

\* Among some ranks, one is at a section none of the others is before.
LEMMA LeastSection ==
  ASSUME Types, NEW S, S \subseteq Ranks, S # {}
  PROVE  \E r \in S : \A q \in S : at[r] <= at[q]
<1> DEFINE T == {at[q] : q \in S}
<1>1. T \subseteq Nat /\ T # {}
  BY SectionFacts DEF Types
<1>2. PICK k \in T : \A j \in T : ~ (<<j, k>> \in OpToRel(<, Nat))
  <2> HIDE DEF T
  <2> QED
    BY <1>1, NatLessThanWellFounded, WFMin
<1>3. \A j \in T : j \in Nat /\ k \in Nat /\ ~ (j < k)
  BY <1>1, <1>2 DEF OpToRel
<1>4. PICK r \in S : k = at[r]
  OBVIOUS
<1>5. ASSUME NEW q \in S PROVE at[r] <= at[q]
  <2>1. at[q] \in T
    OBVIOUS
  <2> HIDE DEF T
  <2> QED
    BY <1>3, <1>4, <2>1
<1> QED
  BY <1>5

\* In validate(), a rank that no rank is behind can go on.
LEMMA ValidateGoesOn ==
  ASSUME FindInv, \E r \in Ranks : pc[r] = "validate"
  PROVE  \E r \in Ranks : ~ Through(r) /\ ~ Waits(r)
<1>0. Types /\ Exits /\ N \in Nat /\ \A q \in Ranks : at[q] \in 1..(N + 1)
  BY SectionFacts DEF FindInv, Types
<1>1. PICK r \in {q \in Ranks : pc[q] = "validate"} :
             \A q \in {p \in Ranks : pc[p] = "validate"} : at[r] <= at[q]
  BY <1>0, LeastSection
<1>2. ASSUME NEW q \in Ranks, pc[q] = "exited" PROVE at[q] >= at[r]
  BY <1>0, <1>1, <1>2 DEF Exits
<1>3. at[r] <= N /\ nproc[r][at[r]] # Unset => CallsSplit(r)
  BY <1>0, <1>1, <1>2 DEF CallsSplit
<1> QED
  BY <1>1, <1>3 DEF Through, Waits

\* While rank 0 collects, it can receive, or the rank whose message it is in need of can
\* go on to send it.
LEMMA CollectingGoesOn ==
  ASSUME FindInv, Collecting
  PROVE  \E r \in Ranks : ~ Through(r) /\ ~ Waits(r)
<1> SUFFICES ASSUME \A r \in Ranks : Through(r) \/ Waits(r) PROVE FALSE
  OBVIOUS
<1> DEFINE m == Len(csv)
           k == at[0]
<1>0. Types /\ Stages /\ Transit /\ Rows /\ 0 \in Ranks /\ N \in Nat
  BY RankFacts, SectionFacts DEF FindInv, Types
<1>1. /\ k \in 1..N /\ com[0][k] \in Coms /\ nproc[0][k] \in 1..Size
      /\ Members(k) = {r \in Ranks : r < nproc[0][k]}
      /\ \A q \in Ranks : pc[q] \in Sending => q \in Others /\ at[q] = k /\ com[q][k] = com[0][k]
  BY CollectFacts
<1>2. Waits(0)
  BY <1>0 DEF Collecting, Through
\* The process whose row comes next has not sent the message.
<1>3. m \in Others /\ m \in Ranks
  <2>1. m \in 1..nproc[0][k] /\ m < nproc[0][k]
    BY <1>0, <1>2 DEF Waits, Collecting, Rows, RowsMissing, source
  <2>2. m \in Ranks
    BY <1>1, <2>1, SizeAssumption DEF Ranks
  <2> QED
    BY <1>1, <2>1, <2>2 DEF Others
<1> DEFINE tag == IF pc[0] = "row" THEN Errors ELSE Monitor
<1>4. tag \in {Errors, Monitor} /\ channel[<<m, com[0][k], tag>>] = <<>>
  BY <1>2 DEF Waits, Collecting, Pending, source
<1>5. ~ Got(m, tag)
  BY <1>3, RankFacts DEF Got, Errors, Monitor, Collecting
<1>6. ~ Sent(m, tag)
  <2> DEFINE c == <<m, com[0][k], tag>>
  <2>1. c \in DOMAIN channel /\ c[1] = m /\ c[2] = com[0][k] /\ c[3] = tag
    BY <1>0, <1>1, <1>3, <1>4 DEF Types
  <2>2. Expected(c) = <<>>
    BY <1>0, <1>4, <2>1 DEF Transit
  <2> HIDE DEF c, tag, m
  <2> QED
    BY <1>3, <1>5, <2>1, <2>2 DEF Expected
\* Neither is it held up by the message before.
<1>7. pc[m] \in Sending /\ at[m] = k /\ com[m][k] = com[0][k]
  BY <1>0, <1>1, <1>3, <1>6 DEF Stages, Sent
<1>8. ~ Through(m)
  BY <1>7 DEF Through, Sending
<1>9. pc[m] = "errors_sent" /\ pc[0] = "monitor" /\ ~ Taken(m, Errors)
  BY <1>3, <1>6, <1>7, <1>8, RankFacts DEF Waits, Sending, Sent, Collecting, Others
<1>10. Got(m, Errors)
  BY <1>9 DEF Got
<1>11. Taken(m, Errors)
  <2> DEFINE c == <<m, com[0][k], Errors>>
  <2>1. c \in DOMAIN channel /\ c[1] = m /\ c[3] = Errors
    BY <1>0, <1>1, <1>3 DEF Types
  <2>2. Expected(c) = <<>>
    BY <1>10, <2>1 DEF Expected
  <2>3. channel[c] = <<>>
    BY <1>0, <2>1, <2>2 DEF Transit
  <2> QED
    BY <1>7, <2>3 DEF Taken
<1> QED
  BY <1>9, <1>11

LEMMA SomebodyGoesOn == FindInv /\ (~ disagreed => Together) => NeverAllWait
<1> SUFFICES ASSUME FindInv, ~ disagreed, Together, NEW x \in Ranks, ~ Through(x),
                    \A r \in Ranks : Through(r) \/ Waits(r)
             PROVE  FALSE
  BY DEF NeverAllWait
<1>0. /\ Types /\ Exits /\ Order /\ Stages /\ Transit /\ N \in Nat /\ 0 \in Ranks
      /\ \A q \in Ranks : at[q] \in 1..(N + 1)
  BY SectionFacts, RankFacts DEF FindInv, Types
<1>1. \A q \in Ranks : pc[q] # "validate"
  BY ValidateGoesOn
<1>2. \A q \in Ranks : pc[q] # "exited"
  <2>1. pc[x] \notin {"validate", "exited"}
    BY <1>1 DEF Through
  <2> QED
    BY <1>0, <2>1, SectionFacts DEF Exits, Types
<1>3. ~ Collecting
  BY CollectingGoesOn
<1>4. \A q \in Ranks : pc[q] \notin Sending
  <2> SUFFICES ASSUME NEW q \in Ranks, pc[q] \in Sending PROVE FALSE
    OBVIOUS
  <2>1. pc[q] = "monitor_sent" /\ at[q] \in 1..N /\ com[q][at[q]] # Null
    BY <1>0, <1>3 DEF Stages, Order, Searching
  <2>2. ~ Taken(q, Monitor)
    BY <2>1 DEF Through, Waits
  <2>3. <<q, com[q][at[q]], Monitor>> \in DOMAIN channel
    BY <1>0, <2>1 DEF Types
  <2> QED
    BY <1>0, <1>3, <2>2, <2>3 DEF Transit, Expected, Taken
<1>5. \A q \in Ranks : pc[q] \in {"ready", "find", "aggregate"}
  BY <1>0, <1>1, <1>2, <1>3, <1>4, RankFacts DEF Types, States, Sending, Collecting, Order
\* The ranks at the least section: the barrier does not hold them.
<1>6. PICK r \in Ranks : \A q \in Ranks : at[r] <= at[q]
  BY <1>0, LeastSection
<1>7. at[r] <= N
  <2>1. CASE pc[x] = "ready"
    BY <1>0, <1>6, <2>1 DEF Through
  <2>2. CASE pc[x] # "ready"
    BY <1>0, <1>5, <1>6, <2>2 DEF Order, Searching
  <2> QED
    BY <2>1, <2>2
<1>8. pc[r] \in {"find", "aggregate"} /\ ~ AllIn(at[r], pc[r])
  <2>1. ~ Through(r) /\ LoopBarrier(r)
    BY <1>0, <1>1, <1>2, <1>6, <1>7 DEF Through, LoopBarrier
  <2> QED
    BY <1>1, <1>4, <1>5, <2>1 DEF Waits
\* Nor do the others of its communicator make it wait.
<1>9. r \in Members(at[r]) /\ at[r] \in 1..N
  BY <1>0, <1>7, <1>8 DEF Order, Searching, Members
<1>10. PICK q \in Members(at[r]) : at[q] # at[r] \/ pc[q] # pc[r]
  BY <1>8, <1>9 DEF AllIn
<1>11. q \in Ranks
  BY <1>10 DEF Members
<1>12. at[q] = at[r]
  <2>1. ~ Summed(r, at[r])
    BY <1>0, <1>8 DEF Summed, Beyond, Sending
  <2>2. ~ Summed(q, at[r])
    BY <1>9, <1>10, <2>1 DEF Together
  <2> QED
    BY <1>0, <1>1, <1>2, <1>6, <1>11, <2>2 DEF Summed, Beyond
<1>13. pc[q] = "ready" \/ (Found(q, at[r]) <=> pc[q] = "aggregate")
  BY <1>0, <1>5, <1>11, <1>12 DEF Found, Beyond, Sending
<1>14. pc[q] # "ready"
  <2>1. pc[q] = "ready" => ~ Through(q) /\ LoopBarrier(q)
    BY <1>0, <1>1, <1>2, <1>6, <1>7, <1>11, <1>12 DEF Through, LoopBarrier
  <2> QED
    BY <1>11, <2>1 DEF Waits
<1>15. Found(r, at[r]) <=> pc[r] = "aggregate"
  BY <1>0, <1>8 DEF Found, Beyond, Sending
<1> QED
  BY <1>5, <1>8, <1>9, <1>10, <1>11, <1>12, <1>13, <1>14, <1>15 DEF Together

LEMMA InitTogether == Init => Together
BY DEF Init, Together, Found, Summed, Beyond, Members, Sending

\* Of every run, until pfind_find() returns NULL on some ranks of a communicator only: the
\* ranks never all wait for each other in the split, the barriers, pfind and the messages,
\* even if no MPI_Send returns before its message is received.
THEOREM NoDeadlock == Spec => []NeverAllWait
<1>1. disagreed /\ [Next]_vars => disagreed'
  BY NextCases
     DEF Local, UseWorld, Split, CannotSplit, Validated, StandAside, CallPfind, SendErrors,
         SendMonitor, SendReturns, ReceiveErrors, ReceiveMonitor, ReturnResult, PfindFind,
         Aggregate, vars
<1>2. Spec => [](disagreed \/ Together)
  <2>1. FindInv /\ (disagreed \/ Together) /\ [Next]_vars => (disagreed \/ Together)'
    BY <1>1, StepTogether
  <2> QED
    BY <2>1, InitTogether, FindInvariant, PTL DEF Spec
<1>3. FindInv /\ (disagreed \/ Together) => NeverAllWait
  BY SomebodyGoesOn
<1> QED
  BY <1>2, <1>3, FindInvariant, PTL

-------------------------------------------------------------------------------
\* What Find means by the processes of each find phase of FindService.
Participants == [k \in 1..N |-> {r \in Ranks : nproc_option[k] = Unset \/ r < nproc_option[k]}]

LEMMA ParticipantsFacts ==
  ASSUME nproc_option \in Sections
  PROVE  Len(Participants) = N
<1>1. N \in Nat
  BY SectionFacts
<1>2. Participants \in [1..N -> SUBSET Ranks]
  BY DEF Participants
<1>3. Participants \in Seq(SUBSET Ranks) /\ DOMAIN Participants = 1..N
  BY <1>1, <1>2
<1> HIDE DEF Participants
<1>4. Len(Participants) \in Nat /\ DOMAIN Participants = 1..Len(Participants)
  BY <1>3, LenProperties
<1> QED
  BY <1>1, <1>3, <1>4

\* A result of rank 0 that says nothing is one the service may give.
LEMMA GivesNothing ==
  ASSUME FindInv, nproc_option' = nproc_option, pc[0] \notin {"validate", "exited"},
         at[0] <= N, reports' = Append(reports, Nothing)
  PROVE  Service!Search
<1>1. Types /\ Reported /\ N \in Nat /\ at[0] \in Nat /\ Len(Participants) = N
  <2>1. Types /\ Reported /\ N \in Nat /\ 0 \in Ranks
    BY RankFacts, SectionFacts DEF FindInv, Types
  <2> QED
    BY <2>1, ParticipantsFacts DEF Types
<1>2. Len(reports) + 1 = at[0]
  BY <1>1 DEF Reported
<1>3. Participants' = Participants
  BY DEF Participants, N
<1>4. Service!Nothing = Nothing
  BY DEF Service!Nothing, Nothing
<1> QED
  BY <1>1, <1>2, <1>3, <1>4 DEF Service!Search, Participants

\* The report rank 0 returns has the rows of all participants and no others.
LEMMA GivesReport ==
  ASSUME FindInv, nproc_option' = nproc_option, ReturnResult
  PROVE  Service!Search
<1>1. /\ Types /\ Reported /\ Rows /\ N \in Nat /\ Len(Participants) = N /\ Collecting
      /\ pc[0] = "row"
  BY SectionFacts, ParticipantsFacts DEF FindInv, Types, ReturnResult, Goto, Collecting
<1> DEFINE k == at[0]
           n == nproc[0][k]
<1>2. /\ k \in 1..N /\ n \in 1..Size /\ Members(k) = {r \in Ranks : r < n}
      /\ Len(csv) \in Nat /\ \A q \in Ranks : pc[q] # "validate"
  BY <1>1, CollectFacts
<1>3. Participants[k] = Members(k)
  BY <1>1, <1>2, MembersFacts DEF Participants
<1>4. Len(reports) + 1 = k
  <2>1. Len(reports) = k - 1
    BY <1>1 DEF Reported
  <2> QED
    BY <1>2, <2>1
<1>5. /\ hits \subseteq Participants[k] /\ 0 \in Participants[k]
      /\ \A j \in 1..Len(csv) : csv[j] = <<Counts(k, j - 1), Counts(k, j - 1)>>
  BY <1>1, <1>2, <1>3, RankFacts DEF Rows
<1>6. Len(csv) = n
  <2>1. ~ (Len(csv) < n) /\ Len(csv) \in 1..n
    BY <1>1 DEF ReturnResult, RowsMissing, source, Rows
  <2> QED
    BY <1>2, <2>1
<1>7. {m + 1 : m \in Participants[k]} = 1..n
  <2>1. ASSUME NEW m \in Participants[k] PROVE m + 1 \in 1..n
    <3>1. m \in Nat /\ m < n
      BY <1>2, <1>3, RankFacts
    <3>2. n \in Nat
      BY <1>2, SizeAssumption
    <3> QED
      BY <3>1, <3>2
  <2>2. ASSUME NEW j \in 1..n PROVE \E m \in Participants[k] : j = m + 1
    <3>1. j - 1 \in Ranks /\ j - 1 < n /\ j = (j - 1) + 1
      BY <1>2, SizeAssumption DEF Ranks
    <3> QED
      BY <1>2, <1>3, <3>1
  <2> QED
    BY <2>1, <2>2
<1>8. Service!Report(k, hits).rows = csv
  <2> DEFINE row(j) == <<Counts(k, j - 1), Counts(k, j - 1)>>
  <2>1. Service!Report(k, hits).rows = [j \in {m + 1 : m \in Participants[k]} |-> row(j)]
    BY DEF Service!Report, Service!Counts, Counts, Participants
  <2>2. csv \in [1..n -> Contribution \X Contribution]
    BY <1>1, <1>6, LenProperties DEF Types
  <2>3. \A j \in 1..n : csv[j] = row(j)
    BY <1>5, <1>6
  <2> HIDE DEF row
  <2>4. csv = [j \in 1..n |-> row(j)]
    BY <2>2, <2>3
  <2> DEFINE D == {m + 1 : m \in Participants[k]}
  <2>5. D = 1..n /\ Service!Report(k, hits).rows = [j \in D |-> row(j)]
    BY <1>7, <2>1
  <2> HIDE DEF D
  <2> QED
    BY <2>4, <2>5
<1>9. Service!Report(k, hits) = [rows |-> csv, found |-> hits # {}]
  BY <1>8 DEF Service!Report
<1>10. reports' = Append(reports, Service!Report(k, hits)) /\ Participants' = Participants
  BY <1>9 DEF ReturnResult, Participants, N
<1>11. /\ Len(reports) + 1 <= Len(Participants) /\ Participants[Len(reports) + 1] # {}
       /\ \E h \in SUBSET Participants[Len(reports) + 1] :
            reports' = Append(reports, Service!Report(Len(reports) + 1, h))
  BY <1>1, <1>2, <1>4, <1>5, <1>10
<1> QED
  BY <1>10, <1>11 DEF Service!Search, Participants

LEMMA ServiceStep == FindInv /\ FindInv' /\ [Next]_vars => [Service!Search]_Service!vars
<1> SUFFICES ASSUME FindInv, FindInv', [Next]_vars PROVE [Service!Search]_Service!vars
  OBVIOUS
<1>0. nproc_option' = nproc_option /\ Participants' = Participants
  BY Frame DEF Participants
\* Rank 0 ends no search.
<1>a. ASSUME reports' = reports PROVE [Service!Search]_Service!vars
  BY <1>0, <1>a DEF Service!vars, Participants
\* It ends one without a result.
<1>b. ASSUME reports' = Append(reports, Nothing), pc[0] \notin {"validate", "exited"}, at[0] <= N
      PROVE  [Service!Search]_Service!vars
  BY <1>0, <1>b, GivesNothing
<1>1. ASSUME NEW r \in Ranks, Local(r) PROVE [Service!Search]_Service!vars
  <2>1. CASE StandAside(r)
    BY <1>a, <1>b, <2>1 DEF StandAside
  <2>2. CASE ~ StandAside(r)
    <3>1. reports' = reports
      BY <1>1, <2>2
         DEF Local, UseWorld, Split, CannotSplit, Validated, CallPfind, SendErrors, SendMonitor,
             SendReturns, collected
    <3> QED
      BY <1>a, <3>1
  <2> QED
    BY <2>1, <2>2
<1>2. CASE ReceiveErrors \/ ReceiveMonitor
  BY <1>a, <1>2 DEF ReceiveErrors, ReceiveMonitor
<1>3. CASE ReturnResult
  BY <1>0, <1>3, GivesReport
<1>4. ASSUME NEW k \in 1..N, NEW failed \in SUBSET Members(k), PfindFind(k, failed)
      PROVE  [Service!Search]_Service!vars
  <2>1. CASE 0 \notin failed
    BY <1>a, <1>4, <2>1 DEF PfindFind
  <2>2. CASE 0 \in failed
    <3>1. pc[0] = "find" /\ at[0] = k /\ k <= N
      BY <1>4, <2>2 DEF PfindFind, AllIn, Members
    <3>2. reports' = Append(reports, Nothing)
      BY <1>4, <2>2 DEF PfindFind
    <3> QED
      BY <1>b, <3>1, <3>2
  <2> QED
    BY <2>1, <2>2
<1>5. ASSUME NEW k \in 1..N, Aggregate(k) PROVE [Service!Search]_Service!vars
  BY <1>a, <1>5 DEF Aggregate
<1>6. CASE UNCHANGED vars
  BY <1>a, <1>6 DEF vars
<1> QED
  BY <1>1, <1>2, <1>3, <1>4, <1>5, <1>6, NextCases

\* The find phases implement FindService: whatever the order in which the ranks search,
\* send and return, each result rank 0 has is that of one search of the whole job, with
\* the rows of all ranks of the communicator and of that search, or says nothing.
THEOREM ServiceImplemented == Spec => ImplementsFindService
<1>1. Init => Service!Init
  BY DEF Init, Service!Init
<1> QED
  BY <1>1, ServiceStep, FindInvariant, PTL DEF Spec, ImplementsFindService, Service!Spec

===============================================================================
