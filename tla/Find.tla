--------------------------------- MODULE Find ---------------------------------
(***************************************************************************)
(* The find phases with the built-in pfind (phase_find.c, and the same     *)
(* functions called by phase_find_easy.c and phase_find_hard.c).           *)
(* validate() splits off a communicator for each of them; run() searches   *)
(* with the ranks in it, and rank 0 collects the counters of the others    *)
(* with two messages each and writes them to a csv file.  The find phases  *)
(* without nproc all use MPI_COMM_WORLD and the same two tags, so that a   *)
(* message one of them forgets would be received by the next.              *)
(*                                                                         *)
(* External: pfind_find() and pfind_aggregrate_results() synchronise the   *)
(* ranks of the communicator; the first may return NULL.  The external     *)
(* script is in module PhaseLoop.                                          *)
(***************************************************************************)
EXTENDS Integers, Sequences

CONSTANTS
  Size,         \* the number of ranks (opt.mpi_size)
  Sections,     \* sets of find sections: sequences of values of their nproc
  MayDisagree   \* may pfind_find() return NULL on some ranks only?

Unset == -1     \* INI_UNSET_UINT in the int that holds it

ASSUME SizeAssumption     == Size \in Nat \ {0}
ASSUME SectionsAssumption == Sections \subseteq Seq(Nat \cup {Unset})
ASSUME DisagreeAssumption == MayDisagree \in BOOLEAN

Ranks == 0..(Size - 1)

\* Communicators: MPI_COMM_WORLD, MPI_COMM_NULL, and the one that the split for
\* section k yields is k.
World == 0
Null  == -1

Errors  == 4712   \* tag of the message with errors, unknown, found, total, checked
Monitor == 4713   \* tag of the message with the counters of the job stealing

VARIABLES
  nproc_option,   \* nproc of each section in the configuration
  pc,             \* where each rank is
  at,             \* the section it is at
  nproc,          \* of->nproc of each section, on each rank
  com,            \* of->pfind_com of each section, on each rank
  hits,           \* the ranks that have found something in this search
  channel,        \* messages sent and not received, by sender, communicator, tag
  received,       \* the latest errors message rank 0 has received
  csv,            \* the rows of the csv file of this search
  reports,        \* for each search rank 0 is through with, the rows and found
  disagreed       \* has pfind_find() returned NULL on some ranks only?

vars == <<nproc_option, pc, at, nproc, com, hits, channel, received, csv, reports,
          disagreed>>
prepared == <<nproc_option, nproc, com>>
collected == <<received, csv, reports>>

N       == Len(nproc_option)
Coms    == 0..N
Members(k) == {r \in Ranks : com[r][k] # Null}

\* The counters of rank m in the current search.
Counts(k, m) == [find |-> k, hit |-> m \in hits]

Nothing == [rows |-> <<>>, found |-> FALSE]

Goto(r, from, to) == /\ pc[r] = from
                     /\ pc' = [pc EXCEPT ![r] = to]

-------------------------------------------------------------------------------
Init ==
  /\ nproc_option \in Sections
  /\ pc = [r \in Ranks |-> "validate"]
  /\ at = [r \in Ranks |-> 1]
  /\ nproc = [r \in Ranks |-> nproc_option]
  /\ com = [r \in Ranks |-> [k \in 1..N |-> Null]]
  /\ hits = {}
  /\ channel = [c \in Ranks \X Coms \X {Errors, Monitor} |-> <<>>]
  /\ received = [find |-> 0, hit |-> FALSE]
  /\ csv = <<>> /\ reports = <<>>
  /\ disagreed = FALSE

UseWorld_KeepsNproc(r) ==
  LET k == at[r] IN
  /\ pc[r] = "validate" /\ k <= N /\ nproc[r][k] = Unset
  /\ com' = [com EXCEPT ![r][k] = World]
  /\ at' = [at EXCEPT ![r] = k + 1]
  /\ UNCHANGED <<nproc_option, pc, nproc, hits, channel, collected, disagreed>>

\* pfind_prepare_arguments without nproc: all ranks search.
UseWorld(r) ==
  LET k == at[r] IN
  /\ pc[r] = "validate" /\ k <= N /\ nproc[r][k] = Unset
  /\ com' = [com EXCEPT ![r][k] = World]
  /\ nproc' = [nproc EXCEPT ![r][k] = Size]
  /\ at' = [at EXCEPT ![r] = k + 1]
  /\ UNCHANGED <<nproc_option, pc, hits, channel, collected, disagreed>>

color(r) == r < nproc[r][at[r]]

\* MPI_Comm_size of the communicator of the ranks with color 1.
SplitSize(n) == IF n < Size THEN n ELSE Size

CallsSplit(r) ==
  /\ pc[r] = "validate" /\ at[r] <= N /\ nproc[r][at[r]] # Unset
  \* MPI_Comm_split is collective.
  /\ \A q \in Ranks : at[q] >= at[r] \/ pc[q] \notin {"validate", "exited"}

\* pfind_prepare_arguments with nproc: the first nproc ranks search, the others
\* free their communicator.
Split(r) ==
  LET k == at[r] IN
  /\ CallsSplit(r)
  /\ color(r) => nproc[r][k] = SplitSize(nproc[r][k])
  /\ com' = [com EXCEPT ![r][k] = IF color(r) THEN k ELSE Null]
  /\ nproc' = [nproc EXCEPT ![r][k] = IF color(r) THEN SplitSize(@) ELSE @]
  /\ at' = [at EXCEPT ![r] = k + 1]
  /\ UNCHANGED <<nproc_option, pc, hits, channel, collected, disagreed>>

\* There are fewer ranks than nproc: FATAL.
CannotSplit(r) ==
  /\ CallsSplit(r)
  /\ color(r) /\ nproc[r][at[r]] # SplitSize(nproc[r][at[r]])
  /\ Goto(r, "validate", "exited")
  /\ UNCHANGED <<prepared, at, hits, channel, collected, disagreed>>

\* The last validate() is over, the loop over the phases begins.
Validated(r) ==
  /\ at[r] = N + 1
  /\ Goto(r, "validate", "ready")
  /\ at' = [at EXCEPT ![r] = 1]
  /\ UNCHANGED <<prepared, hits, channel, collected, disagreed>>

-------------------------------------------------------------------------------
\* The barrier at the head of the phase loop lets rank r go.
LoopBarrier(r) == \A q \in Ranks : pc[q] # "validate" /\ at[q] >= at[r]

\* run() on a rank that is not in the communicator.
StandAside(r) ==
  /\ pc[r] = "ready" /\ at[r] <= N /\ LoopBarrier(r)
  /\ com[r][at[r]] = Null
  /\ at' = [at EXCEPT ![r] = @ + 1]
  /\ reports' = IF r = 0 THEN Append(reports, Nothing) ELSE reports
  /\ UNCHANGED <<prepared, pc, hits, channel, received, csv, disagreed>>

CallPfind(r) ==
  /\ at[r] <= N /\ LoopBarrier(r)
  /\ com[r][at[r]] # Null
  /\ Goto(r, "ready", "find")
  /\ UNCHANGED <<prepared, at, hits, channel, collected, disagreed>>

AllIn(k, where) ==
  /\ Members(k) # {}
  /\ \A m \in Members(k) : at[m] = k /\ pc[m] = where

\* pfind_find() ends: the ranks in failed get NULL and return from run(), the
\* others have their counters.
PfindFind(k, failed) ==
  /\ AllIn(k, "find")
  /\ failed \in {{}, Members(k)} \/ MayDisagree
  /\ disagreed' = (disagreed \/ failed \notin {{}, Members(k)})
  /\ hits' \in SUBSET (Members(k) \ failed)
  /\ pc' = [r \in Ranks |-> CASE r \in failed -> "ready"
                              [] r \in Members(k) \ failed -> "aggregate"
                              [] OTHER -> pc[r]]
  /\ at' = [r \in Ranks |-> IF r \in failed THEN k + 1 ELSE at[r]]
  /\ reports' = IF 0 \in failed THEN Append(reports, Nothing) ELSE reports
  /\ UNCHANGED <<prepared, channel, received, csv>>

\* pfind_aggregrate_results() ends.  Rank 0 opens the csv file and writes its own
\* row.
Aggregate(k) ==
  /\ AllIn(k, "aggregate")
  /\ pc' = [r \in Ranks |-> IF r \notin Members(k) THEN pc[r]
                            ELSE IF r = 0 THEN "row" ELSE "send_errors"]
  /\ csv' = << <<Counts(k, 0), Counts(k, 0)>> >>
  /\ UNCHANGED <<prepared, at, hits, channel, received, reports, disagreed>>

-------------------------------------------------------------------------------
Send(r, tag) ==
  channel' = [channel EXCEPT ![<<r, com[r][at[r]], tag>>] = Append(@, Counts(at[r], r))]

\* Nothing that rank r has sent with this tag is left to be received.
Taken(r, tag) == channel[<<r, com[r][at[r]], tag>>] = <<>>

SendErrors(r) ==
  /\ Goto(r, "send_errors", "errors_sent")
  /\ Send(r, Errors)
  /\ UNCHANGED <<prepared, at, hits, collected, disagreed>>

SendMonitor(r) ==
  /\ Goto(r, "send_monitor", "monitor_sent")
  /\ Send(r, Monitor)
  /\ UNCHANGED <<prepared, at, hits, collected, disagreed>>

\* MPI_Send returns, and with the second message run() does.
SendReturns(r) ==
  /\ \/ /\ Goto(r, "errors_sent", "send_monitor")
        /\ UNCHANGED at
     \/ /\ Goto(r, "monitor_sent", "ready")
        /\ at' = [at EXCEPT ![r] = @ + 1]
  /\ UNCHANGED <<prepared, hits, channel, collected, disagreed>>

\* MPI_Send may return early, or wait until the message is received.
Buffered(r) == SendReturns(r)

Delivered(r) ==
  /\ pc[r] \in {"errors_sent", "monitor_sent"}
  /\ Taken(r, IF pc[r] = "errors_sent" THEN Errors ELSE Monitor)
  /\ SendReturns(r)

-------------------------------------------------------------------------------
\* The process whose row comes next: there is one row per process before it.
source == Len(csv)

RowsMissing_OneShort == source < nproc[0][at[0]] - 1

\* The condition of the loop over the rows.
RowsMissing == source < nproc[0][at[0]]

\* MPI_Recv from the process whose row comes next.
Pending(tag) == <<source, com[0][at[0]], tag>>

Receive(tag) == /\ channel[Pending(tag)] # <<>>
                /\ channel' = [channel EXCEPT ![Pending(tag)] = Tail(@)]

ReceiveErrors_MonitorFirst ==
  /\ Goto(0, "row", "monitor")
  /\ RowsMissing
  /\ Receive(Monitor) /\ received' = Head(channel[Pending(Monitor)])
  /\ UNCHANGED <<prepared, at, hits, csv, reports, disagreed>>

ReceiveErrors ==
  /\ Goto(0, "row", "monitor")
  /\ RowsMissing
  /\ Receive(Errors) /\ received' = Head(channel[Pending(Errors)])
  /\ UNCHANGED <<prepared, at, hits, csv, reports, disagreed>>

ReceiveMonitor ==
  /\ Goto(0, "monitor", "row")
  /\ Receive(Monitor) /\ csv' = Append(csv, <<received, Head(channel[Pending(Monitor)])>>)
  /\ UNCHANGED <<prepared, at, hits, received, reports, disagreed>>

\* The csv file is closed and run() returns the result of all ranks.
ReturnResult ==
  /\ Goto(0, "row", "ready")
  /\ ~ RowsMissing
  /\ at' = [at EXCEPT ![0] = @ + 1]
  /\ reports' = Append(reports, [rows |-> csv, found |-> hits # {}])
  /\ UNCHANGED <<prepared, hits, channel, received, csv, disagreed>>

-------------------------------------------------------------------------------
\* A step that rank r makes by itself.
Step(r) ==
  \/ UseWorld(r) \/ Split(r) \/ CannotSplit(r) \/ Validated(r)
  \/ StandAside(r) \/ CallPfind(r)
  \/ SendErrors(r) \/ SendMonitor(r) \/ Delivered(r)

Collect == ReceiveErrors \/ ReceiveMonitor \/ ReturnResult

Search(k) == (\E failed \in SUBSET Members(k) : PfindFind(k, failed)) \/ Aggregate(k)

Next ==
  \/ \E r \in Ranks : Step(r) \/ Buffered(r)
  \/ Collect
  \/ \E k \in 1..N : Search(k)

Spec == Init /\ [][Next]_vars

\* The ranks are processes, pfind ends when all ranks of its communicator have
\* called it, and MPI delivers.  Nothing makes MPI_Send return before the message
\* is received.
Fairness ==
  /\ \A r \in Ranks : WF_vars(Step(r))
  /\ WF_vars(Collect)
  /\ WF_vars(\E k \in 1..N : Search(k))

FairSpec == Spec /\ Fairness

-------------------------------------------------------------------------------
States == {"validate", "exited", "ready", "find", "aggregate", "row", "monitor",
           "send_errors", "errors_sent", "send_monitor", "monitor_sent"}

Contribution == [find : Nat, hit : BOOLEAN]

\* The variables have their types, the loop over the rows has the length of the
\* communicator, and rank 0 has one result for each section it is through with.
TypeOK ==
  /\ nproc_option \in Sections
  /\ pc \in [Ranks -> States]
  /\ at \in [Ranks -> 1..(N + 1)]
  /\ nproc \in [Ranks -> [1..N -> Nat \cup {Unset}]]
  /\ com \in [Ranks -> [1..N -> Coms \cup {Null}]]
  /\ hits \subseteq Ranks
  /\ channel \in [Ranks \X Coms \X {Errors, Monitor} -> Seq(Contribution)]
  /\ received \in Contribution
  /\ csv \in Seq(Contribution \X Contribution)
  /\ disagreed \in BOOLEAN
  /\ \A k \in 1..N : com[0][k] # Null => nproc[0][k] \in 1..Size
  /\ Len(reports) = IF pc[0] \in {"validate", "exited"} THEN 0 ELSE at[0] - 1

\* "4712" and "4713" are the tags of every find phase, and those without nproc
\* share MPI_COMM_WORLD: a message in transit always belongs to the search rank 0
\* is collecting for, so that none is left for a later one to receive.
NoMessageLeftBehind ==
  \A c \in DOMAIN channel : \A j \in 1..Len(channel[c]) :
    channel[c][j].find = at[0] /\ pc[0] \in {"row", "monitor"}

\* Rank r is in a blocking call that does not return before another rank does
\* something: the split, the barrier of the phase loop, pfind, MPI_Send, MPI_Recv.
Waits(r) ==
  \/ pc[r] = "validate" /\ at[r] <= N /\ nproc[r][at[r]] # Unset /\ ~ CallsSplit(r)
  \/ pc[r] = "ready" /\ ~ LoopBarrier(r)
  \/ pc[r] \in {"find", "aggregate"} /\ ~ AllIn(at[r], pc[r])
  \/ pc[r] = "errors_sent" /\ ~ Taken(r, Errors)
  \/ pc[r] = "monitor_sent" /\ ~ Taken(r, Monitor)
  \/ r = 0 /\ pc[0] = "row" /\ RowsMissing /\ channel[Pending(Errors)] = <<>>
  \/ r = 0 /\ pc[0] = "monitor" /\ channel[Pending(Monitor)] = <<>>

Through(r) == pc[r] = "exited" \/ (pc[r] = "ready" /\ at[r] = N + 1)

\* The ranks never all wait for each other, even if MPI_Send does not return before the
\* message is received: rank 0 receives the two messages of each rank in turn while the
\* ranks outside the communicator, and those that have sent theirs, are already in the
\* barrier of the next phase.
NeverAllWait ==
  \/ disagreed
  \/ \A r \in Ranks : Through(r)
  \/ \E r \in Ranks : ~ Through(r) /\ ~ Waits(r)

\* Every rank gets through all find phases, or exits in validate(), also if
\* MPI_Send waits for the receiver each time; unless pfind_find() returns NULL on
\* some ranks of a communicator only, which the code is not prepared for.
Termination == <>(disagreed \/ \A r \in Ranks : Through(r))

\* A search is one search of the whole job: the csv file has one row per rank of
\* the communicator, with the counters of that rank and of that search, and
\* something was found exactly if one of them found something.
Service == INSTANCE FindService WITH
  members <- [k \in 1..N |-> {r \in Ranks : nproc_option[k] = Unset \/ r < nproc_option[k]}]

ImplementsFindService == Service!Spec

===============================================================================
