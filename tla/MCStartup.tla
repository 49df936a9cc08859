------------------------------- MODULE MCStartup -------------------------------
(***************************************************************************)
(* Instances of Startup.                                                   *)
(***************************************************************************)
EXTENDS Startup

Plain == [ini |-> "good", action |-> "run", given |-> Unset, stamped |-> TRUE,
          writable |-> TRUE]

Running == { Plain, [Plain EXCEPT !.given = "A"], [Plain EXCEPT !.stamped = FALSE] }

Ending ==
  {[Plain EXCEPT !.writable = FALSE]} \cup
  {[Plain EXCEPT !.ini = i] : i \in {"bad", "empty", "missing"}} \cup
  {[Plain EXCEPT !.action = a] : a \in {"help", "config-hash", "verify", "list",
                                        "unknown option", "unknown API"}}

\* Two jobs that run, or one that ends early.
MCStarts ==
  {<<Plain, d>> : d \in Running} \cup
  {<<[Plain EXCEPT !.stamped = FALSE], [Plain EXCEPT !.stamped = FALSE]>>,
   <<[Plain EXCEPT !.given = "A"], [Plain EXCEPT !.given = "A"]>>} \cup
  {<<c, [Plain EXCEPT !.action = "help"]>> : c \in Ending}

\* The defaults, and two different timestamps.
ConcurrentStarts == {<<[Plain EXCEPT !.given = "A"], [Plain EXCEPT !.given = "B"]>>}

MCSeconds == [s \in 0..1 |-> IF s = 0 THEN "12.00.00" ELSE "12.00.01"]

MCJobs == 1..2

===============================================================================
