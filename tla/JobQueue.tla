------------------------------ MODULE JobQueue ------------------------------
(***************************************************************************)
(* What the curator's job queue promises (src/src/curator.py, its          *)
(* docstring and the docstrings of enqueue, claim_next and fail): a job    *)
(* that is taken is taken by one worker, the worker that took it is the    *)
(* one that settles it, and it leaves the worker as done, as pending for   *)
(* another try, or as dead for someone to revive.                          *)
(***************************************************************************)
EXTENDS FiniteSets

CONSTANTS
  Jobs,      \* the rows of the job table
  Workers,   \* those who run curation cycles
  NoWorker   \* the holder of a job nobody works on, not one of Workers

VARIABLES
  status,    \* status[j]: free, pending, running, done or dead
  holder     \* holder[j]: who works on j

jobVars == <<status, holder>>

Init ==
  /\ status = [j \in Jobs |-> "free"]
  /\ holder = [j \in Jobs |-> NoWorker]

\* A new job takes a row that is free or whose job is finished.
Add(j) ==
  /\ status[j] \in {"free", "done"}
  /\ status' = [status EXCEPT ![j] = "pending"]
  /\ UNCHANGED holder

Claim(w, j) ==
  /\ status[j] = "pending"
  /\ \A i \in Jobs : holder[i] # w
  /\ status' = [status EXCEPT ![j] = "running"]
  /\ holder' = [holder EXCEPT ![j] = w]

Settle(w, j) ==
  /\ holder[j] = w
  /\ \E s \in {"done", "pending", "dead"} : status' = [status EXCEPT ![j] = s]
  /\ holder' = [holder EXCEPT ![j] = NoWorker]

\* All dead jobs are revived together.
Revive ==
  /\ status' = [j \in Jobs |-> IF status[j] = "dead" THEN "pending" ELSE status[j]]
  /\ UNCHANGED holder

Next ==
  \/ \E j \in Jobs : Add(j)
  \/ \E w \in Workers, j \in Jobs : Claim(w, j) \/ Settle(w, j)
  \/ Revive

Spec == Init /\ [][Next]_jobVars

=============================================================================
