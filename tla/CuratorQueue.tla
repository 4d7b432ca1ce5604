---------------------------- MODULE CuratorQueue ----------------------------
(***************************************************************************)
(* The wiki curator of src/src/curator.py: a job table in SQLite, and the  *)
(* cycles (plan_cycle, then run_pending) that the web server's background  *)
(* thread, its /api/curator/run endpoint and "python -m src.curator" run   *)
(* over it.  The workers of one process take turns through the process's   *)
(* invoke_lock (src/src/web.py:491-494); workers of different processes    *)
(* share nothing but the database.  One action is one SQL statement with   *)
(* its commit, or one call of the language model.                          *)
(*                                                                         *)
(* Time is relative, so that behaviours need no end: a job has the ticks   *)
(* left until next_run_at, a page the ticks since last_curated_at, both    *)
(* counted as far as the code's comparisons can see.  Jobs whose time has  *)
(* come wait in "due", in the order of next_run_at.  Rows of finished jobs *)
(* are used again for new ones.  The journal is left out: no code reads it *)
(* to decide anything.                                                     *)
(***************************************************************************)
EXTENDS Integers, Sequences, FiniteSets, SequencesExt

CONSTANTS
  Workers,          \* threads and processes that run cycles
  Process,          \* Process[w]: the process worker w lives in
  NumPages,         \* bound: the wiki's pages are 1..NumPages, in path order
  MaxJobs,          \* bound: rows of the job table
  MaxJobsPerCycle,  \* run_pending's max_jobs
  MaxAttempts,      \* _DEFAULT_MAX_ATTEMPTS
  BackoffBase,      \* _BACKOFF_BASE_S, in ticks
  BackoffCap,       \* _BACKOFF_CAP_S, in ticks
  MinRecurate,      \* _MIN_RECURATE_S, in ticks
  CallTimeout,      \* bound: ticks a call of the model may take
  Events,           \* which of AllEvents this instance includes
  NoWorker          \* the holder of a job nobody works on

\* What may happen beside the cycles themselves: a process dies, a statement
\* fails (disk full, database locked for longer than SQLite waits), someone
\* revives the dead jobs.
AllEvents == {"crash", "sql_error", "revive"}

Pages   == 1..NumPages
JobRows == 1..MaxJobs

ASSUME CuratorAssumption ==
  /\ Process \in [Workers -> {Process[w] : w \in Workers}]
  /\ NumPages \in Nat /\ MaxJobs \in Nat
  /\ MaxJobsPerCycle \in Nat \ {0}
  /\ MaxAttempts \in Nat \ {0}
  /\ BackoffBase \in Nat \ {0}
  /\ BackoffCap \in Nat \ {0}
  /\ MinRecurate \in Nat \ {0}
  /\ CallTimeout \in Nat /\ CallTimeout < MinRecurate
  /\ Events \subseteq AllEvents
  /\ NoWorker \notin Workers

ASSUME BackoffAssumption ==
  \A a \in 1..MaxAttempts : BackoffBase * 2^(a - 1) \in Nat \ {0}

VARIABLES
  jobs,     \* jobs[j]: the row, due_in being the ticks until next_run_at
  due,      \* pending rows with next_run_at <= now, by next_run_at
  age,      \* age[p]: ticks since page p was curated, MinRecurate when older
  locked,   \* the processes whose invoke_lock is taken
  pc,       \* pc[w]: the statement worker w runs next
  page,     \* page[w]: where plan_cycle of w is
  cur,      \* cur[w]: the job of w's claim_next, 0 before the first
  seen,     \* seen[w]: what fail read and incremented
  quota,    \* quota[w]: the jobs this cycle of w may still take
  elapsed   \* elapsed[w]: ticks since w called curate_page

vars == <<jobs, due, age, locked, pc, page, cur, seen, quota, elapsed>>
table == <<jobs, due, age>>

Status == {"free", "pending", "running", "done", "dead"}
Row == [status : Status, target : 0..NumPages, attempts : 0..MaxAttempts,
        due_in : 0..BackoffCap]
Steps == {"idle", "plan", "insert", "select", "mark", "curate", "complete",
          "fail", "requeue"}

\* A worker in one of these steps believes that the job is its own.
Working == {"curate", "complete", "fail", "requeue"}
Holds(w, j) == pc[w] \in Working /\ cur[w] = j

LiveOrDone(p) == {j \in JobRows : /\ jobs[j].target = p
                                  /\ jobs[j].status \in {"pending", "running", "done"}}

Live(p) == {j \in JobRows : /\ jobs[j].target = p
                            /\ jobs[j].status \in {"pending", "running"}}

\* Rows a new job may use: never used, or finished and out of every hand.
FreeRows == {j \in JobRows : /\ jobs[j].status \in {"free", "done"}
                             /\ \A w \in Workers : cur[w] # j}

\* A row waits once: without its only place in the queue it waits no more.
Places(j) == {i \in 1..Len(due) : due[i] = j}
WithoutJob(j) == IF Places(j) = {} THEN due
                 ELSE RemoveAt(due, CHOOSE i \in Places(j) : TRUE)

\* fail: min(base * 2 ** (attempts - 1), cap).
UncappedDelay(a) == BackoffBase * 2^(a - 1)

Delay(a) ==
  IF BackoffBase * 2^(a - 1) < BackoffCap THEN BackoffBase * 2^(a - 1) ELSE BackoffCap

Older(n) == IF n < MinRecurate THEN n + 1 ELSE MinRecurate

Init ==
  /\ jobs = [j \in JobRows |-> [status |-> "free", target |-> 0, attempts |-> 0,
                                due_in |-> 0]]
  /\ due = <<>>
  /\ age = [p \in Pages |-> MinRecurate]
  /\ locked = {}
  /\ pc = [w \in Workers |-> "idle"]
  /\ page = [w \in Workers |-> 1]
  /\ cur = [w \in Workers |-> 0]
  /\ seen = [w \in Workers |-> 0]
  /\ quota = [w \in Workers |-> 0]
  /\ elapsed = [w \in Workers |-> 0]

(***************************************************************************)
(* A cycle.                                                                *)
(***************************************************************************)

StartWithoutLock(w) ==
  /\ pc[w] = "idle"
  /\ locked' = locked \union {Process[w]}
  /\ pc' = [pc EXCEPT ![w] = "plan"]
  /\ page' = [page EXCEPT ![w] = 1]
  /\ quota' = [quota EXCEPT ![w] = MaxJobsPerCycle]
  /\ UNCHANGED <<table, cur, seen, elapsed>>

StartCycle(w) ==
  /\ pc[w] = "idle"
  /\ Process[w] \notin locked
  /\ locked' = locked \union {Process[w]}
  /\ pc' = [pc EXCEPT ![w] = "plan"]
  /\ page' = [page EXCEPT ![w] = 1]
  /\ quota' = [quota EXCEPT ![w] = MaxJobsPerCycle]
  /\ UNCHANGED <<table, cur, seen, elapsed>>

\* The worker is done with its job.
DropJob(w) ==
  /\ cur' = [cur EXCEPT ![w] = 0]
  /\ seen' = [seen EXCEPT ![w] = 0]
  /\ elapsed' = [elapsed EXCEPT ![w] = 0]

\* The worker lets go of the lock and forgets what it was doing.
Leave(w) ==
  /\ locked' = locked \ {Process[w]}
  /\ pc' = [pc EXCEPT ![w] = "idle"]
  /\ page' = [page EXCEPT ![w] = 1]
  /\ quota' = [quota EXCEPT ![w] = 0]
  /\ DropJob(w)

\* plan_cycle: is the page due for curation, and does no unfinished job of
\* it exist?  A full table is this model's bound: the page is passed over.
PlanIgnoresMemory(w) ==
  /\ pc[w] = "plan"
  /\ \/ /\ page[w] \in Pages
        /\ IF Live(page[w]) = {} /\ FreeRows # {}
           THEN pc' = [pc EXCEPT ![w] = "insert"] /\ UNCHANGED page
           ELSE page' = [page EXCEPT ![w] = @ + 1] /\ UNCHANGED pc
     \/ /\ page[w] \notin Pages
        /\ pc' = [pc EXCEPT ![w] = "select"]
        /\ UNCHANGED page
  /\ UNCHANGED <<table, locked, cur, seen, quota, elapsed>>

PlanWithoutDedupe(w) ==
  /\ pc[w] = "plan"
  /\ \/ /\ page[w] \in Pages
        /\ IF age[page[w]] >= MinRecurate /\ FreeRows # {}
           THEN pc' = [pc EXCEPT ![w] = "insert"] /\ UNCHANGED page
           ELSE page' = [page EXCEPT ![w] = @ + 1] /\ UNCHANGED pc
     \/ /\ page[w] \notin Pages
        /\ pc' = [pc EXCEPT ![w] = "select"]
        /\ UNCHANGED page
  /\ UNCHANGED <<table, locked, cur, seen, quota, elapsed>>

Plan(w) ==
  /\ pc[w] = "plan"
  /\ \/ /\ page[w] \in Pages
        /\ IF age[page[w]] >= MinRecurate /\ Live(page[w]) = {} /\ FreeRows # {}
           THEN pc' = [pc EXCEPT ![w] = "insert"] /\ UNCHANGED page
           ELSE page' = [page EXCEPT ![w] = @ + 1] /\ UNCHANGED pc
     \/ /\ page[w] \notin Pages
        /\ pc' = [pc EXCEPT ![w] = "select"]
        /\ UNCHANGED page
  /\ UNCHANGED <<table, locked, cur, seen, quota, elapsed>>

\* enqueue: INSERT, due at once.
Insert(w) ==
  /\ pc[w] = "insert"
  /\ \E j \in FreeRows :
       /\ \A i \in FreeRows : j <= i
       /\ jobs' = [jobs EXCEPT ![j] = [status |-> "pending", target |-> page[w],
                                       attempts |-> 0, due_in |-> 0]]
       /\ due' = Append(due, j)
  /\ pc' = [pc EXCEPT ![w] = "plan"]
  /\ page' = [page EXCEPT ![w] = @ + 1]
  /\ UNCHANGED <<age, locked, cur, seen, quota, elapsed>>

\* claim_next: SELECT ... ORDER BY next_run_at LIMIT 1.
SelectNewest(w) ==
  /\ pc[w] = "select" /\ quota[w] > 0 /\ due # <<>>
  /\ cur' = [cur EXCEPT ![w] = due[Len(due)]]
  /\ quota' = [quota EXCEPT ![w] = @ - 1]
  /\ pc' = [pc EXCEPT ![w] = "mark"]
  /\ UNCHANGED <<table, locked, page, seen, elapsed>>

Select(w) ==
  /\ pc[w] = "select" /\ quota[w] > 0 /\ due # <<>>
  /\ cur' = [cur EXCEPT ![w] = Head(due)]
  /\ quota' = [quota EXCEPT ![w] = @ - 1]
  /\ pc' = [pc EXCEPT ![w] = "mark"]
  /\ UNCHANGED <<table, locked, page, seen, elapsed>>

EndCycle(w) ==
  /\ pc[w] = "select" /\ (quota[w] = 0 \/ due = <<>>)
  /\ Leave(w)
  /\ UNCHANGED table

\* claim_next: UPDATE ... WHERE id, whatever the row has become.
ForgetToMark(w) ==
  /\ pc[w] = "mark"
  /\ pc' = [pc EXCEPT ![w] = "curate"]
  /\ elapsed' = [elapsed EXCEPT ![w] = 0]
  /\ UNCHANGED <<table, locked, page, cur, seen, quota>>

MarkRunning(w) ==
  /\ pc[w] = "mark"
  /\ jobs' = [jobs EXCEPT ![cur[w]].status = "running", ![cur[w]].due_in = 0]
  /\ due' = WithoutJob(cur[w])
  /\ pc' = [pc EXCEPT ![w] = "curate"]
  /\ elapsed' = [elapsed EXCEPT ![w] = 0]
  /\ UNCHANGED <<age, locked, page, cur, seen, quota>>

\* curate_page: the model answers and the page is marked as curated, at the
\* time the call began.
Curated(w) ==
  /\ pc[w] = "curate"
  /\ age' = [age EXCEPT ![jobs[cur[w]].target] = elapsed[w]]
  /\ pc' = [pc EXCEPT ![w] = "complete"]
  /\ UNCHANGED <<jobs, due, locked, page, cur, seen, quota, elapsed>>

\* curate_page raises: no such file, no answer, no JSON in the answer.
CurateRaises(w) ==
  /\ pc[w] = "curate"
  /\ pc' = [pc EXCEPT ![w] = "fail"]
  /\ UNCHANGED <<table, locked, page, cur, seen, quota, elapsed>>

Complete(w) ==
  /\ pc[w] = "complete"
  /\ jobs' = [jobs EXCEPT ![cur[w]].status = "done", ![cur[w]].due_in = 0]
  /\ due' = WithoutJob(cur[w])
  /\ pc' = [pc EXCEPT ![w] = "select"]
  /\ DropJob(w)
  /\ UNCHANGED <<age, locked, page, quota>>

\* fail: SELECT attempts.
FailReads(w) ==
  /\ pc[w] = "fail"
  /\ seen' = [seen EXCEPT ![w] = jobs[cur[w]].attempts + 1]
  /\ pc' = [pc EXCEPT ![w] = "requeue"]
  /\ UNCHANGED <<table, locked, page, cur, quota, elapsed>>

\* fail: UPDATE, to dead or to pending after a delay.
RequeueOnceMore(w) ==
  /\ pc[w] = "requeue"
  /\ jobs' = [jobs EXCEPT ![cur[w]].attempts = seen[w],
                          ![cur[w]].status = IF seen[w] > MaxAttempts THEN "dead"
                                             ELSE "pending",
                          ![cur[w]].due_in = IF seen[w] > MaxAttempts THEN 0
                                             ELSE Delay(seen[w])]
  /\ due' = WithoutJob(cur[w])
  /\ pc' = [pc EXCEPT ![w] = "select"]
  /\ DropJob(w)
  /\ UNCHANGED <<age, locked, page, quota>>

Requeue(w) ==
  /\ pc[w] = "requeue"
  /\ jobs' = [jobs EXCEPT ![cur[w]].attempts = seen[w],
                          ![cur[w]].status = IF seen[w] >= MaxAttempts THEN "dead"
                                             ELSE "pending",
                          ![cur[w]].due_in = IF seen[w] >= MaxAttempts THEN 0
                                             ELSE Delay(seen[w])]
  /\ due' = WithoutJob(cur[w])
  /\ pc' = [pc EXCEPT ![w] = "select"]
  /\ DropJob(w)
  /\ UNCHANGED <<age, locked, page, quota>>

(***************************************************************************)
(* What may go wrong, and the manual revival.                              *)
(***************************************************************************)

\* A statement raises.  Only complete is inside run_pending's try block:
\* everywhere else the exception ends the cycle, and the lock is released.
StatementRaises(w) ==
  /\ "sql_error" \in Events
  /\ \/ /\ pc[w] = "complete"
        /\ pc' = [pc EXCEPT ![w] = "fail"]
        /\ UNCHANGED <<locked, page, cur, seen, quota, elapsed>>
     \/ /\ pc[w] \in {"plan", "insert", "select", "mark", "fail", "requeue"}
        /\ Leave(w)
  /\ UNCHANGED table

\* A process dies with all its workers; the table stays as it is.
Crash(p) ==
  /\ "crash" \in Events
  /\ p \in locked
  /\ locked' = locked \ {p}
  /\ LET Reset(f, v) == [w \in Workers |-> IF Process[w] = p THEN v ELSE f[w]]
     IN /\ pc' = Reset(pc, "idle")
        /\ page' = Reset(page, 1)
        /\ cur' = Reset(cur, 0)
        /\ seen' = Reset(seen, 0)
        /\ quota' = Reset(quota, 0)
        /\ elapsed' = Reset(elapsed, 0)
  /\ UNCHANGED table

\* revive_dead, which takes no lock: all dead rows get the same next_run_at.
Dead == {j \in JobRows : jobs[j].status = "dead"}

Revive ==
  /\ "revive" \in Events
  /\ Dead # {}
  /\ jobs' = [j \in JobRows |->
                IF j \in Dead THEN [jobs[j] EXCEPT !.status = "pending",
                                                   !.attempts = 0, !.due_in = 0]
                ELSE jobs[j]]
  /\ \E s \in SetToSeqs(Dead) : due' = due \o s
  /\ UNCHANGED <<age, locked, pc, page, cur, seen, quota, elapsed>>

\* Time passes: only waiting and the model's calls take any, the latter far
\* less than _MIN_RECURATE_S, which is a day.  Jobs whose
\* delay ends in the same tick become due in any order.
Waiting == {j \in JobRows : jobs[j].status = "pending" /\ jobs[j].due_in > 0}

Tick ==
  /\ \A w \in Workers : \/ pc[w] = "idle"
                        \/ pc[w] = "curate" /\ elapsed[w] < CallTimeout
  /\ jobs' = [j \in JobRows |->
                IF j \in Waiting THEN [jobs[j] EXCEPT !.due_in = @ - 1] ELSE jobs[j]]
  /\ \E s \in SetToSeqs({j \in Waiting : jobs[j].due_in = 1}) : due' = due \o s
  /\ age' = [p \in Pages |-> Older(age[p])]
  /\ elapsed' = [w \in Workers |-> IF pc[w] = "curate" THEN elapsed[w] + 1
                                                       ELSE elapsed[w]]
  /\ UNCHANGED <<locked, pc, page, cur, seen, quota>>

Work(w) ==
  \/ Plan(w) \/ Insert(w) \/ Select(w) \/ EndCycle(w) \/ MarkRunning(w)
  \/ Curated(w) \/ CurateRaises(w) \/ Complete(w) \/ FailReads(w) \/ Requeue(w)

Next ==
  \/ \E w \in Workers : StartCycle(w) \/ Work(w) \/ StatementRaises(w)
  \/ \E w \in Workers : Crash(Process[w])
  \/ Revive
  \/ Tick

Spec == Init /\ [][Next]_vars

\* A cycle that has begun goes on, and the model's calls return or raise (the
\* client library gives up on its own; the repository sets no limit).  Cycles begin again and again: the background thread
\* loops for as long as the server runs, cron starts the command for ever.
\* They wait at least a minute in between, so time passes.
FairSpec ==
  /\ Spec
  /\ \A w \in Workers : WF_vars(Work(w))
  /\ WF_vars(\E w \in Workers : StartCycle(w))
  /\ SF_vars(Tick)

-----------------------------------------------------------------------------
\* The deployment in which only the web server curates.
OneProcess == \A v, w \in Workers : Process[v] = Process[w]

(***************************************************************************)
(* Properties                                                              *)
(***************************************************************************)

\* Every variable stays in its domain.
TypeOK ==
  /\ jobs \in [JobRows -> Row]
  /\ due \in Seq(JobRows)
  /\ age \in [Pages -> 0..MinRecurate]
  /\ locked \subseteq {Process[w] : w \in Workers}
  /\ pc \in [Workers -> Steps]
  /\ page \in [Workers -> 1..(NumPages + 1)]
  /\ cur \in [Workers -> 0..MaxJobs]
  /\ seen \in [Workers -> 0..MaxAttempts]
  /\ quota \in [Workers -> 0..MaxJobsPerCycle]
  /\ elapsed \in [Workers -> 0..CallTimeout]

\* claim_next locks the job it returns: no two workers work on one job
\* (curator.py:113).
ExclusiveClaim ==
  \A v, w \in Workers : v # w => \A j \in JobRows : ~(Holds(v, j) /\ Holds(w, j))

\* enqueue skips a page that has an unfinished job (curator.py:94), so a
\* page never has two.
OneLiveJobPerPage == \A p \in Pages : Cardinality(Live(p)) <= 1

\* A job is retried while it has attempts left and no longer: it is dead
\* exactly when it has failed max_attempts times.
DeadWhenExhausted ==
  \A j \in JobRows :
    /\ jobs[j].status \in {"pending", "running"} => jobs[j].attempts < MaxAttempts
    /\ jobs[j].status = "dead" => jobs[j].attempts = MaxAttempts

\* The curator remembers earlier runs and does not repeat their work: no
\* page is given to the model again before _MIN_RECURATE_S have passed.
NotCuratedTooSoon ==
  [][\A w \in Workers : (pc[w] = "mark" /\ pc'[w] = "curate") =>
       age[jobs[cur[w]].target] = MinRecurate]_vars

\* What the table shows of a job: who works on it.
Holder(j) == IF \E w \in Workers : Holds(w, j)
             THEN CHOOSE w \in Workers : Holds(w, j)
             ELSE NoWorker

Abstract == INSTANCE JobQueue WITH
              Jobs   <- JobRows,
              status <- [j \in JobRows |-> jobs[j].status],
              holder <- [j \in JobRows |-> Holder(j)]

\* The statements of the workers implement the promised queue.
ImplementsJobQueue == Abstract!Spec

\* Every job is finished, or ends as dead for someone to look at, however
\* often the model fails (curator.py:7-9).
JobSettles ==
  \A j \in JobRows :
    jobs[j].status \in {"pending", "running"} ~> jobs[j].status \in {"done", "dead"}

\* A page is curated again and again for as long as no job has died.
PageRevisited ==
  \A p \in Pages : age[p] = MinRecurate ~> (age[p] < MinRecurate \/ Dead # {})

(***************************************************************************)
(* The inductive invariant behind ExclusiveClaim.                          *)
(***************************************************************************)

\* In every process at most one worker is in a cycle, and it has the lock.
LockInv ==
  /\ pc \in [Workers -> Steps]
  /\ \A w \in Workers : pc[w] # "idle" => Process[w] \in locked
  /\ \A v, w \in Workers :
       (v # w /\ pc[v] # "idle" /\ pc[w] # "idle") => Process[v] # Process[w]
=============================================================================
