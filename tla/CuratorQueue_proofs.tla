------------------------- MODULE CuratorQueue_proofs -------------------------
(***************************************************************************)
(* What is proved of the curator's job queue, for every number of workers, *)
(* processes, pages and jobs, whatever fails.                              *)
(***************************************************************************)
EXTENDS CuratorQueue, SequenceTheorems, FiniteSetTheorems, TLAPS

LEMMA InitLockInv == Init => LockInv
  BY DEF Init, LockInv, Steps

\* A worker that was in a cycle moves on within it, the others do nothing.
LEMMA WithinCycle ==
  ASSUME LockInv, NEW w \in Workers, pc[w] # "idle", locked' = locked,
         NEW s \in Steps, pc' = [pc EXCEPT ![w] = s]
  PROVE  LockInv'
  BY DEF LockInv

\* A worker that was in a cycle leaves it and releases the lock.
LEMMA LeaveCycle ==
  ASSUME LockInv, NEW w \in Workers, pc[w] # "idle", Leave(w)
  PROVE  LockInv'
<1>1. /\ locked' = locked \ {Process[w]}
      /\ pc' = [pc EXCEPT ![w] = "idle"]
      /\ pc' \in [Workers -> Steps]
  BY DEF Leave, LockInv, Steps
<1>2. \A v \in Workers : pc'[v] # "idle" => v # w /\ pc[v] # "idle"
  BY <1>1 DEF LockInv
<1>3. \A v \in Workers : pc'[v] # "idle" => Process[v] # Process[w]
  BY <1>2 DEF LockInv
<1>4. \A v \in Workers : pc'[v] # "idle" => Process[v] \in locked'
  BY <1>1, <1>2, <1>3 DEF LockInv
<1> QED
  BY <1>1, <1>2, <1>4 DEF LockInv

LEMMA LockStep ==
  ASSUME LockInv, [Next]_vars
  PROVE  LockInv'
<1>1. ASSUME NEW w \in Workers, StartCycle(w)
      PROVE  LockInv'
  <2>1. /\ pc[w] = "idle" /\ Process[w] \notin locked
        /\ locked' = locked \union {Process[w]}
        /\ pc' = [pc EXCEPT ![w] = "plan"]
    BY <1>1 DEF StartCycle
  <2>2. pc' \in [Workers -> Steps]
    BY <2>1 DEF LockInv, Steps
  <2>3. \A v \in Workers : v # w /\ pc'[v] # "idle" => pc[v] # "idle"
    BY <2>1 DEF LockInv
  <2>4. \A v \in Workers : v # w /\ pc'[v] # "idle" => Process[v] # Process[w]
    BY <2>1, <2>3 DEF LockInv
  <2>5. \A v \in Workers : pc'[v] # "idle" => Process[v] \in locked'
    BY <2>1, <2>3 DEF LockInv
  <2> QED
    BY <2>2, <2>3, <2>4, <2>5 DEF LockInv
<1>2. ASSUME NEW w \in Workers, Work(w)
      PROVE  LockInv'
  <2>1. CASE EndCycle(w)
    BY <2>1, LeaveCycle DEF EndCycle
  <2>2. CASE ~EndCycle(w)
    <3>1. pc[w] # "idle" /\ locked' = locked
      BY <1>2, <2>2 DEF Work, Plan, Insert, Select, MarkRunning, Curated, CurateRaises,
         Complete, FailReads, Requeue
    <3>2. \/ pc' = pc
          \/ \E s \in Steps : pc' = [pc EXCEPT ![w] = s]
      BY <1>2, <2>2 DEF Work, Plan, Insert, Select, MarkRunning, Curated, CurateRaises,
         Complete, FailReads, Requeue, Steps
    <3>3. CASE pc' = pc
      BY <3>1, <3>3 DEF LockInv
    <3> QED
      BY <3>1, <3>2, <3>3, WithinCycle
  <2> QED
    BY <2>1, <2>2
<1>3. ASSUME NEW w \in Workers, StatementRaises(w)
      PROVE  LockInv'
  <2>1. CASE pc[w] = "complete" /\ pc' = [pc EXCEPT ![w] = "fail"] /\ locked' = locked
    BY <2>1, WithinCycle DEF Steps
  <2>2. CASE pc[w] # "idle" /\ Leave(w)
    BY <2>2, LeaveCycle
  <2> QED
    BY <1>3, <2>1, <2>2 DEF StatementRaises
<1>4. ASSUME NEW w \in Workers, Crash(Process[w])
      PROVE  LockInv'
  <2>1. /\ locked' = locked \ {Process[w]}
        /\ pc' = [v \in Workers |-> IF Process[v] = Process[w] THEN "idle" ELSE pc[v]]
    BY <1>4 DEF Crash
  <2>2. pc' \in [Workers -> Steps]
    BY <2>1 DEF LockInv, Steps
  <2>3. \A v \in Workers : pc'[v] # "idle" =>
          Process[v] # Process[w] /\ pc[v] # "idle"
    BY <2>1
  <2> QED
    BY <2>1, <2>2, <2>3 DEF LockInv
<1>5. CASE Revive
  BY <1>5 DEF Revive, LockInv
<1>6. CASE Tick
  BY <1>6 DEF Tick, LockInv
<1>7. CASE UNCHANGED vars
  BY <1>7 DEF vars, LockInv
<1> QED
  BY <1>1, <1>2, <1>3, <1>4, <1>5, <1>6, <1>7 DEF Next

\* The invoke_lock keeps the cycles of a process apart.
LEMMA LockInvariant == Spec => []LockInv
  BY InitLockInv, LockStep, PTL DEF Spec

\* Where one process does all the curating, no two workers ever work on one
\* job, although the UPDATE of claim_next never looks at the row's status:
\* crashes, failing statements and revivals included.
THEOREM ClaimsAreExclusive ==
  ASSUME OneProcess
  PROVE  Spec => []ExclusiveClaim
<1>1. LockInv => ExclusiveClaim
  BY DEF OneProcess, LockInv, ExclusiveClaim, Holds, Working
<1> QED
  BY <1>1, LockInvariant, PTL

(***************************************************************************)
(* The jobs that are due.                                                  *)
(***************************************************************************)
Distinct(s) == \A i, k \in 1..Len(s) : s[i] = s[k] => i = k

LEMMA Removed ==
  ASSUME NEW j \in JobRows, due \in Seq(JobRows), Distinct(due)
  PROVE  /\ WithoutJob(j) \in Seq(JobRows)
         /\ Distinct(WithoutJob(j))
         /\ \A i \in 1..Len(WithoutJob(j)) :
              /\ WithoutJob(j)[i] # j
              /\ \E k \in 1..Len(due) : WithoutJob(j)[i] = due[k]
<1>1. CASE Places(j) = {}
  BY <1>1 DEF WithoutJob, Places
<1>2. CASE Places(j) # {}
  <2> DEFINE p == CHOOSE i \in Places(j) : TRUE
             l == SubSeq(due, 1, p - 1)
             r == SubSeq(due, p + 1, Len(due))
  <2>1. /\ Len(due) \in Nat /\ p \in 1..Len(due) /\ due[p] = j
        /\ \A i \in 1..Len(due) : due[i] \in JobRows
    BY <1>2 DEF Places
  <2>2. /\ l \in Seq(JobRows) /\ Len(l) = p - 1
        /\ \A i \in 1..(p - 1) : l[i] = due[i]
    <3>1. \A i \in 1..(p - 1) : due[i] \in JobRows
      BY <2>1
    <3> HIDE DEF p
    <3> QED
      BY <2>1, <3>1, SubSeqProperties
  <2>3. /\ r \in Seq(JobRows) /\ Len(r) = Len(due) - p
        /\ \A i \in 1..(Len(due) - p) : r[i] = due[p + i]
    <3>1. \A i \in (p + 1)..Len(due) : due[i] \in JobRows
      BY <2>1
    <3> HIDE DEF p
    <3> QED
      BY <2>1, <3>1, SubSeqProperties
  <2>4. WithoutJob(j) = l \o r
    BY <1>2 DEF WithoutJob, RemoveAt
  <2> HIDE DEF p, l, r
  <2>5. /\ l \o r \in Seq(JobRows)
        /\ Len(l \o r) = Len(l) + Len(r)
        /\ \A i \in 1..(Len(l) + Len(r)) :
             (l \o r)[i] = IF i <= Len(l) THEN l[i] ELSE r[i - Len(l)]
    BY <2>2, <2>3, ConcatProperties
  <2>6. WithoutJob(j) \in Seq(JobRows) /\ Len(WithoutJob(j)) = Len(due) - 1
    BY <2>1, <2>2, <2>3, <2>4, <2>5
  <2>7. \A i \in 1..(Len(due) - 1) :
          WithoutJob(j)[i] = IF i < p THEN due[i] ELSE due[i + 1]
    <3> SUFFICES ASSUME NEW i \in 1..(Len(due) - 1)
                 PROVE  (l \o r)[i] = IF i < p THEN due[i] ELSE due[i + 1]
      BY <2>4
    <3>1. CASE i < p
      BY <3>1, <2>1, <2>2, <2>3, <2>5
    <3>2. CASE ~(i < p)
      <4>1. i - Len(l) \in 1..(Len(due) - p) /\ p + (i - Len(l)) = i + 1
        BY <3>2, <2>1, <2>2
      <4>2. (l \o r)[i] = r[i - Len(l)]
        BY <3>2, <2>1, <2>2, <2>3, <2>5
      <4> QED
        BY <3>2, <4>1, <4>2, <2>3
    <3> QED
      BY <3>1, <3>2
  <2>8. \A i \in 1..(Len(due) - 1) :
          /\ WithoutJob(j)[i] # j
          /\ \E k \in 1..Len(due) : WithoutJob(j)[i] = due[k]
    <3> SUFFICES ASSUME NEW i \in 1..(Len(due) - 1)
                 PROVE  \E k \in 1..Len(due) : k # p /\ WithoutJob(j)[i] = due[k]
      BY <2>1 DEF Distinct
    <3>1. CASE i < p
      BY <3>1, <2>1, <2>7
    <3>2. CASE ~(i < p)
      <4>1. i + 1 \in 1..Len(due) /\ i + 1 # p /\ WithoutJob(j)[i] = due[i + 1]
        BY <3>2, <2>1, <2>7
      <4> QED
        BY <4>1
    <3> QED
      BY <3>1, <3>2
  <2>9. Distinct(WithoutJob(j))
    <3> SUFFICES ASSUME NEW i \in 1..(Len(due) - 1), NEW k \in 1..(Len(due) - 1),
                        WithoutJob(j)[i] = WithoutJob(j)[k]
                 PROVE  i = k
      BY <2>6 DEF Distinct
    <3> DEFINE at(n) == IF n < p THEN n ELSE n + 1
    <3>1. /\ at(i) \in 1..Len(due) /\ WithoutJob(j)[i] = due[at(i)]
          /\ at(k) \in 1..Len(due) /\ WithoutJob(j)[k] = due[at(k)]
      BY <2>1, <2>7
    <3>2. at(i) = at(k)
      BY <3>1 DEF Distinct
    <3> QED
      BY <2>1, <3>2
  <2> QED
    BY <2>6, <2>8, <2>9
<1> QED
  BY <1>1, <1>2

\* Rows that become due go behind those that are.
LEMMA Joined ==
  ASSUME due \in Seq(JobRows), Distinct(due), NEW S \in SUBSET JobRows,
         \A i \in 1..Len(due) : due[i] \notin S, NEW s \in SetToSeqs(S)
  PROVE  /\ due \o s \in Seq(JobRows)
         /\ Distinct(due \o s)
         /\ \A i \in 1..Len(due \o s) :
              (due \o s)[i] \in S \/ \E k \in 1..Len(due) : (due \o s)[i] = due[k]
<1>1. IsFiniteSet(S)
  <2>1. MaxJobs \in Int
    BY CuratorAssumption
  <2>2. IsFiniteSet(1..MaxJobs)
    BY <2>1, FS_Interval
  <2> QED
    BY <2>2, FS_Subset DEF JobRows
<1>2. Cardinality(S) \in Nat
  BY <1>1, FS_CardinalityType
<1>3. s \in [1..Cardinality(S) -> S] /\ \A i, k \in 1..Cardinality(S) : s[i] = s[k] => i = k
  BY DEF SetToSeqs
<1>4. s \in Seq(JobRows) /\ Len(s) = Cardinality(S) /\ \A i \in 1..Len(s) : s[i] \in S
  BY <1>2, <1>3
<1>5. /\ due \o s \in Seq(JobRows)
      /\ Len(due \o s) = Len(due) + Len(s)
      /\ \A i \in 1..(Len(due) + Len(s)) :
           (due \o s)[i] = IF i <= Len(due) THEN due[i] ELSE s[i - Len(due)]
  BY <1>4, ConcatProperties
<1>6. Len(due) \in Nat /\ Len(s) \in Nat
  BY <1>4
<1>7. \A i \in 1..Len(due \o s) :
        (due \o s)[i] \in S \/ \E k \in 1..Len(due) : (due \o s)[i] = due[k]
  BY <1>4, <1>5, <1>6
<1>8. Distinct(due \o s)
  <2> SUFFICES ASSUME NEW i \in 1..Len(due \o s), NEW k \in 1..Len(due \o s),
                      (due \o s)[i] = (due \o s)[k]
               PROVE  i = k
    BY DEF Distinct
  <2>1. CASE i <= Len(due) /\ k <= Len(due)
    BY <2>1, <1>5, <1>6 DEF Distinct
  <2>2. CASE i > Len(due) /\ k > Len(due)
    <3>1. i - Len(due) \in 1..Len(s) /\ k - Len(due) \in 1..Len(s)
      BY <2>2, <1>5, <1>6
    <3>2. s[i - Len(due)] = s[k - Len(due)]
      BY <2>2, <1>5, <1>6
    <3>3. i - Len(due) = k - Len(due)
      BY <3>1, <3>2, <1>3, <1>4
    <3> QED
      BY <3>3, <1>5, <1>6
  <2>3. CASE i <= Len(due) /\ k > Len(due)
    <3>1. due[i] \notin S /\ s[k - Len(due)] \in S
      BY <2>3, <1>4, <1>5, <1>6
    <3> QED
      BY <2>3, <3>1, <1>5, <1>6
  <2>4. CASE i > Len(due) /\ k <= Len(due)
    <3>1. due[k] \notin S /\ s[i - Len(due)] \in S
      BY <2>4, <1>4, <1>5, <1>6
    <3> QED
      BY <2>4, <3>1, <1>5, <1>6
  <2> QED
    BY <2>1, <2>2, <2>3, <2>4, <1>5, <1>6
<1> QED
  BY <1>5, <1>7, <1>8

(***************************************************************************)
(* The table and those who work on it, where one process does all the      *)
(* curating.                                                               *)
(***************************************************************************)
RowsInv == \A j \in JobRows : jobs[j].status # "free" => jobs[j].target \in Pages

\* What waits is pending, and waits once.
DueInv ==
  /\ \A i \in 1..Len(due) : jobs[due[i]].status = "pending" /\ jobs[due[i]].due_in = 0
  /\ Distinct(due)

\* What a worker holds, and what the statement it runs next relies on.
Hand(w) ==
  /\ pc[w] \notin Working \cup {"mark"} => cur[w] = 0
  /\ pc[w] = "mark" => cur[w] \in JobRows /\ jobs[cur[w]].status = "pending"
  /\ pc[w] \in Working => cur[w] \in JobRows /\ jobs[cur[w]].status = "running"
  /\ pc[w] = "requeue" => seen[w] = jobs[cur[w]].attempts + 1
  /\ pc[w] = "insert" => page[w] \in Pages

TableInv == TypeOK /\ RowsInv /\ DueInv /\ DeadWhenExhausted /\ \A w \in Workers : Hand(w)
IndInv == LockInv /\ TableInv

LEMMA Constants ==
  /\ NumPages \in Nat /\ MaxJobs \in Nat
  /\ MaxJobsPerCycle \in Nat /\ MaxJobsPerCycle > 0
  /\ MaxAttempts \in Nat /\ MaxAttempts > 0
  /\ BackoffCap \in Nat /\ BackoffCap > 0
  /\ MinRecurate \in Nat /\ CallTimeout \in Nat /\ CallTimeout < MinRecurate
  BY CuratorAssumption

LEMMA InitIndInv == Init => IndInv
<1> SUFFICES ASSUME Init PROVE TableInv
  BY InitLockInv DEF IndInv
<1> USE Constants DEF Init
<1>1. TypeOK
  BY DEF TypeOK, Row, Status, Steps, JobRows, Pages
<1>2. RowsInv /\ DueInv /\ DeadWhenExhausted
  BY DEF RowsInv, DueInv, DeadWhenExhausted, Distinct
<1>3. \A w \in Workers : Hand(w)
  BY DEF Hand, Working
<1> QED
  BY <1>1, <1>2, <1>3 DEF TableInv

\* A worker in a cycle is alone: the others are idle and hold nothing.
LEMMA Alone ==
  ASSUME OneProcess, IndInv, NEW w \in Workers, pc[w] # "idle"
  PROVE  \A v \in Workers : v # w => pc[v] = "idle" /\ cur[v] = 0
  BY DEF OneProcess, IndInv, LockInv, TableInv, Hand, Working

LEMMA HandsStep ==
  ASSUME OneProcess, IndInv, NEW w \in Workers, pc[w] # "idle", Hand(w)',
         \A v \in Workers : v # w => pc'[v] = pc[v] /\ cur'[v] = cur[v]
  PROVE  (\A v \in Workers : Hand(v))'
<1>1. \A v \in Workers : v # w => pc'[v] = "idle" /\ cur'[v] = 0
  BY Alone
<1>2. ASSUME NEW v \in Workers, v # w
      PROVE  Hand(v)'
  BY <1>1, <1>2 DEF Hand, Working
<1> QED
  BY <1>2

\* Steps that leave the table alone.
LEMMA TableKept ==
  ASSUME IndInv, UNCHANGED table
  PROVE  (RowsInv /\ DueInv /\ DeadWhenExhausted)'
  BY DEF table, IndInv, TableInv, RowsInv, DueInv, DeadWhenExhausted

LEMMA PlanStep ==
  ASSUME OneProcess, IndInv, NEW w \in Workers, Plan(w)
  PROVE  TableInv'
<1>1. (RowsInv /\ DueInv /\ DeadWhenExhausted)'
  BY TableKept DEF Plan
<1>2. TypeOK'
  <2>1. pc' \in [Workers -> Steps]
    BY DEF Plan, IndInv, TableInv, TypeOK, Steps
  <2>2. page[w] \in Pages => page[w] + 1 \in 1..(NumPages + 1)
    BY Constants DEF Pages
  <2>3. page' \in [Workers -> 1..(NumPages + 1)]
    BY <2>2 DEF Plan, IndInv, TableInv, TypeOK
  <2> QED
    BY <2>1, <2>3 DEF Plan, IndInv, TableInv, TypeOK, table
<1>3. Hand(w)'
  BY DEF Plan, IndInv, TableInv, TypeOK, Hand, Working, table
<1>4. (\A v \in Workers : Hand(v))'
  BY <1>3, HandsStep DEF Plan, IndInv, TableInv, TypeOK
<1> QED
  BY <1>1, <1>2, <1>4 DEF TableInv

LEMMA InsertStep ==
  ASSUME OneProcess, IndInv, NEW w \in Workers, Insert(w)
  PROVE  TableInv'
<1>1. PICK j \in FreeRows :
        /\ jobs' = [jobs EXCEPT ![j] = [status |-> "pending", target |-> page[w],
                                        attempts |-> 0, due_in |-> 0]]
        /\ due' = Append(due, j)
  BY DEF Insert
<1>2. /\ j \in JobRows /\ jobs[j].status \in {"free", "done"}
      /\ \A i \in 1..Len(due) : due[i] # j
      /\ page[w] \in Pages
  BY <1>1 DEF FreeRows, Insert, IndInv, TableInv, DueInv, Hand
<1>3. TypeOK'
  <2>1. jobs' \in [JobRows -> Row]
    <3>1. [status |-> "pending", target |-> page[w], attempts |-> 0, due_in |-> 0] \in Row
      BY <1>2, Constants DEF Row, Status, Pages
    <3> QED
      BY <1>1, <1>2, <3>1 DEF IndInv, TableInv, TypeOK
  <2>2. due' \in Seq(JobRows)
    BY <1>1, <1>2, AppendProperties DEF IndInv, TableInv, TypeOK
  <2> QED
    <3>1. pc' \in [Workers -> Steps]
      BY DEF Insert, IndInv, TableInv, TypeOK, Steps
    <3>2. page[w] + 1 \in 1..(NumPages + 1)
      BY <1>2, Constants DEF Pages
    <3>3. page' \in [Workers -> 1..(NumPages + 1)]
      BY <3>2 DEF Insert, IndInv, TableInv, TypeOK
    <3> QED
      BY <2>1, <2>2, <3>1, <3>3 DEF Insert, IndInv, TableInv, TypeOK
<1>4. RowsInv' /\ DeadWhenExhausted'
  BY <1>1, <1>2, Constants DEF IndInv, TableInv, TypeOK, RowsInv, DeadWhenExhausted
<1>5. DueInv'
  <2>1. /\ due \in Seq(JobRows) /\ Len(due') = Len(due) + 1 /\ Len(due) \in Nat
        /\ \A i \in 1..Len(due) : due'[i] = due[i] /\ due[i] \in JobRows
        /\ due'[Len(due) + 1] = j
    BY <1>1, <1>2, AppendProperties DEF IndInv, TableInv, TypeOK
  <2>2. Distinct(due')
    BY <1>2, <2>1 DEF IndInv, TableInv, DueInv, Distinct
  <2>3. \A i \in 1..Len(due') : jobs'[due'[i]].status = "pending" /\ jobs'[due'[i]].due_in = 0
    BY <1>1, <1>2, <2>1 DEF IndInv, TableInv, TypeOK, DueInv
  <2> QED
    BY <2>2, <2>3 DEF DueInv
<1>6. Hand(w)'
  BY DEF Insert, IndInv, TableInv, TypeOK, Hand, Working
<1>7. (\A v \in Workers : Hand(v))'
  BY <1>6, HandsStep DEF Insert, IndInv, TableInv, TypeOK
<1> QED
  BY <1>3, <1>4, <1>5, <1>7 DEF TableInv

LEMMA SelectStep ==
  ASSUME OneProcess, IndInv, NEW w \in Workers, Select(w)
  PROVE  TableInv'
<1>1. Head(due) \in JobRows /\ jobs[Head(due)].status = "pending"
  <2>1. due \in Seq(JobRows) /\ due # <<>>
    BY DEF Select, IndInv, TableInv, TypeOK
  <2>2. 1 \in 1..Len(due) /\ Head(due) = due[1]
    BY <2>1
  <2> QED
    BY <2>1, <2>2 DEF IndInv, TableInv, DueInv
<1>2. (RowsInv /\ DueInv /\ DeadWhenExhausted)'
  BY TableKept DEF Select
<1>3. TypeOK'
  <2>1. pc' \in [Workers -> Steps]
    BY DEF Select, IndInv, TableInv, TypeOK, Steps
  <2>2. Head(due) \in 0..MaxJobs /\ quota[w] - 1 \in 0..MaxJobsPerCycle
    <3>1. Head(due) \in 0..MaxJobs
      BY <1>1, Constants DEF JobRows
    <3>2. quota[w] \in 0..MaxJobsPerCycle /\ quota[w] > 0
      BY DEF Select, IndInv, TableInv, TypeOK
    <3> QED
      BY <3>1, <3>2, Constants
  <2>3. cur' \in [Workers -> 0..MaxJobs] /\ quota' \in [Workers -> 0..MaxJobsPerCycle]
    BY <2>2 DEF Select, IndInv, TableInv, TypeOK
  <2> QED
    BY <2>1, <2>3 DEF Select, IndInv, TableInv, TypeOK, table
<1>4. Hand(w)'
  BY <1>1 DEF Select, IndInv, TableInv, TypeOK, Hand, Working, table
<1>5. (\A v \in Workers : Hand(v))'
  BY <1>4, HandsStep DEF Select, IndInv, TableInv, TypeOK
<1> QED
  BY <1>2, <1>3, <1>5 DEF TableInv
LEMMA StartStep ==
  ASSUME OneProcess, IndInv, NEW w \in Workers, StartCycle(w)
  PROVE  TableInv'
<1>1. (RowsInv /\ DueInv /\ DeadWhenExhausted)'
  BY TableKept DEF StartCycle
<1>2. TypeOK'
  <2>1. pc' \in [Workers -> Steps]
    BY DEF StartCycle, IndInv, TableInv, TypeOK, Steps
  <2>2. locked' \subseteq {Process[v] : v \in Workers}
    BY DEF StartCycle, IndInv, TableInv, TypeOK
  <2>3. 1 \in 1..(NumPages + 1) /\ MaxJobsPerCycle \in 0..MaxJobsPerCycle
    BY Constants
  <2>4. page' \in [Workers -> 1..(NumPages + 1)] /\ quota' \in [Workers -> 0..MaxJobsPerCycle]
    BY <2>3 DEF StartCycle, IndInv, TableInv, TypeOK
  <2> QED
    BY <2>1, <2>2, <2>4 DEF StartCycle, IndInv, TableInv, TypeOK, table
<1>3. ASSUME NEW v \in Workers
      PROVE  Hand(v)'
  <2>1. CASE v = w
    BY <2>1 DEF StartCycle, IndInv, TableInv, TypeOK, Hand, Working, table
  <2>2. CASE v # w
    <3>1. Hand(v) /\ pc'[v] = pc[v] /\ page'[v] = page[v]
      BY <2>2 DEF StartCycle, IndInv, TableInv, TypeOK
    <3> QED
      BY <3>1 DEF StartCycle, Hand, table
  <2> QED
    BY <2>1, <2>2
<1> QED
  BY <1>1, <1>2, <1>3 DEF TableInv

LEMMA LeaveStep ==
  ASSUME OneProcess, IndInv, NEW w \in Workers, pc[w] # "idle", Leave(w), UNCHANGED table
  PROVE  TableInv'
<1>1. (RowsInv /\ DueInv /\ DeadWhenExhausted)'
  BY TableKept
<1>2. TypeOK'
  <2>1. /\ 0 \in 0..MaxJobs /\ 0 \in 0..MaxAttempts /\ 0 \in 0..CallTimeout
        /\ 0 \in 0..MaxJobsPerCycle /\ 1 \in 1..(NumPages + 1)
    BY Constants
  <2>2. /\ pc' \in [Workers -> Steps] /\ page' \in [Workers -> 1..(NumPages + 1)]
        /\ quota' \in [Workers -> 0..MaxJobsPerCycle]
    BY <2>1 DEF Leave, IndInv, TableInv, TypeOK, Steps
  <2>3. /\ cur' \in [Workers -> 0..MaxJobs] /\ seen' \in [Workers -> 0..MaxAttempts]
        /\ elapsed' \in [Workers -> 0..CallTimeout]
    BY <2>1 DEF Leave, DropJob, IndInv, TableInv, TypeOK
  <2> QED
    BY <2>2, <2>3 DEF Leave, IndInv, TableInv, TypeOK, table
<1>3. Hand(w)'
  BY DEF Leave, DropJob, IndInv, TableInv, TypeOK, Hand, Working
<1>4. (\A v \in Workers : Hand(v))'
  BY <1>3, HandsStep DEF Leave, DropJob, IndInv, TableInv, TypeOK
<1> QED
  BY <1>1, <1>2, <1>4 DEF TableInv

\* A worker writes the row of a job and takes it from the queue.
LEMMA Written ==
  ASSUME IndInv, NEW j \in JobRows, jobs[j].status # "free", jobs' \in [JobRows -> Row],
         jobs'[j].target = jobs[j].target,
         \A i \in JobRows : i # j => jobs'[i] = jobs[i],
         due' = WithoutJob(j)
  PROVE  due' \in Seq(JobRows) /\ RowsInv' /\ DueInv'
<1>1. due \in Seq(JobRows) /\ Distinct(due)
  BY DEF IndInv, TableInv, TypeOK, DueInv
<1>2. /\ due' \in Seq(JobRows) /\ Distinct(due')
      /\ \A i \in 1..Len(due') : due'[i] # j /\ \E k \in 1..Len(due) : due'[i] = due[k]
  BY <1>1, Removed
<1>3. RowsInv'
  BY DEF IndInv, TableInv, RowsInv
<1>4. \A i \in 1..Len(due') : due'[i] \in JobRows
  BY <1>2
<1>5. \A i \in 1..Len(due') : jobs'[due'[i]].status = "pending" /\ jobs'[due'[i]].due_in = 0
  BY <1>2, <1>4 DEF IndInv, TableInv, DueInv
<1> QED
  BY <1>2, <1>3, <1>5 DEF DueInv

\* A row with another status, other attempts and another delay.
LEMMA RowWith ==
  ASSUME NEW row \in Row, NEW s \in Status, NEW a \in 0..MaxAttempts, NEW d \in 0..BackoffCap
  PROVE  /\ [row EXCEPT !.attempts = a, !.status = s, !.due_in = d] \in Row
         /\ [row EXCEPT !.status = s, !.due_in = d] \in Row
  BY DEF Row

LEMMA MarkStep ==
  ASSUME OneProcess, IndInv, NEW w \in Workers, MarkRunning(w)
  PROVE  TableInv'
<1>1. cur[w] \in JobRows /\ jobs[cur[w]].status = "pending" /\ pc[w] = "mark"
  BY DEF MarkRunning, IndInv, TableInv, Hand
<1> DEFINE r == [jobs[cur[w]] EXCEPT !.status = "running", !.due_in = 0]
<1>2. r \in Row /\ r.target = jobs[cur[w]].target /\ r.attempts = jobs[cur[w]].attempts
      /\ r.status = "running"
  <2>1. jobs[cur[w]] \in Row
    BY <1>1 DEF IndInv, TableInv, TypeOK
  <2>2. "running" \in Status /\ 0 \in 0..BackoffCap /\ 0 \in 0..MaxAttempts
    BY Constants DEF Status
  <2>3. r \in Row
    BY <2>1, <2>2, RowWith
  <2> QED
    BY <2>1, <2>3 DEF Row
<1>3. jobs' = [jobs EXCEPT ![cur[w]] = r]
  BY <1>1 DEF MarkRunning, IndInv, TableInv, TypeOK
<1> HIDE DEF r
<1>4. jobs' \in [JobRows -> Row] /\ jobs'[cur[w]] = r
      /\ \A i \in JobRows : i # cur[w] => jobs'[i] = jobs[i]
  BY <1>1, <1>2, <1>3 DEF IndInv, TableInv, TypeOK
<1>5. due' \in Seq(JobRows) /\ RowsInv' /\ DueInv'
  BY <1>1, <1>2, <1>4, Written DEF MarkRunning
<1>6. TypeOK'
  <2>1. pc' \in [Workers -> Steps]
    BY DEF MarkRunning, IndInv, TableInv, TypeOK, Steps
  <2>2. 0 \in 0..CallTimeout
    BY Constants
  <2>3. elapsed' \in [Workers -> 0..CallTimeout]
    BY <2>2 DEF MarkRunning, IndInv, TableInv, TypeOK
  <2> QED
    BY <1>4, <1>5, <2>1, <2>3 DEF MarkRunning, IndInv, TableInv, TypeOK
<1>7. DeadWhenExhausted'
  BY <1>1, <1>2, <1>4 DEF IndInv, TableInv, DeadWhenExhausted
<1>8. Hand(w)'
  BY <1>1, <1>2, <1>4 DEF MarkRunning, IndInv, TableInv, TypeOK, Hand, Working
<1>9. (\A v \in Workers : Hand(v))'
  BY <1>1, <1>8, HandsStep DEF MarkRunning, IndInv, TableInv, TypeOK
<1> QED
  BY <1>5, <1>6, <1>7, <1>9 DEF TableInv

LEMMA CuratedStep ==
  ASSUME OneProcess, IndInv, NEW w \in Workers, Curated(w)
  PROVE  TableInv'
<1>1. cur[w] \in JobRows /\ jobs[cur[w]].status = "running" /\ pc[w] = "curate"
  BY DEF Curated, IndInv, TableInv, Hand, Working
<1>2. (RowsInv /\ DueInv /\ DeadWhenExhausted)'
  BY DEF Curated, IndInv, TableInv, RowsInv, DueInv, DeadWhenExhausted
<1>3. TypeOK'
  <2>1. pc' \in [Workers -> Steps]
    BY DEF Curated, IndInv, TableInv, TypeOK, Steps
  <2>2. elapsed[w] \in 0..MinRecurate
    BY Constants DEF IndInv, TableInv, TypeOK
  <2>3. age' \in [Pages -> 0..MinRecurate]
    BY <2>2 DEF Curated, IndInv, TableInv, TypeOK
  <2> QED
    BY <2>1, <2>3 DEF Curated, IndInv, TableInv, TypeOK
<1>4. Hand(w)'
  BY <1>1 DEF Curated, IndInv, TableInv, TypeOK, Hand, Working
<1>5. (\A v \in Workers : Hand(v))'
  BY <1>1, <1>4, HandsStep DEF Curated, IndInv, TableInv, TypeOK
<1> QED
  BY <1>2, <1>3, <1>5 DEF TableInv

\* The model or a statement has raised: fail is next.
LEMMA RaisesStep ==
  ASSUME OneProcess, IndInv, NEW w \in Workers, pc[w] \in {"curate", "complete"},
         pc' = [pc EXCEPT ![w] = "fail"],
         UNCHANGED <<table, locked, page, cur, seen, quota, elapsed>>
  PROVE  TableInv'
<1>1. cur[w] \in JobRows /\ jobs[cur[w]].status = "running"
  BY DEF IndInv, TableInv, Hand, Working
<1>2. (RowsInv /\ DueInv /\ DeadWhenExhausted)'
  BY TableKept
<1>3. TypeOK'
  BY DEF IndInv, TableInv, TypeOK, Steps, table
<1>4. Hand(w)'
  BY <1>1 DEF IndInv, TableInv, TypeOK, Hand, Working, table
<1>5. (\A v \in Workers : Hand(v))'
  BY <1>4, HandsStep DEF IndInv, TableInv, TypeOK
<1> QED
  BY <1>2, <1>3, <1>5 DEF TableInv

\* A worker is done with its job and goes on to the next.
LEMMA DroppedType ==
  ASSUME TypeOK, NEW w \in Workers, DropJob(w), pc' = [pc EXCEPT ![w] = "select"],
         jobs' \in [JobRows -> Row], due' \in Seq(JobRows),
         UNCHANGED <<age, locked, page, quota>>
  PROVE  TypeOK'
<1>1. 0 \in 0..MaxJobs /\ 0 \in 0..MaxAttempts /\ 0 \in 0..CallTimeout
  BY Constants
<1>2. /\ cur' \in [Workers -> 0..MaxJobs] /\ seen' \in [Workers -> 0..MaxAttempts]
      /\ elapsed' \in [Workers -> 0..CallTimeout]
  BY <1>1 DEF DropJob, TypeOK
<1>3. pc' \in [Workers -> Steps]
  BY DEF TypeOK, Steps
<1> QED
  BY <1>2, <1>3 DEF TypeOK

LEMMA CompleteStep ==
  ASSUME OneProcess, IndInv, NEW w \in Workers, Complete(w)
  PROVE  TableInv'
<1>1. cur[w] \in JobRows /\ jobs[cur[w]].status = "running" /\ pc[w] = "complete"
  BY DEF Complete, IndInv, TableInv, Hand, Working
<1> DEFINE r == [jobs[cur[w]] EXCEPT !.status = "done", !.due_in = 0]
<1>2. r \in Row /\ r.target = jobs[cur[w]].target /\ r.status = "done"
  <2>1. jobs[cur[w]] \in Row
    BY <1>1 DEF IndInv, TableInv, TypeOK
  <2>2. "done" \in Status /\ 0 \in 0..BackoffCap /\ 0 \in 0..MaxAttempts
    BY Constants DEF Status
  <2>3. r \in Row
    BY <2>1, <2>2, RowWith
  <2> QED
    BY <2>1, <2>3 DEF Row
<1>3. jobs' = [jobs EXCEPT ![cur[w]] = r]
  BY <1>1 DEF Complete, IndInv, TableInv, TypeOK
<1> HIDE DEF r
<1>4. jobs' \in [JobRows -> Row] /\ jobs'[cur[w]] = r
      /\ \A i \in JobRows : i # cur[w] => jobs'[i] = jobs[i]
  BY <1>1, <1>2, <1>3 DEF IndInv, TableInv, TypeOK
<1>5. due' \in Seq(JobRows) /\ RowsInv' /\ DueInv'
  BY <1>1, <1>2, <1>4, Written DEF Complete
<1>6. TypeOK'
  BY <1>4, <1>5, DroppedType DEF Complete, IndInv, TableInv
<1>7. DeadWhenExhausted'
  BY <1>1, <1>2, <1>4 DEF IndInv, TableInv, DeadWhenExhausted
<1>8. Hand(w)'
  BY DEF Complete, DropJob, IndInv, TableInv, TypeOK, Hand, Working
<1>9. (\A v \in Workers : Hand(v))'
  BY <1>1, <1>8, HandsStep DEF Complete, DropJob, IndInv, TableInv, TypeOK
<1> QED
  BY <1>5, <1>6, <1>7, <1>9 DEF TableInv

LEMMA FailReadsStep ==
  ASSUME OneProcess, IndInv, NEW w \in Workers, FailReads(w)
  PROVE  TableInv'
<1>1. cur[w] \in JobRows /\ jobs[cur[w]].status = "running" /\ pc[w] = "fail"
  BY DEF FailReads, IndInv, TableInv, Hand, Working
<1>2. (RowsInv /\ DueInv /\ DeadWhenExhausted)'
  BY TableKept DEF FailReads
<1>3. TypeOK'
  <2>1. pc' \in [Workers -> Steps]
    BY DEF FailReads, IndInv, TableInv, TypeOK, Steps
  <2>2. jobs[cur[w]].attempts \in 0..MaxAttempts /\ jobs[cur[w]].attempts < MaxAttempts
    BY <1>1 DEF IndInv, TableInv, TypeOK, Row, DeadWhenExhausted
  <2>3. jobs[cur[w]].attempts + 1 \in 0..MaxAttempts
    BY <2>2, Constants
  <2>4. seen' \in [Workers -> 0..MaxAttempts]
    BY <2>3 DEF FailReads, IndInv, TableInv, TypeOK
  <2> QED
    BY <2>1, <2>4 DEF FailReads, IndInv, TableInv, TypeOK, table
<1>4. Hand(w)'
  BY <1>1 DEF FailReads, IndInv, TableInv, TypeOK, Hand, Working, table
<1>5. (\A v \in Workers : Hand(v))'
  BY <1>1, <1>4, HandsStep DEF FailReads, IndInv, TableInv, TypeOK
<1> QED
  BY <1>2, <1>3, <1>5 DEF TableInv
LEMMA DelayBounds ==
  ASSUME NEW a \in 1..MaxAttempts
  PROVE  Delay(a) \in 1..BackoffCap
<1>1. BackoffBase * 2^(a - 1) \in Nat \ {0}
  BY BackoffAssumption
<1> QED
  BY <1>1, Constants DEF Delay

LEMMA RequeueStep ==
  ASSUME OneProcess, IndInv, NEW w \in Workers, Requeue(w)
  PROVE  TableInv'
<1>1. /\ cur[w] \in JobRows /\ jobs[cur[w]].status = "running" /\ pc[w] = "requeue"
      /\ seen[w] = jobs[cur[w]].attempts + 1
  BY DEF Requeue, IndInv, TableInv, Hand, Working
<1>2. seen[w] \in 1..MaxAttempts
  BY <1>1, Constants DEF IndInv, TableInv, TypeOK, Row
<1> DEFINE s == IF seen[w] >= MaxAttempts THEN "dead" ELSE "pending"
           d == IF seen[w] >= MaxAttempts THEN 0 ELSE Delay(seen[w])
           r == [jobs[cur[w]] EXCEPT !.attempts = seen[w], !.status = s, !.due_in = d]
<1>3. r \in Row /\ r.target = jobs[cur[w]].target /\ r.attempts = seen[w] /\ r.status = s
  <2>1. jobs[cur[w]] \in Row
    BY <1>1 DEF IndInv, TableInv, TypeOK
  <2>2. s \in Status /\ d \in 0..BackoffCap /\ seen[w] \in 0..MaxAttempts
    BY <1>2, DelayBounds, Constants DEF Status
  <2> HIDE DEF s, d
  <2>3. r \in Row
    BY <2>1, <2>2, RowWith
  <2> QED
    BY <2>1, <2>3 DEF Row
<1>4. jobs' = [jobs EXCEPT ![cur[w]] = r]
  BY <1>1 DEF Requeue, IndInv, TableInv, TypeOK
<1>5. \/ s = "dead" /\ seen[w] = MaxAttempts
      \/ s = "pending" /\ seen[w] < MaxAttempts
  BY <1>2, Constants
<1> HIDE DEF r, s, d
<1>6. jobs' \in [JobRows -> Row] /\ jobs'[cur[w]] = r
      /\ \A i \in JobRows : i # cur[w] => jobs'[i] = jobs[i]
  BY <1>1, <1>3, <1>4 DEF IndInv, TableInv, TypeOK
<1>7. due' \in Seq(JobRows) /\ RowsInv' /\ DueInv'
  BY <1>1, <1>3, <1>6, Written DEF Requeue
<1>8. TypeOK'
  BY <1>6, <1>7, DroppedType DEF Requeue, IndInv, TableInv
<1>9. DeadWhenExhausted'
  BY <1>1, <1>3, <1>5, <1>6 DEF IndInv, TableInv, DeadWhenExhausted
<1>10. Hand(w)'
  BY DEF Requeue, DropJob, IndInv, TableInv, TypeOK, Hand, Working
<1>11. (\A v \in Workers : Hand(v))'
  BY <1>1, <1>10, HandsStep DEF Requeue, DropJob, IndInv, TableInv, TypeOK
<1> QED
  BY <1>7, <1>8, <1>9, <1>11 DEF TableInv

LEMMA CrashStep ==
  ASSUME OneProcess, IndInv, NEW w \in Workers, Crash(Process[w])
  PROVE  TableInv'
<1>1. (RowsInv /\ DueInv /\ DeadWhenExhausted)'
  BY TableKept DEF Crash
<1>2. \A v \in Workers : Process[v] = Process[w]
  BY DEF OneProcess
<1>3. /\ pc' = [v \in Workers |-> "idle"] /\ page' = [v \in Workers |-> 1]
      /\ cur' = [v \in Workers |-> 0] /\ seen' = [v \in Workers |-> 0]
      /\ quota' = [v \in Workers |-> 0] /\ elapsed' = [v \in Workers |-> 0]
      /\ locked' \subseteq locked
  BY <1>2 DEF Crash
<1>4. TypeOK'
  <2>1. /\ 0 \in 0..MaxJobs /\ 0 \in 0..MaxAttempts /\ 0 \in 0..CallTimeout
        /\ 0 \in 0..MaxJobsPerCycle /\ 1 \in 1..(NumPages + 1)
    BY Constants
  <2> QED
    BY <1>3, <2>1 DEF Crash, IndInv, TableInv, TypeOK, Steps, table
<1>5. (\A v \in Workers : Hand(v))'
  BY <1>3 DEF Hand, Working
<1> QED
  BY <1>1, <1>4, <1>5 DEF TableInv

LEMMA ReviveStep ==
  ASSUME OneProcess, IndInv, Revive
  PROVE  TableInv'
<1>1. PICK s \in SetToSeqs(Dead) : due' = due \o s
  BY DEF Revive
<1>2. /\ due \in Seq(JobRows) /\ Distinct(due) /\ Dead \in SUBSET JobRows
      /\ \A i \in 1..Len(due) : due[i] \in JobRows /\ due[i] \notin Dead
  BY DEF IndInv, TableInv, TypeOK, DueInv, Dead
<1>3. /\ due' \in Seq(JobRows) /\ Distinct(due')
      /\ \A i \in 1..Len(due') : due'[i] \in Dead \/ \E k \in 1..Len(due) : due'[i] = due[k]
  BY <1>1, <1>2, Joined
<1>4. \A j \in JobRows \ Dead : jobs'[j] = jobs[j]
  BY DEF Revive
<1>5. \A j \in Dead : /\ jobs'[j] \in Row
                      /\ jobs'[j].status = "pending" /\ jobs'[j].due_in = 0
                      /\ jobs'[j].attempts = 0 /\ jobs'[j].target = jobs[j].target
  <2> SUFFICES ASSUME NEW j \in Dead
               PROVE  /\ jobs'[j] \in Row
                      /\ jobs'[j].status = "pending" /\ jobs'[j].due_in = 0
                      /\ jobs'[j].attempts = 0 /\ jobs'[j].target = jobs[j].target
    OBVIOUS
  <2>1. /\ jobs[j] \in Row
        /\ jobs'[j] = [jobs[j] EXCEPT !.status = "pending", !.attempts = 0, !.due_in = 0]
    BY DEF Revive, Dead, IndInv, TableInv, TypeOK
  <2>2. "pending" \in Status /\ 0 \in 0..BackoffCap /\ 0 \in 0..MaxAttempts
    BY Constants DEF Status
  <2> QED
    BY <2>1, <2>2 DEF Row
<1>6. jobs' \in [JobRows -> Row]
  BY <1>4, <1>5 DEF Revive, IndInv, TableInv, TypeOK
<1>7. TypeOK'
  BY <1>3, <1>6 DEF Revive, IndInv, TableInv, TypeOK
<1>8. RowsInv'
  BY <1>4, <1>5 DEF RowsInv, IndInv, TableInv, Dead
<1>9. DueInv'
  BY <1>2, <1>3, <1>4, <1>5 DEF DueInv, IndInv, TableInv
<1>10. DeadWhenExhausted'
  BY <1>4, <1>5, Constants DEF DeadWhenExhausted, IndInv, TableInv
<1>11. (\A v \in Workers : Hand(v))'
  <2> SUFFICES ASSUME NEW v \in Workers
               PROVE  Hand(v)'
    OBVIOUS
  <2>1. Hand(v) /\ pc' = pc /\ cur' = cur /\ seen' = seen /\ page' = page
    BY DEF Revive, IndInv, TableInv
  <2>2. cur[v] \in JobRows /\ jobs[cur[v]].status # "dead" => jobs'[cur[v]] = jobs[cur[v]]
    BY <1>4 DEF Dead
  <2> QED
    BY <2>1, <2>2 DEF Hand, Working
<1> QED
  BY <1>7, <1>8, <1>9, <1>10, <1>11 DEF TableInv

LEMMA TickStep ==
  ASSUME OneProcess, IndInv, Tick
  PROVE  TableInv'
<1> DEFINE Now == {j \in Waiting : jobs[j].due_in = 1}
<1>1. PICK s \in SetToSeqs(Now) : due' = due \o s
  BY DEF Tick
<1>2. /\ due \in Seq(JobRows) /\ Distinct(due) /\ Now \in SUBSET JobRows
      /\ \A i \in 1..Len(due) : due[i] \in JobRows /\ due[i] \notin Waiting /\ due[i] \notin Now
  BY DEF IndInv, TableInv, TypeOK, DueInv, Waiting
<1>3. /\ due' \in Seq(JobRows) /\ Distinct(due')
      /\ \A i \in 1..Len(due') : due'[i] \in Now \/ \E k \in 1..Len(due) : due'[i] = due[k]
  <2> HIDE DEF Now
  <2> QED
    BY <1>1, <1>2, Joined
<1>4. \A j \in JobRows \ Waiting : jobs'[j] = jobs[j]
  BY DEF Tick
<1>5. \A j \in Waiting : /\ jobs'[j] \in Row
                         /\ jobs'[j].status = "pending" /\ jobs'[j].due_in = jobs[j].due_in - 1
                         /\ jobs'[j].attempts = jobs[j].attempts
                         /\ jobs'[j].target = jobs[j].target
  <2> SUFFICES ASSUME NEW j \in Waiting
               PROVE  /\ jobs'[j] \in Row
                      /\ jobs'[j].status = "pending" /\ jobs'[j].due_in = jobs[j].due_in - 1
                      /\ jobs'[j].attempts = jobs[j].attempts
                      /\ jobs'[j].target = jobs[j].target
    OBVIOUS
  <2>1. /\ jobs[j] \in Row /\ jobs[j].status = "pending" /\ jobs[j].due_in > 0
        /\ jobs'[j] = [jobs[j] EXCEPT !.due_in = jobs[j].due_in - 1]
    BY DEF Tick, Waiting, IndInv, TableInv, TypeOK
  <2>2. jobs[j].due_in - 1 \in 0..BackoffCap
    BY <2>1, Constants DEF Row
  <2> QED
    BY <2>1, <2>2 DEF Row
<1>6. jobs' \in [JobRows -> Row]
  BY <1>4, <1>5 DEF Tick, IndInv, TableInv, TypeOK
<1>7. TypeOK'
  <2>1. age' \in [Pages -> 0..MinRecurate]
    <3>1. \A p \in Pages : Older(age[p]) \in 0..MinRecurate
      BY Constants DEF Older, IndInv, TableInv, TypeOK
    <3> QED
      BY <3>1 DEF Tick
  <2>2. elapsed' \in [Workers -> 0..CallTimeout]
    <3>1. ASSUME NEW w \in Workers, pc[w] = "curate"
          PROVE  elapsed[w] + 1 \in 0..CallTimeout
      <4>1. elapsed[w] \in 0..CallTimeout /\ elapsed[w] < CallTimeout
        BY <3>1 DEF Tick, IndInv, TableInv, TypeOK
      <4> QED
        BY <4>1, Constants
    <3> QED
      BY <3>1 DEF Tick, IndInv, TableInv, TypeOK
  <2> QED
    BY <1>3, <1>6, <2>1, <2>2 DEF Tick, IndInv, TableInv, TypeOK
<1>8. RowsInv'
  BY <1>4, <1>5 DEF RowsInv, IndInv, TableInv, Waiting
<1>9. DueInv'
  <2>1. ASSUME NEW i \in 1..Len(due')
        PROVE  jobs'[due'[i]].status = "pending" /\ jobs'[due'[i]].due_in = 0
    <3>1. CASE due'[i] \in Now
      BY <3>1, <1>5
    <3>2. CASE \E k \in 1..Len(due) : due'[i] = due[k]
      BY <3>2, <1>2, <1>4 DEF IndInv, TableInv, DueInv
    <3> QED
      BY <3>1, <3>2, <1>3
  <2> QED
    BY <2>1, <1>3 DEF DueInv
<1>10. DeadWhenExhausted'
  BY <1>4, <1>5 DEF DeadWhenExhausted, IndInv, TableInv, Waiting
<1>11. (\A v \in Workers : Hand(v))'
  <2> SUFFICES ASSUME NEW v \in Workers
               PROVE  Hand(v)'
    OBVIOUS
  <2>1. cur[v] \in JobRows => jobs'[cur[v]].status = jobs[cur[v]].status
                             /\ jobs'[cur[v]].attempts = jobs[cur[v]].attempts
    BY <1>4, <1>5 DEF Waiting
  <2> QED
    BY <2>1 DEF Tick, IndInv, TableInv, Hand
<1> QED
  BY <1>7, <1>8, <1>9, <1>10, <1>11 DEF TableInv

LEMMA IndStep ==
  ASSUME OneProcess, IndInv, [Next]_vars
  PROVE  IndInv'
<1> SUFFICES TableInv'
  BY LockStep DEF IndInv
<1>1. ASSUME NEW w \in Workers, StartCycle(w) PROVE TableInv'
  BY <1>1, StartStep
<1>2. ASSUME NEW w \in Workers, Work(w) PROVE TableInv'
  <2>1. CASE EndCycle(w)
    BY <2>1, LeaveStep DEF EndCycle
  <2>2. CASE CurateRaises(w)
    BY <2>2, RaisesStep DEF CurateRaises
  <2> QED
    BY <1>2, <2>1, <2>2, PlanStep, InsertStep, SelectStep, MarkStep, CuratedStep, CompleteStep,
       FailReadsStep, RequeueStep DEF Work
<1>3. ASSUME NEW w \in Workers, StatementRaises(w) PROVE TableInv'
  <2>1. CASE pc[w] = "complete" /\ pc' = [pc EXCEPT ![w] = "fail"]
             /\ UNCHANGED <<locked, page, cur, seen, quota, elapsed>>
    BY <1>3, <2>1, RaisesStep DEF StatementRaises
  <2>2. CASE pc[w] # "idle" /\ Leave(w)
    BY <1>3, <2>2, LeaveStep DEF StatementRaises
  <2> QED
    BY <1>3, <2>1, <2>2 DEF StatementRaises
<1>4. ASSUME NEW w \in Workers, Crash(Process[w]) PROVE TableInv'
  BY <1>4, CrashStep
<1>5. CASE Revive
  BY <1>5, ReviveStep
<1>6. CASE Tick
  BY <1>6, TickStep
<1>7. CASE UNCHANGED vars
  BY <1>7 DEF vars, IndInv, TableInv, TypeOK, RowsInv, DueInv, DeadWhenExhausted, Hand
<1> QED
  BY <1>1, <1>2, <1>3, <1>4, <1>5, <1>6, <1>7 DEF Next

LEMMA Inductive ==
  ASSUME OneProcess
  PROVE  Spec => []IndInv
<1>1. IndInv /\ [Next]_vars => IndInv'
  BY IndStep
<1> QED
  BY <1>1, InitIndInv, PTL DEF Spec

\* Every variable of the curator stays in its domain; seen does so because no
\* other worker counts the attempts of the same job.
THEOREM TypeCorrect ==
  ASSUME OneProcess
  PROVE  Spec => []TypeOK
<1>1. IndInv => TypeOK
  BY DEF IndInv, TableInv
<1> QED
  BY <1>1, Inductive, PTL

\* fail: a job is dead exactly when its attempts are used up, whatever crashes,
\* fails or is revived.
THEOREM RetriedToTheEnd ==
  ASSUME OneProcess
  PROVE  Spec => []DeadWhenExhausted
<1>1. IndInv => DeadWhenExhausted
  BY DEF IndInv, TableInv
<1> QED
  BY <1>1, Inductive, PTL

(***************************************************************************)
(* One unfinished job per page, and the memory of earlier runs.            *)
(***************************************************************************)
Unfinished(j) == jobs[j].status \in {"pending", "running"}

\* What enqueue has checked still holds when it inserts.
DedupeInv ==
  /\ \A i, j \in JobRows : Unfinished(i) /\ Unfinished(j) /\ jobs[i].target = jobs[j].target => i = j
  /\ \A w \in Workers : pc[w] = "insert" =>
       \A j \in JobRows : Unfinished(j) => jobs[j].target # page[w]

\* No job becomes unfinished but by the insertion, no target changes, and no
\* worker comes to the insertion but by the check.
LEMMA TargetsKept ==
  ASSUME OneProcess, IndInv, [Next]_vars, "revive" \notin Events,
         \A w \in Workers : ~Insert(w)
  PROVE  \A j \in JobRows : Unfinished(j)' => Unfinished(j) /\ jobs'[j].target = jobs[j].target
<1>1. CASE UNCHANGED jobs
  BY <1>1 DEF Unfinished
<1>2. ASSUME NEW w \in Workers, MarkRunning(w) \/ Complete(w) \/ Requeue(w)
      PROVE  \A j \in JobRows : Unfinished(j)' => Unfinished(j) /\ jobs'[j].target = jobs[j].target
  <2>1. cur[w] \in JobRows /\ Unfinished(cur[w])
    BY <1>2 DEF MarkRunning, Complete, Requeue, IndInv, TableInv, Hand, Working, Unfinished
  <2>2. /\ jobs'[cur[w]].target = jobs[cur[w]].target
        /\ \A j \in JobRows : j # cur[w] => jobs'[j] = jobs[j]
    BY <1>2, <2>1 DEF MarkRunning, Complete, Requeue, IndInv, TableInv, TypeOK, Row
  <2> QED
    BY <2>1, <2>2 DEF Unfinished
<1>3. CASE Tick
  <2>1. \A j \in JobRows : jobs'[j].status = jobs[j].status /\ jobs'[j].target = jobs[j].target
    BY <1>3 DEF Tick, IndInv, TableInv, TypeOK, Row
  <2> QED
    BY <2>1 DEF Unfinished
<1> QED
  BY <1>1, <1>2, <1>3 DEF Next, Work, StartCycle, Plan, Select, EndCycle, Curated, CurateRaises,
     FailReads, StatementRaises, Crash, Revive, vars, table

LEMMA InsertFollowsPlan ==
  ASSUME OneProcess, IndInv, [Next]_vars, NEW w \in Workers, pc'[w] = "insert"
  PROVE  /\ UNCHANGED page
         /\ \/ Plan(w) /\ age[page[w]] >= MinRecurate /\ Live(page[w]) = {}
            \/ pc[w] = "insert"
<1>1. ASSUME NEW v \in Workers, StartCycle(v) \/ Work(v) \/ StatementRaises(v)
      PROVE  \/ Plan(w) /\ age[page[w]] >= MinRecurate /\ Live(page[w]) = {} /\ UNCHANGED page
             \/ pc[w] = "insert" /\ UNCHANGED page
  <2>1. v = w \/ pc[w] # "insert"
    BY <1>1, Alone DEF StartCycle, Work, Plan, Insert, Select, EndCycle, MarkRunning, Curated,
       CurateRaises, Complete, FailReads, Requeue, StatementRaises, IndInv, LockInv, OneProcess
  <2>2. pc' = [pc EXCEPT ![v] = pc'[v]]
    BY <1>1 DEF StartCycle, Work, Plan, Insert, Select, EndCycle, MarkRunning, Curated, Leave,
       CurateRaises, Complete, FailReads, Requeue, StatementRaises, IndInv, LockInv
  <2>3. v = w
    BY <2>1, <2>2 DEF IndInv, LockInv
  <2> QED
    BY <1>1, <2>3 DEF StartCycle, Work, Plan, Insert, Select, EndCycle, MarkRunning, Curated, Leave,
       CurateRaises, Complete, FailReads, Requeue, StatementRaises, IndInv, LockInv
<1>2. ASSUME NEW v \in Workers, Crash(Process[v])
      PROVE  FALSE
  BY <1>2 DEF Crash, OneProcess
<1> QED
  BY <1>1, <1>2 DEF Next, Revive, Tick, vars
LEMMA DedupeStep ==
  ASSUME OneProcess, IndInv, DedupeInv, [Next]_vars, "revive" \notin Events
  PROVE  DedupeInv'
<1>1. CASE \E w \in Workers : Insert(w)
  <2>1. PICK w \in Workers : Insert(w)
    BY <1>1
  <2>2. PICK j \in FreeRows :
          jobs' = [jobs EXCEPT ![j] = [status |-> "pending", target |-> page[w],
                                       attempts |-> 0, due_in |-> 0]]
    BY <2>1 DEF Insert
  <2>3. /\ j \in JobRows /\ jobs'[j].target = page[w]
        /\ \A i \in JobRows : i # j => jobs'[i] = jobs[i]
    BY <2>2 DEF FreeRows, IndInv, TableInv, TypeOK
  <2>4. \A i \in JobRows : i # j /\ Unfinished(i)' => Unfinished(i) /\ jobs'[i].target # page[w]
    BY <2>1, <2>3 DEF DedupeInv, Unfinished, Insert
  <2>5. \A i, k \in JobRows :
          Unfinished(i)' /\ Unfinished(k)' /\ jobs'[i].target = jobs'[k].target => i = k
    BY <2>3, <2>4 DEF DedupeInv
  <2>6. page' # page
    <3>1. page'[w] = page[w] + 1 /\ page[w] \in Nat
      BY <2>1, Constants DEF Insert, IndInv, TableInv, TypeOK
    <3> QED
      BY <3>1
  <2>7. \A v \in Workers : pc'[v] # "insert"
    BY <2>6, InsertFollowsPlan
  <2> QED
    BY <2>5, <2>7 DEF DedupeInv
<1>2. CASE ~\E w \in Workers : Insert(w)
  <2>1. \A j \in JobRows : Unfinished(j)' => Unfinished(j) /\ jobs'[j].target = jobs[j].target
    BY <1>2, TargetsKept
  <2>2. ASSUME NEW w \in Workers, pc'[w] = "insert", NEW j \in JobRows, Unfinished(j)'
        PROVE  jobs'[j].target # page'[w]
    <3>1. page' = page /\ (Live(page[w]) = {} \/ pc[w] = "insert")
      BY <2>2, InsertFollowsPlan
    <3>2. CASE Live(page[w]) = {}
      BY <2>1, <2>2, <3>1, <3>2 DEF Live, Unfinished
    <3>3. CASE pc[w] = "insert"
      BY <2>1, <2>2, <3>1, <3>3 DEF DedupeInv
    <3> QED
      BY <3>1, <3>2, <3>3
  <2> QED
    BY <2>1, <2>2 DEF DedupeInv
<1> QED
  BY <1>1, <1>2

LEMMA InitDedupe == Init => DedupeInv
  BY DEF Init, DedupeInv, Unfinished

LEMMA DedupeInvariant ==
  ASSUME OneProcess, "revive" \notin Events
  PROVE  Spec => [](IndInv /\ DedupeInv)
<1>1. IndInv /\ DedupeInv /\ [Next]_vars => IndInv' /\ DedupeInv'
  BY IndStep, DedupeStep
<1> QED
  BY <1>1, InitIndInv, InitDedupe, PTL DEF Spec

\* enqueue: a page never has two unfinished jobs, as long as nobody revives
\* dead ones; a restart of the process does not change that.
THEOREM NeverQueuedTwice ==
  ASSUME OneProcess, "revive" \notin Events
  PROVE  Spec => []OneLiveJobPerPage
<1>1. ASSUME DedupeInv, NEW p \in Pages
      PROVE  Cardinality(Live(p)) <= 1
  <2>1. CASE Live(p) = {}
    BY <2>1, FS_EmptySet
  <2>2. CASE Live(p) # {}
    <3>1. PICK j \in Live(p) : TRUE
      BY <2>2
    <3>2. Live(p) = {j}
      BY <1>1, <3>1 DEF Live, DedupeInv, Unfinished
    <3> QED
      BY <3>2, FS_Singleton
  <2> QED
    BY <2>1, <2>2
<1>2. DedupeInv => OneLiveJobPerPage
  BY <1>1 DEF OneLiveJobPerPage
<1> QED
  BY <1>2, DedupeInvariant, PTL

\* The page of a job that is pending, about to be inserted or not yet curated
\* has had its rest.
RestInv ==
  /\ \A j \in JobRows : jobs[j].status = "pending" => age[jobs[j].target] = MinRecurate
  /\ \A w \in Workers : pc[w] = "insert" => age[page[w]] = MinRecurate
  /\ \A w \in Workers : pc[w] \in {"curate", "fail", "requeue"} =>
                          age[jobs[cur[w]].target] = MinRecurate

LEMMA InitRest == Init => RestInv
  BY DEF Init, RestInv

\* A step of one worker that leaves pages and targets as they are.
LEMMA RestKept ==
  ASSUME OneProcess, IndInv, RestInv, NEW w \in Workers, pc[w] # "idle",
         pc' = [pc EXCEPT ![w] = pc'[w]], age' = age,
         \A j \in JobRows : jobs'[j].target = jobs[j].target,
         \A j \in JobRows : jobs'[j].status = "pending" =>
           jobs[j].status = "pending" \/ age[jobs[j].target] = MinRecurate,
         pc'[w] = "insert" => age[page'[w]] = MinRecurate,
         pc'[w] \in {"curate", "fail", "requeue"} =>
           age[jobs'[cur'[w]].target] = MinRecurate
  PROVE  RestInv'
<1>1. \A j \in JobRows : jobs'[j].status = "pending" => age'[jobs'[j].target] = MinRecurate
  BY DEF RestInv
<1>2. \A v \in Workers : v # w => pc'[v] = "idle"
  BY Alone DEF IndInv, LockInv
<1> QED
  BY <1>1, <1>2 DEF RestInv

LEMMA RestStep ==
  ASSUME OneProcess, Events \subseteq {"crash"}, IndInv, DedupeInv, RestInv, [Next]_vars
  PROVE  RestInv'
<1> USE DEF IndInv, TableInv
<1>1. ASSUME NEW w \in Workers, StartCycle(w) PROVE RestInv'
  <2>1. \A v \in Workers : pc'[v] \in {"insert", "curate", "fail", "requeue"} =>
          v # w /\ pc[v] # "idle"
    BY <1>1 DEF StartCycle, LockInv
  <2>2. \A v \in Workers : pc'[v] \notin {"insert", "curate", "fail", "requeue"}
    BY <1>1, <2>1 DEF StartCycle, LockInv, OneProcess
  <2> QED
    BY <1>1, <2>2 DEF StartCycle, RestInv, table
<1>2. ASSUME NEW w \in Workers, Plan(w) PROVE RestInv'
  <2>1. pc'[w] = "insert" => age[page'[w]] = MinRecurate
    <3> SUFFICES ASSUME pc'[w] = "insert" PROVE age[page'[w]] = MinRecurate
      OBVIOUS
    <3>1. page[w] \in Pages /\ age[page[w]] >= MinRecurate /\ page' = page
      BY <1>2 DEF Plan, LockInv
    <3>2. age[page[w]] \in 0..MinRecurate
      BY <3>1 DEF TypeOK
    <3> QED
      BY <3>1, <3>2, Constants
  <2> QED
    BY <1>2, <2>1, RestKept DEF Plan, LockInv, table
<1>3. ASSUME NEW w \in Workers, Insert(w) PROVE RestInv'
  <2>1. PICK j \in FreeRows :
          jobs' = [jobs EXCEPT ![j] = [status |-> "pending", target |-> page[w],
                                       attempts |-> 0, due_in |-> 0]]
    BY <1>3 DEF Insert
  <2>2. /\ j \in JobRows /\ jobs'[j].target = page[w] /\ age' = age
        /\ \A i \in JobRows : i # j => jobs'[i] = jobs[i]
    BY <1>3, <2>1 DEF FreeRows, Insert, TypeOK
  <2>3. \A i \in JobRows : jobs'[i].status = "pending" => age'[jobs'[i].target] = MinRecurate
    BY <1>3, <2>2 DEF RestInv, Insert
  <2>4. \A v \in Workers : pc'[v] \in {"idle", "plan"}
    BY <1>3, Alone DEF Insert, LockInv
  <2> QED
    BY <2>3, <2>4 DEF RestInv
<1>4. ASSUME NEW w \in Workers, Select(w) PROVE RestInv'
  BY <1>4, RestKept DEF Select, LockInv, table
<1>5. ASSUME NEW w \in Workers, EndCycle(w) PROVE RestInv'
  <2>1. /\ pc[w] # "idle" /\ age' = age /\ jobs' = jobs
        /\ pc' = [pc EXCEPT ![w] = "idle"]
    BY <1>5 DEF EndCycle, Leave, table
  <2>2. pc'[w] = "idle" /\ pc' = [pc EXCEPT ![w] = pc'[w]]
    BY <2>1 DEF LockInv
  <2>3. \A j \in JobRows : /\ jobs'[j].target = jobs[j].target
                           /\ jobs'[j].status = "pending" => jobs[j].status = "pending"
    BY <2>1
  <2> QED
    BY <2>1, <2>2, <2>3, RestKept
<1>6. ASSUME NEW w \in Workers, MarkRunning(w) PROVE RestInv'
  <2>1. cur[w] \in JobRows /\ jobs[cur[w]].status = "pending" /\ pc[w] = "mark"
    BY <1>6 DEF MarkRunning, Hand
  <2>2. /\ \A j \in JobRows : jobs'[j].target = jobs[j].target
        /\ \A j \in JobRows : jobs'[j].status = "pending" => jobs[j].status = "pending"
    BY <1>6, <2>1 DEF MarkRunning, TypeOK, Row
  <2> QED
    <3>1. /\ pc[w] # "idle" /\ age' = age /\ cur' = cur
          /\ pc'[w] = "curate" /\ pc' = [pc EXCEPT ![w] = pc'[w]]
      BY <1>6, <2>1 DEF MarkRunning, LockInv
    <3>2. age[jobs'[cur'[w]].target] = MinRecurate
      BY <2>1, <2>2, <3>1 DEF RestInv
    <3> QED
      BY <2>2, <3>1, <3>2, RestKept
<1>7. ASSUME NEW w \in Workers, Curated(w) PROVE RestInv'
  <2>1. cur[w] \in JobRows /\ jobs[cur[w]].status = "running" /\ pc[w] = "curate"
    BY <1>7 DEF Curated, Hand, Working
  <2>2. \A j \in JobRows : jobs[j].status = "pending" => jobs[j].target # jobs[cur[w]].target
    BY <2>1 DEF DedupeInv, Unfinished
  <2>3. \A j \in JobRows : jobs[j].status = "pending" => age'[jobs[j].target] = age[jobs[j].target]
    BY <1>7, <2>2 DEF Curated, TypeOK, RowsInv
  <2>4. \A v \in Workers : pc'[v] \in {"idle", "complete"}
    BY <1>7, <2>1, Alone DEF Curated, LockInv
  <2> QED
    BY <1>7, <2>3, <2>4 DEF Curated, RestInv
<1>8. ASSUME NEW w \in Workers, CurateRaises(w) \/ FailReads(w) PROVE RestInv'
  BY <1>8, RestKept DEF CurateRaises, FailReads, LockInv, table, RestInv
<1>9. ASSUME NEW w \in Workers, Complete(w) PROVE RestInv'
  <2>1. cur[w] \in JobRows /\ pc[w] = "complete"
    BY <1>9 DEF Complete, Hand, Working
  <2>2. /\ \A j \in JobRows : jobs'[j].target = jobs[j].target
        /\ \A j \in JobRows : jobs'[j].status = "pending" => jobs[j].status = "pending"
    BY <1>9, <2>1 DEF Complete, TypeOK, Row
  <2> QED
    BY <1>9, <2>1, <2>2, RestKept DEF Complete, LockInv
<1>10. ASSUME NEW w \in Workers, Requeue(w) PROVE RestInv'
  <2>1. cur[w] \in JobRows /\ pc[w] = "requeue" /\ age[jobs[cur[w]].target] = MinRecurate
    BY <1>10 DEF Requeue, Hand, Working, RestInv
  <2>2. /\ \A j \in JobRows : jobs'[j].target = jobs[j].target
        /\ \A j \in JobRows : j # cur[w] => jobs'[j] = jobs[j]
    BY <1>10, <2>1 DEF Requeue, TypeOK, Row
  <2> QED
    <3>1. /\ pc[w] # "idle" /\ pc' = [pc EXCEPT ![w] = pc'[w]] /\ pc'[w] = "select" /\ age' = age
      BY <1>10 DEF Requeue, LockInv
    <3>2. \A j \in JobRows : jobs'[j].status = "pending" =>
            jobs[j].status = "pending" \/ age[jobs[j].target] = MinRecurate
      BY <2>1, <2>2
    <3> QED
      BY <2>2, <3>1, <3>2, RestKept
<1>11. ASSUME NEW w \in Workers, Crash(Process[w]) PROVE RestInv'
  BY <1>11 DEF Crash, OneProcess, RestInv, table
<1>12. CASE Tick
  <2>1. /\ \A j \in JobRows : jobs'[j].status = jobs[j].status /\ jobs'[j].target = jobs[j].target
        /\ pc' = pc /\ page' = page /\ cur' = cur
    BY <1>12 DEF Tick, TypeOK, Row
  <2>2. \A p \in Pages : age[p] = MinRecurate => age'[p] = MinRecurate
    BY <1>12, Constants DEF Tick, Older
  <2>3. \A j \in JobRows : jobs[j].status # "free" => jobs[j].target \in Pages
    BY DEF RowsInv
  <2>4. \A w \in Workers : /\ pc[w] = "insert" => page[w] \in Pages
                           /\ pc[w] \in {"curate", "fail", "requeue"} =>
                                cur[w] \in JobRows /\ jobs[cur[w]].status = "running"
    BY DEF Hand, Working
  <2> QED
    BY <2>1, <2>2, <2>3, <2>4 DEF RestInv
<1>13. CASE UNCHANGED vars
  BY <1>13 DEF vars, RestInv
<1> QED
  BY <1>1, <1>2, <1>3, <1>4, <1>5, <1>6, <1>7, <1>8, <1>9, <1>10, <1>11, <1>12, <1>13
     DEF Next, Work, StatementRaises, Revive

\* The curator remembers earlier runs: however its process is restarted, a page
\* is not given to the model again before _MIN_RECURATE_S have passed, if no
\* statement fails and nobody revives dead jobs.
THEOREM WorkIsNotRepeated ==
  ASSUME OneProcess, Events \subseteq {"crash"}
  PROVE  Spec => NotCuratedTooSoon
<1>1. "revive" \notin Events
  OBVIOUS
<1>2. IndInv /\ DedupeInv /\ RestInv /\ [Next]_vars => RestInv'
  BY RestStep
<1>3. Spec => []RestInv
  BY <1>1, <1>2, DedupeInvariant, InitRest, PTL DEF Spec
<1>4. IndInv /\ RestInv => \A w \in Workers : (pc[w] = "mark" /\ pc'[w] = "curate") =>
        age[jobs[cur[w]].target] = MinRecurate
  BY DEF IndInv, TableInv, Hand, RestInv
<1> QED
  BY <1>1, <1>3, <1>4, DedupeInvariant, PTL DEF NotCuratedTooSoon
(***************************************************************************)
(* The statements of the workers implement the queue of JobQueue.          *)
(***************************************************************************)
LEMMA HolderIs ==
  ASSUME OneProcess, IndInv, NEW j \in JobRows
  PROVE  /\ \A w \in Workers : Holds(w, j) => Holder(j) = w
         /\ (\A w \in Workers : ~Holds(w, j)) => Holder(j) = NoWorker
<1>1. \A v, w \in Workers : Holds(v, j) /\ Holds(w, j) => v = w
  BY Alone DEF Holds, Working
<1> QED
  BY <1>1 DEF Holder

LEMMA HolderIsNext ==
  ASSUME OneProcess, IndInv', NEW j \in JobRows
  PROVE  /\ \A w \in Workers : Holds(w, j)' => Holder(j)' = w
         /\ (\A w \in Workers : ~Holds(w, j)') => Holder(j)' = NoWorker
<1>1. \A v, w \in Workers : pc'[v] # "idle" /\ pc'[w] # "idle" => v = w
  BY DEF OneProcess, IndInv, LockInv
<1>2. \A v, w \in Workers : Holds(v, j)' /\ Holds(w, j)' => v = w
  BY <1>1 DEF Holds, Working
<1> QED
  BY <1>2 DEF Holder

LEMMA HoldersKept ==
  ASSUME OneProcess, IndInv, IndInv',
         \A w \in Workers, j \in JobRows : Holds(w, j)' <=> Holds(w, j)
  PROVE  [j \in JobRows |-> Holder(j)]' = [j \in JobRows |-> Holder(j)]
<1>1. \A j \in JobRows : Holder(j)' = Holder(j)
  BY HolderIs, HolderIsNext
<1> QED
  BY <1>1

LEMMA InitRefines == Init => Abstract!Init
<1> SUFFICES ASSUME Init PROVE Abstract!Init
  OBVIOUS
<1>1. \A j \in JobRows : jobs[j].status = "free" /\ Holder(j) = NoWorker
  BY DEF Init, Holder, Holds, Working
<1> QED
  BY <1>1 DEF Abstract!Init

\* A worker settles the job it holds.
LEMMA SettleRefines ==
  ASSUME OneProcess, IndInv, IndInv', NEW w \in Workers, pc[w] \in {"complete", "requeue"},
         pc' = [pc EXCEPT ![w] = "select"],
         cur' = [cur EXCEPT ![w] = 0],
         \A j \in JobRows : j # cur[w] => jobs'[j] = jobs[j],
         jobs'[cur[w]].status \in {"done", "pending", "dead"}
  PROVE  Abstract!Settle(w, cur[w])
<1>1. cur[w] \in JobRows /\ Holds(w, cur[w])
  BY DEF IndInv, TableInv, Hand, Holds, Working
<1>2. \A v \in Workers, j \in JobRows : ~Holds(v, j)'
  BY Alone DEF Holds, Working, IndInv, LockInv
<1>3. Holder(cur[w]) = w /\ \A j \in JobRows : j # cur[w] => Holder(j) = NoWorker
  <2>1. \A v \in Workers, j \in JobRows : j # cur[w] => ~Holds(v, j)
    BY Alone DEF Holds, Working
  <2> QED
    BY <1>1, <2>1, HolderIs
<1>4. \A j \in JobRows : Holder(j)' = NoWorker
  BY <1>2, HolderIsNext
<1>5. [j \in JobRows |-> Holder(j)'] = [[j \in JobRows |-> Holder(j)] EXCEPT ![cur[w]] = NoWorker]
  BY <1>3, <1>4
<1>6. [j \in JobRows |-> jobs'[j].status]
        = [[j \in JobRows |-> jobs[j].status] EXCEPT ![cur[w]] = jobs'[cur[w]].status]
  BY <1>1
<1> QED
  BY <1>1, <1>3, <1>5, <1>6 DEF Abstract!Settle

LEMMA ClaimRefines ==
  ASSUME OneProcess, IndInv, IndInv', NEW w \in Workers, MarkRunning(w)
  PROVE  Abstract!Claim(w, cur[w])
<1>1. cur[w] \in JobRows /\ jobs[cur[w]].status = "pending" /\ pc[w] = "mark"
  BY DEF MarkRunning, IndInv, TableInv, Hand
<1>2. \A v \in Workers, j \in JobRows : ~Holds(v, j)
  BY <1>1, Alone DEF Holds, Working
<1>3. \A j \in JobRows : Holder(j) = NoWorker
  BY <1>2, HolderIs
<1>4. \A v \in Workers, j \in JobRows : Holds(v, j)' <=> v = w /\ j = cur[w]
  BY <1>1, Alone DEF MarkRunning, Holds, Working, IndInv, LockInv
<1>5. ASSUME NEW j \in JobRows PROVE Holder(j)' = IF j = cur[w] THEN w ELSE NoWorker
  <2>1. CASE j = cur[w]
    <3>1. Holds(w, j)'
      BY <1>4, <2>1
    <3> QED
      BY <2>1, <3>1, HolderIsNext
  <2>2. CASE j # cur[w]
    <3>1. \A v \in Workers : ~Holds(v, j)'
      BY <1>4, <2>2
    <3> QED
      BY <2>2, <3>1, HolderIsNext
  <2> QED
    BY <2>1, <2>2
<1>6. [j \in JobRows |-> Holder(j)'] = [[j \in JobRows |-> Holder(j)] EXCEPT ![cur[w]] = w]
  BY <1>3, <1>5
<1>7. \A j \in JobRows : jobs'[j].status = IF j = cur[w] THEN "running" ELSE jobs[j].status
  BY <1>1 DEF MarkRunning, IndInv, TableInv, TypeOK, Row
<1>8. [j \in JobRows |-> jobs'[j].status]
        = [[j \in JobRows |-> jobs[j].status] EXCEPT ![cur[w]] = "running"]
  BY <1>1, <1>7
<1>9. NoWorker # w
  BY CuratorAssumption
<1> QED
  BY <1>1, <1>3, <1>6, <1>8, <1>9 DEF Abstract!Claim

LEMMA StepRefines ==
  ASSUME OneProcess, Events \subseteq {"revive"}, IndInv, IndInv', [Next]_vars
  PROVE  [Abstract!Next]_Abstract!jobVars
<1> USE DEF IndInv, TableInv
<1>1. ASSUME \A j \in JobRows : jobs'[j].status = jobs[j].status,
             \A w \in Workers, j \in JobRows : Holds(w, j)' <=> Holds(w, j)
      PROVE  UNCHANGED Abstract!jobVars
  <2>1. [j \in JobRows |-> Holder(j)]' = [j \in JobRows |-> Holder(j)]
    BY <1>1, HoldersKept
  <2> QED
    BY <1>1, <2>1 DEF Abstract!jobVars
<1>2. ASSUME NEW w \in Workers, StartCycle(w)
      PROVE  UNCHANGED Abstract!jobVars
  BY <1>1, <1>2 DEF StartCycle, table, Holds, Working, LockInv
<1>3. ASSUME NEW w \in Workers,
             Plan(w) \/ Select(w) \/ EndCycle(w) \/ Curated(w) \/ CurateRaises(w) \/ FailReads(w)
      PROVE  UNCHANGED Abstract!jobVars
  <2>1. jobs' = jobs
    BY <1>3 DEF Plan, Select, EndCycle, Curated, CurateRaises, FailReads, table
  <2>2. \A v \in Workers, j \in JobRows : Holds(v, j)' <=> Holds(v, j)
    BY <1>3 DEF Plan, Select, EndCycle, Curated, CurateRaises, FailReads, Leave, DropJob,
       Holds, Working, LockInv, TypeOK
  <2> QED
    BY <1>1, <2>1, <2>2
<1>4. ASSUME NEW w \in Workers, Insert(w)
      PROVE  \E j \in JobRows : Abstract!Add(j)
  <2>1. PICK j \in FreeRows :
          jobs' = [jobs EXCEPT ![j] = [status |-> "pending", target |-> page[w],
                                       attempts |-> 0, due_in |-> 0]]
    BY <1>4 DEF Insert
  <2>2. /\ j \in JobRows /\ jobs[j].status \in {"free", "done"}
        /\ \A i \in JobRows : jobs'[i].status = IF i = j THEN "pending" ELSE jobs[i].status
    BY <2>1 DEF FreeRows, TypeOK
  <2>3. [i \in JobRows |-> jobs'[i].status]
          = [[i \in JobRows |-> jobs[i].status] EXCEPT ![j] = "pending"]
    BY <2>2
  <2>4. \A v \in Workers, i \in JobRows : Holds(v, i)' <=> Holds(v, i)
    BY <1>4 DEF Insert, Holds, Working, LockInv
  <2> QED
    BY <2>2, <2>3, <2>4, HoldersKept DEF Abstract!Add
<1>5. ASSUME NEW w \in Workers, MarkRunning(w)
      PROVE  cur[w] \in JobRows /\ Abstract!Claim(w, cur[w])
  BY <1>5, ClaimRefines DEF Hand, MarkRunning
<1>6. ASSUME NEW w \in Workers, Complete(w) \/ Requeue(w)
      PROVE  cur[w] \in JobRows /\ Abstract!Settle(w, cur[w])
  <2>1. cur[w] \in JobRows /\ pc[w] \in {"complete", "requeue"}
    BY <1>6 DEF Complete, Requeue, Hand, Working
  <2>2. /\ \A j \in JobRows : j # cur[w] => jobs'[j] = jobs[j]
        /\ jobs'[cur[w]].status \in {"done", "pending", "dead"}
    BY <1>6, <2>1 DEF Complete, Requeue, TypeOK, Row
  <2> QED
    BY <1>6, <2>1, <2>2, SettleRefines DEF Complete, Requeue, DropJob
<1>7. CASE Revive
  <2>1. \A j \in JobRows : jobs'[j].status = IF jobs[j].status = "dead" THEN "pending"
                                             ELSE jobs[j].status
    BY <1>7 DEF Revive, Dead, TypeOK, Row
  <2>2. \A v \in Workers, i \in JobRows : Holds(v, i)' <=> Holds(v, i)
    BY <1>7 DEF Revive, Holds
  <2> QED
    BY <2>1, <2>2, HoldersKept DEF Abstract!Revive, Abstract!Next
<1>8. CASE Tick
  <2>1. \A j \in JobRows : jobs'[j].status = jobs[j].status
    BY <1>8 DEF Tick, TypeOK, Row
  <2>2. \A v \in Workers, i \in JobRows : Holds(v, i)' <=> Holds(v, i)
    BY <1>8 DEF Tick, Holds
  <2> QED
    BY <1>1, <2>1, <2>2
<1>9. CASE UNCHANGED vars
  BY <1>1, <1>9 DEF vars, Holds
<1>10. ASSUME NEW w \in Workers, StartCycle(w) \/ Work(w) \/ StatementRaises(w)
       PROVE  Abstract!Next \/ UNCHANGED Abstract!jobVars
  <2>1. ~StatementRaises(w)
    BY DEF StatementRaises
  <2>2. CASE Insert(w)
    BY <2>2, <1>4 DEF Abstract!Next
  <2>3. CASE MarkRunning(w)
    <3>1. \E j \in JobRows : Abstract!Claim(w, j)
      <4>1. cur[w] \in JobRows /\ Abstract!Claim(w, cur[w])
        BY <2>3, <1>5
      <4> QED
        BY <4>1 DEF Abstract!Claim
    <3> QED
      BY <3>1 DEF Abstract!Next
  <2>4. CASE Complete(w) \/ Requeue(w)
    <3>1. \E j \in JobRows : Abstract!Settle(w, j)
      <4>1. cur[w] \in JobRows /\ Abstract!Settle(w, cur[w])
        BY <2>4, <1>6
      <4> QED
        BY <4>1 DEF Abstract!Settle
    <3> QED
      BY <3>1 DEF Abstract!Next
  <2> QED
    BY <1>10, <2>1, <2>2, <2>3, <2>4, <1>2, <1>3 DEF Work
<1>11. ASSUME NEW w \in Workers, Crash(Process[w]) PROVE FALSE
  BY <1>11 DEF Crash
<1> QED
  BY <1>7, <1>8, <1>9, <1>10, <1>11 DEF Next

\* curator.py's promises: where one process does all the curating, the SQL
\* statements of its workers implement the queue in which a job has one worker
\* at a time, who settles it, as long as no statement fails and the process
\* lives (a job that was running when it died stays running for ever).
THEOREM ImplementsQueue ==
  ASSUME OneProcess, Events \subseteq {"revive"}
  PROVE  Spec => ImplementsJobQueue
<1>1. IndInv /\ IndInv' /\ [Next]_vars => [Abstract!Next]_Abstract!jobVars
  BY StepRefines
<1> QED
  BY <1>1, Inductive, InitRefines, PTL DEF Spec, Abstract!Spec, ImplementsJobQueue
=============================================================================
