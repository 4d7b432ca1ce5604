------------------------- MODULE WebSessions_proofs -------------------------
(***************************************************************************)
(* What is proved of the web server's sessions, for every number of        *)
(* requests, threads and projects and every size of the pool.              *)
(***************************************************************************)
EXTENDS WebSessions, TLAPS

LEMMA InitInv == Init => IndInv
  BY SessionAssumption DEF Init, IndInv, TypeOK, LockInv, MemoryIsCheckpoint,
     ProjectsExist, Listed, Steps, Kinds, MinToCompact

LEMMA GrowBounded ==
  ASSUME NEW n \in 0..MaxMessages
  PROVE  Grow(n) \in 0..MaxMessages
  BY SessionAssumption DEF Grow

\* Where a request is after it went on, or was over.
LEMMA GotoType ==
  ASSUME TypeOK, NEW s \in Slots, NEW p \in Steps, Goto(s, p)
  PROVE  /\ pc' \in [Slots -> Steps]
         /\ kind' \in [Slots -> Kinds \union {"none"}]
         /\ thread' \in [Slots -> Threads \union {NoThread}]
  BY DEF TypeOK, Goto

LEMMA ReturnType ==
  ASSUME TypeOK, NEW s \in Slots, Return(s)
  PROVE  /\ pc' \in [Slots -> Steps]
         /\ kind' \in [Slots -> Kinds \union {"none"}]
         /\ thread' \in [Slots -> Threads \union {NoThread}]
         /\ mine' \in [Slots -> 0..MaxMessages]
  BY SessionAssumption DEF TypeOK, Return, Steps

LEMMA TypeStep ==
  ASSUME TypeOK, LockInv, [Next]_vars
  PROVE  TypeOK'
<1>1. ASSUME NEW s \in Slots, Call(s)
      PROVE  TypeOK'
  BY <1>1 DEF Call, TypeOK, tables, Steps, Listed
<1>2. ASSUME NEW s \in Slots, Acquire(s)
      PROVE  TypeOK'
  <2>1. pc' \in [Slots -> Steps] /\ UNCHANGED <<kind, thread, projects, project, ckpt>>
    BY <1>2, GotoType DEF Acquire, Steps, Goto, tables
  <2>2. mine' \in [Slots -> 0..MaxMessages]
    BY <1>2 DEF Acquire, TypeOK, LockInv, Goto
  <2> QED
    BY <1>2, <2>1, <2>2 DEF Acquire, TypeOK, Listed
<1>3. ASSUME NEW s \in Slots, Touch(s)
      PROVE  TypeOK'
  <2>1. thread[s] \in Threads
    BY <1>3 DEF Touch, LockInv
  <2>2. pc' \in [Slots -> Steps] /\ UNCHANGED <<kind, thread, projects, ckpt, lock, mine>>
    BY <1>3, GotoType DEF Touch, Steps, Goto
  <2>3. Listed' \subseteq Threads /\ project' \in [Listed' -> Projects \union {Unfiled}]
    BY <1>3, <2>1 DEF Touch, TypeOK, Listed
  <2> QED
    BY <2>2, <2>3 DEF TypeOK
<1>4. ASSUME NEW s \in Slots, Reread(s)
      PROVE  TypeOK'
  <2>1. UNCHANGED <<tables, lock>>
    BY <1>4 DEF Reread
  <2>2. CASE Goto(s, "start") /\ UNCHANGED mine
    BY <2>1, <2>2, GotoType DEF TypeOK, tables, Steps, Listed
  <2>3. CASE Return(s)
    BY <2>1, <2>3, ReturnType DEF TypeOK, tables, Listed
  <2> QED
    BY <1>4, <2>2, <2>3 DEF Reread
<1>5. ASSUME NEW s \in Slots, Stream(s) \/ Resume(s)
      PROVE  TypeOK'
  <2>1. UNCHANGED <<tables, lock, mine>> /\ \E p \in Steps : Goto(s, p)
    BY <1>5 DEF Stream, Resume, Steps
  <2> QED
    BY <2>1, GotoType DEF TypeOK, tables, Listed
<1>6. ASSUME NEW s \in Slots, Superstep(s)
      PROVE  TypeOK'
  <2>1. pc' \in [Slots -> Steps] /\ UNCHANGED <<kind, thread, projects, project, lock>>
    BY <1>6, GotoType DEF Superstep, Steps, Goto
  <2>2. Grow(mine[s]) \in 0..MaxMessages
    BY GrowBounded DEF TypeOK
  <2>3. ckpt' \in [Threads -> 0..MaxMessages] /\ mine' \in [Slots -> 0..MaxMessages]
    BY <1>6, <2>2 DEF Superstep, TypeOK
  <2> QED
    BY <2>1, <2>3 DEF TypeOK, Listed
<1>7. ASSUME NEW s \in Slots, FinishRun(s) \/ Disconnect(s) \/ Reflect(s) \/ Curate(s)
      PROVE  TypeOK'
  <2>1. UNCHANGED tables /\ lock' \in {Free, lock} /\ Return(s)
    BY <1>7 DEF FinishRun, Disconnect, Reflect, Curate, GivesBack
  <2> QED
    BY <2>1, ReturnType DEF TypeOK, tables, Listed
<1>8. ASSUME NEW s \in Slots, RemoveRow(s)
      PROVE  TypeOK'
  <2>1. pc' \in [Slots -> Steps] /\ UNCHANGED <<kind, thread, projects, ckpt, lock, mine>>
    BY <1>8, GotoType DEF RemoveRow, Steps, Goto
  <2>2. Listed' \subseteq Threads /\ project' \in [Listed' -> Projects \union {Unfiled}]
    BY <1>8 DEF RemoveRow, TypeOK, Listed, Restrict
  <2> QED
    BY <2>1, <2>2 DEF TypeOK
<1>9. ASSUME NEW s \in Slots, DeleteThread(s) \/ Compact(s)
      PROVE  TypeOK'
  <2>1. UNCHANGED <<projects, project>> /\ lock' = Free /\ Return(s)
    BY <1>9 DEF DeleteThread, Compact
  <2>2. ckpt' \in [Threads -> 0..MaxMessages]
    BY <1>9, SessionAssumption DEF DeleteThread, Compact, TypeOK, MinToCompact
  <2> QED
    BY <2>1, <2>2, ReturnType DEF TypeOK, Listed
<1>10. ASSUME NEW s \in Slots, ReadState(s)
       PROVE  TypeOK'
  <2>1. UNCHANGED <<tables, lock>>
    BY <1>10 DEF ReadState
  <2>2. CASE Goto(s, "wait") /\ mine' = [mine EXCEPT ![s] = ckpt[thread[s]]]
    <3>1. thread[s] \in Threads
      BY <1>10 DEF ReadState, LockInv
    <3> QED
      BY <2>1, <2>2, <3>1, GotoType DEF TypeOK, tables, Steps, Listed
  <2>3. CASE Return(s)
    BY <2>1, <2>3, ReturnType DEF TypeOK, tables, Listed
  <2> QED
    BY <1>10, <2>2, <2>3 DEF ReadState
<1>11. CASE CreateProject \/ RemoveProject \/ AssignProject
  BY <1>11 DEF CreateProject, RemoveProject, AssignProject, TypeOK, Listed
<1>12. CASE UNCHANGED vars
  BY <1>12 DEF vars, TypeOK, Listed
<1> QED
  BY <1>1, <1>2, <1>3, <1>4, <1>5, <1>6, <1>7, <1>8, <1>9, <1>10, <1>11, <1>12
     DEF Next, Handler

\* Who holds the lock after a step: nobody new, the request that took it, or
\* nobody.  A request that is not the holder stays outside its with statement.
LEMMA LockStep ==
  ASSUME TypeOK, LockInv, [Next]_vars
  PROVE  LockInv'
<1>1. ASSUME NEW s \in Slots, Call(s)
      PROVE  LockInv'
  BY <1>1 DEF Call, TypeOK, LockInv, tables, Kinds
<1>2. ASSUME NEW s \in Slots, Acquire(s)
      PROVE  LockInv'
  BY <1>2, SessionAssumption DEF Acquire, TypeOK, LockInv, Goto
<1>3. ASSUME NEW s \in Slots, NEW p \in Steps, Goto(s, p), UNCHANGED lock,
             \/ lock # s /\ p \notin {"hold", "yield"}
             \/ lock = s /\ kind[s] = "chat" /\ p \in {"hold", "yield"}
      PROVE  LockInv'
  BY <1>3 DEF Goto, TypeOK, LockInv
<1>4. ASSUME NEW s \in Slots, Return(s),
             \/ lock # s /\ UNCHANGED lock
             \/ lock = s /\ lock' = Free
      PROVE  LockInv'
  <2>1. \A r \in Slots : r # s => pc'[r] = pc[r] /\ kind'[r] = kind[r] /\ thread'[r] = thread[r]
    BY <1>4 DEF Return, TypeOK
  <2>2. pc'[s] = "idle" /\ kind'[s] = "none"
    BY <1>4 DEF Return, TypeOK
  <2>3. \A r \in Slots : r # s => (lock = r <=> lock' = r)
    BY <1>4, SessionAssumption
  <2> QED
    BY <1>4, <2>1, <2>2, <2>3, SessionAssumption DEF LockInv
<1>5. ASSUME NEW s \in Slots, Handler(s) \/ Disconnect(s)
      PROVE  LockInv'
  <2>1. CASE Touch(s) \/ Stream(s) \/ RemoveRow(s)
    BY <2>1, <1>3 DEF Touch, Stream, RemoveRow, LockInv, Steps
  <2>2. CASE Superstep(s) \/ Resume(s)
    BY <2>2, <1>3 DEF Superstep, Resume, LockInv, Steps
  <2>3. CASE Reread(s)
    BY <2>3, <1>3, <1>4 DEF Reread, LockInv, Steps
  <2>4. CASE ReadState(s)
    BY <2>4, <1>3, <1>4 DEF ReadState, LockInv, Steps
  <2>5. CASE FinishRun(s) \/ DeleteThread(s) \/ Compact(s) \/ Reflect(s) \/ Curate(s)
    BY <2>5, <1>4 DEF FinishRun, DeleteThread, Compact, Reflect, Curate, GivesBack, LockInv
  <2>6. CASE Disconnect(s)
    BY <2>6, <1>4 DEF Disconnect, LockInv
  <2> QED
    BY <1>5, <2>1, <2>2, <2>3, <2>4, <2>5, <2>6 DEF Handler
<1>6. CASE CreateProject \/ RemoveProject \/ AssignProject \/ UNCHANGED vars
  BY <1>6 DEF CreateProject, RemoveProject, AssignProject, vars, LockInv
<1> QED
  BY <1>1, <1>2, <1>5, <1>6 DEF Next

\* Only the holder of the lock changes a checkpoint, and no other request
\* has a conversation in memory that it is going to write.
LEMMA MemoryStep ==
  ASSUME TypeOK, LockInv, MemoryIsCheckpoint, [Next]_vars
  PROVE  MemoryIsCheckpoint'
<1>1. ASSUME NEW s \in Slots, Call(s)
      PROVE  MemoryIsCheckpoint'
  BY <1>1 DEF Call, TypeOK, MemoryIsCheckpoint, tables
<1>2. ASSUME NEW s \in Slots, Acquire(s)
      PROVE  MemoryIsCheckpoint'
  BY <1>2, SessionAssumption DEF Acquire, TypeOK, LockInv, MemoryIsCheckpoint, Goto, tables
<1>3. ASSUME NEW s \in Slots, NEW p \in Steps, Goto(s, p), UNCHANGED <<ckpt, mine>>,
             pc[s] \in {"hold", "yield"} \/ p \notin {"hold", "yield"}
      PROVE  MemoryIsCheckpoint'
  BY <1>3 DEF Goto, TypeOK, MemoryIsCheckpoint
<1>4. ASSUME NEW s \in Slots, Return(s), UNCHANGED ckpt \/ lock = s
      PROVE  MemoryIsCheckpoint'
  <2>1. \A r \in Slots : r # s =>
          pc'[r] = pc[r] /\ kind'[r] = kind[r] /\ thread'[r] = thread[r] /\ mine'[r] = mine[r]
    BY <1>4 DEF Return, TypeOK
  <2>2. pc'[s] = "idle"
    BY <1>4 DEF Return, TypeOK
  <2>3. CASE UNCHANGED ckpt
    BY <2>1, <2>2, <2>3 DEF MemoryIsCheckpoint
  <2>4. CASE lock = s
    BY <2>1, <2>2, <2>4 DEF MemoryIsCheckpoint, LockInv
  <2> QED
    BY <1>4, <2>3, <2>4
<1>5. ASSUME NEW s \in Slots, Superstep(s)
      PROVE  MemoryIsCheckpoint'
  <2>1. lock = s /\ thread[s] \in Threads
    BY <1>5 DEF Superstep, LockInv
  <2>2. mine'[s] = Grow(mine[s]) /\ ckpt'[thread'[s]] = Grow(mine[s])
    BY <1>5, <2>1 DEF Superstep, TypeOK, Goto
  <2>3. \A r \in Slots : r # s => pc'[r] \notin {"hold", "yield"}
    BY <1>5, <2>1 DEF Superstep, LockInv, TypeOK, Goto
  <2> QED
    BY <2>2, <2>3 DEF MemoryIsCheckpoint
<1>6. ASSUME NEW s \in Slots, ReadState(s)
      PROVE  MemoryIsCheckpoint'
  <2>1. CASE Goto(s, "wait") /\ mine' = [mine EXCEPT ![s] = ckpt[thread[s]]]
    BY <1>6, <2>1 DEF ReadState, Goto, TypeOK, MemoryIsCheckpoint, tables
  <2>2. CASE Return(s)
    BY <1>6, <2>2, <1>4 DEF ReadState, tables
  <2> QED
    BY <1>6, <2>1, <2>2 DEF ReadState
<1>7. ASSUME NEW s \in Slots, Handler(s) \/ Disconnect(s)
      PROVE  MemoryIsCheckpoint'
  <2>1. CASE Touch(s) \/ Stream(s) \/ RemoveRow(s) \/ Resume(s)
    BY <2>1, <1>3 DEF Touch, Stream, RemoveRow, Resume, Steps, tables
  <2>2. CASE Reread(s)
    BY <2>2, <1>3, <1>4 DEF Reread, Steps, tables
  <2>3. CASE FinishRun(s) \/ Reflect(s) \/ Curate(s) \/ Disconnect(s)
    BY <2>3, <1>4 DEF FinishRun, Reflect, Curate, GivesBack, Disconnect, tables
  <2>4. CASE DeleteThread(s) \/ Compact(s)
    BY <2>4, <1>4 DEF DeleteThread, Compact, LockInv
  <2> QED
    BY <1>5, <1>6, <1>7, <2>1, <2>2, <2>3, <2>4 DEF Handler
<1>8. CASE CreateProject \/ RemoveProject \/ AssignProject \/ UNCHANGED vars
  BY <1>8 DEF CreateProject, RemoveProject, AssignProject, vars, MemoryIsCheckpoint
<1> QED
  BY <1>1, <1>2, <1>7, <1>8 DEF Next

LEMMA ProjectsStep ==
  ASSUME TypeOK, ProjectsExist, [Next]_vars
  PROVE  ProjectsExist'
<1>1. ASSUME NEW s \in Slots, Touch(s)
      PROVE  ProjectsExist'
  BY <1>1 DEF Touch, ProjectsExist, Listed
<1>2. ASSUME NEW s \in Slots, RemoveRow(s)
      PROVE  ProjectsExist'
  BY <1>2 DEF RemoveRow, ProjectsExist, Listed, Restrict
<1>3. CASE CreateProject
  BY <1>3 DEF CreateProject, ProjectsExist, Listed
<1>4. CASE RemoveProject
  BY <1>4 DEF RemoveProject, ProjectsExist, Listed
<1>5. CASE AssignProject
  BY <1>5 DEF AssignProject, ProjectsExist, TypeOK, Listed
<1>6. CASE UNCHANGED <<projects, project>>
  BY <1>6 DEF ProjectsExist, Listed
<1> QED
  BY <1>1, <1>2, <1>3, <1>4, <1>5, <1>6 DEF Next, Handler, vars, tables, Call, Acquire,
     Reread, Stream, Superstep, Resume, FinishRun, Disconnect, DeleteThread, Compact,
     ReadState, Reflect, Curate, GivesBack

LEMMA Inductive == Spec => []IndInv
<1>1. IndInv /\ [Next]_vars => IndInv'
  BY TypeStep, LockStep, MemoryStep, ProjectsStep DEF IndInv
<1> QED
  BY InitInv, <1>1, PTL DEF Spec

\* Every variable stays in its domain.
THEOREM TypeCorrect == Spec => []TypeOK
  BY Inductive, PTL DEF IndInv

\* No request writes to a conversation that another one has read and is
\* going to write.
THEOREM MemoryIsNeverStale == Spec => []MemoryIsCheckpoint
  BY Inductive, PTL DEF IndInv

\* No session is left in a project that was removed.
THEOREM NoDanglingProject == Spec => []ProjectsExist
  BY Inductive, PTL DEF IndInv

-----------------------------------------------------------------------------
(***************************************************************************)
(* The requests implement conversations that change one operation at a     *)
(* time.                                                                   *)
(***************************************************************************)

LEMMA RunningOfChat ==
  ASSUME NEW s \in Slots, lock = s
  PROVE  Running = IF kind[s] = "chat" THEN thread[s] ELSE NoThread
  BY DEF Running

LEMMA NothingRunning ==
  ASSUME lock = Free
  PROVE  Running = NoThread
  BY SessionAssumption DEF Running

\* A request that does not hold the lock changes nothing of the abstract
\* state by moving on or returning.
LEMMA OutsideTheLock ==
  ASSUME TypeOK, NEW s \in Slots, lock # s, UNCHANGED <<ckpt, lock>>,
         (\E p \in Steps : Goto(s, p)) \/ Return(s)
  PROVE  UNCHANGED <<ckpt, Running>>
<1>1. \A r \in Slots : r # s => kind'[r] = kind[r] /\ thread'[r] = thread[r]
  BY DEF TypeOK, Goto, Return
<1> QED
  BY <1>1 DEF Running

LEMMA SimulationInit == Init => Abstract!Init
  BY NothingRunning DEF Init, Abstract!Init

LEMMA SimulationStep ==
  ASSUME IndInv, [Next]_vars
  PROVE  [Abstract!Next]_<<ckpt, Running>>
<1> USE DEF IndInv
<1>1. ASSUME NEW s \in Slots, Call(s)
      PROVE  UNCHANGED <<ckpt, Running>>
  BY <1>1 DEF Call, tables, TypeOK, LockInv, Running
<1>2. ASSUME NEW s \in Slots, Acquire(s)
      PROVE  [Abstract!Next]_<<ckpt, Running>>
  <2>1. lock = Free /\ lock' = s /\ UNCHANGED <<ckpt, kind, thread>>
    BY <1>2 DEF Acquire, Goto, tables
  <2>2. Running = NoThread /\ Running' = IF kind[s] = "chat" THEN thread[s] ELSE NoThread
    BY <2>1, SessionAssumption DEF Running
  <2>3. CASE kind[s] = "chat"
    <3>1. Abstract!Begin(thread[s])
      BY <2>1, <2>2, <2>3 DEF Abstract!Begin
    <3>2. thread[s] \in Threads
      BY <2>3 DEF LockInv
    <3> QED
      BY <3>1, <3>2 DEF Abstract!Next
  <2> QED
    BY <2>1, <2>2, <2>3
<1>3. ASSUME NEW s \in Slots, Superstep(s)
      PROVE  Abstract!Next
  <2>1. lock = s /\ thread[s] \in Threads /\ mine[s] = ckpt[thread[s]]
    BY <1>3 DEF Superstep, LockInv, MemoryIsCheckpoint
  <2>2. UNCHANGED <<lock, kind, thread>>
    BY <1>3 DEF Superstep, Goto
  <2>3. Running = thread[s] /\ UNCHANGED Running
    BY <1>3, <2>1, <2>2 DEF Running, Superstep
  <2>4. ckpt' = [ckpt EXCEPT ![thread[s]] = Abstract!Grow(@)]
    BY <1>3, <2>1 DEF Superstep, Grow, Abstract!Grow
  <2> QED
    BY <2>1, <2>3, <2>4 DEF Abstract!Next, Abstract!Write
<1>4. ASSUME NEW s \in Slots, lock = s, kind[s] = "chat", lock' = Free, UNCHANGED ckpt
      PROVE  Abstract!Next
  <2>1. Running = thread[s] /\ Running' = NoThread /\ thread[s] \in Threads
    BY <1>4, SessionAssumption DEF Running, LockInv
  <2> QED
    BY <1>4, <2>1 DEF Abstract!Next, Abstract!End
<1>5. ASSUME NEW s \in Slots, lock = s, kind[s] \in {"remove", "compact", "reflect", "curate"},
             lock' = Free
      PROVE  Running = NoThread /\ Running' = NoThread
  BY <1>5, SessionAssumption DEF Running
<1>6. ASSUME NEW s \in Slots, DeleteThread(s)
      PROVE  Abstract!Next
  <2>1. lock = s /\ thread[s] \in Threads
    BY <1>6 DEF DeleteThread, LockInv
  <2>2. Running = NoThread /\ Running' = NoThread
    BY <1>5, <1>6, <2>1 DEF DeleteThread
  <2> QED
    BY <1>6, <2>1, <2>2 DEF DeleteThread, Abstract!Next, Abstract!Delete
<1>7. ASSUME NEW s \in Slots, Compact(s)
      PROVE  [Abstract!Next]_<<ckpt, Running>>
  <2>1. lock = s /\ thread[s] \in Threads /\ mine[s] = ckpt[thread[s]]
    BY <1>7 DEF Compact, LockInv, MemoryIsCheckpoint
  <2>2. Running = NoThread /\ Running' = NoThread
    BY <1>5, <1>7, <2>1 DEF Compact
  <2>3. CASE mine[s] >= MinToCompact /\ ckpt' = [ckpt EXCEPT ![thread[s]] = 2]
    BY <2>1, <2>2, <2>3 DEF Abstract!Next, Abstract!Compact
  <2> QED
    BY <1>7, <2>2, <2>3 DEF Compact
<1>8. ASSUME NEW s \in Slots, Handler(s) \/ Disconnect(s)
      PROVE  [Abstract!Next]_<<ckpt, Running>>
  <2>1. CASE Touch(s) \/ Stream(s) \/ RemoveRow(s) \/ Reread(s) \/ ReadState(s)
    <3>1. lock # s /\ UNCHANGED <<ckpt, lock>>
      BY <2>1 DEF Touch, Stream, RemoveRow, Reread, ReadState, LockInv, tables
    <3>2. (\E p \in Steps : Goto(s, p)) \/ Return(s)
      BY <2>1 DEF Touch, Stream, RemoveRow, Reread, ReadState, Steps
    <3> QED
      BY <3>1, <3>2, OutsideTheLock
  <2>2. CASE Resume(s)
    BY <2>2 DEF Resume, Goto, tables, Running
  <2>3. CASE FinishRun(s)
    BY <2>3, <1>4 DEF FinishRun, LockInv, tables
  <2>4. CASE Disconnect(s)
    <3>1. CASE pc[s] = "yield"
      BY <2>4, <3>1, <1>4 DEF Disconnect, LockInv, tables
    <3>2. CASE pc[s] = "start"
      BY <2>4, <3>2, OutsideTheLock DEF Disconnect, LockInv, tables
    <3> QED
      BY <2>4, <3>1, <3>2 DEF Disconnect
  <2>5. CASE Reflect(s) \/ Curate(s)
    <3>1. lock = s /\ lock' = Free /\ UNCHANGED ckpt
      BY <2>5 DEF Reflect, Curate, GivesBack, LockInv, tables
    <3> QED
      BY <2>5, <3>1, <1>5 DEF Reflect, Curate, GivesBack
  <2> QED
    BY <1>3, <1>6, <1>7, <1>8, <2>1, <2>2, <2>3, <2>4, <2>5 DEF Handler
<1>9. CASE CreateProject \/ RemoveProject \/ AssignProject \/ UNCHANGED vars
  BY <1>9 DEF CreateProject, RemoveProject, AssignProject, vars, Running
<1> QED
  BY <1>1, <1>2, <1>8, <1>9 DEF Next

\* Every behaviour of the server's requests is, seen through checkpoints and
\* the lock, one in which conversations change by one operation at a time.
THEOREM Serialised == Spec => ImplementsConversations
  BY Inductive, SimulationInit, SimulationStep, PTL
     DEF Spec, ImplementsConversations, Abstract!Spec

=============================================================================
