---------------------------- MODULE WebSessions ----------------------------
(***************************************************************************)
(* The requests of the web server (src/src/web.py) that work on sessions:  *)
(* the rows of sessions.sqlite (src/src/sessions.py), the checkpoints of   *)
(* the conversations, the process-wide invoke_lock and the pool of threads *)
(* that the server runs its synchronous handlers in.                       *)
(*                                                                         *)
(* A request is a process that goes through the handler's steps; each      *)
(* method of SessionStore is one step, since it holds the store's own      *)
(* lock.  What a run does inside the graph is the business of              *)
(* InspectorGraph; here a superstep writes one more message to the         *)
(* checkpoint.  Titles, turns, agents and token counts are left out.       *)
(***************************************************************************)
EXTENDS Integers, FiniteSets, Functions

CONSTANTS
  Slots,        \* bound: requests in progress at the same time
  Threads,      \* thread ids
  Projects,     \* project ids
  PoolSize,     \* threads of the server's pool
  MaxMessages,  \* bound: messages of a conversation are counted up to here
  Free,         \* the holder of a lock nobody holds
  Unfiled,      \* the project_id '' of a session in no project
  NoThread      \* the thread of a slot without a request

\* compact_session leaves shorter conversations alone.
MinToCompact == 4

ASSUME SessionAssumption ==
  /\ Free \notin Slots
  /\ Unfiled \notin Projects
  /\ NoThread \notin Threads
  /\ PoolSize \in Nat \ {0}
  /\ MaxMessages \in Nat /\ MaxMessages >= MinToCompact

VARIABLES
  projects,  \* ids in the table of projects
  project,   \* project[t]: the project_id of row t; its domain is the table
  ckpt,      \* ckpt[t]: messages in the checkpoint of t, 0 if there is none
  lock,      \* who holds the invoke_lock
  kind,      \* kind[s]: which endpoint was called
  pc,        \* pc[s]: where its handler is
  thread,    \* thread[s]: the thread_id of the request
  mine       \* mine[s]: the messages the handler has read into memory

vars == <<projects, project, ckpt, lock, kind, pc, thread, mine>>
tables == <<projects, project, ckpt>>

Kinds == {"chat", "remove", "compact", "reflect", "curate"}
Steps == {"idle", "called", "touched", "start", "wait", "hold", "yield"}

Listed == DOMAIN project

\* A handler keeps its thread of the pool until it returns, also while it
\* waits for the lock.  The generator behind a chat response has one only
\* while it computes its next event.
InThread == {s \in Slots : pc[s] \in {"called", "touched", "wait", "hold"}}
ThreadFree == Cardinality(InThread) < PoolSize

Grow(n) == IF n < MaxMessages THEN n + 1 ELSE n

Init ==
  /\ projects = {}
  /\ project = [t \in {} |-> Unfiled]
  /\ ckpt = [t \in Threads |-> 0]
  /\ lock = Free
  /\ kind = [s \in Slots |-> "none"]
  /\ pc = [s \in Slots |-> "idle"]
  /\ thread = [s \in Slots |-> NoThread]
  /\ mine = [s \in Slots |-> 0]

\* The handler goes on to step p.
Goto(s, p) ==
  /\ pc' = [pc EXCEPT ![s] = p]
  /\ UNCHANGED <<kind, thread>>

\* The request is over.
Return(s) ==
  /\ pc' = [pc EXCEPT ![s] = "idle"]
  /\ kind' = [kind EXCEPT ![s] = "none"]
  /\ thread' = [thread EXCEPT ![s] = NoThread]
  /\ mine' = [mine EXCEPT ![s] = 0]

(***************************************************************************)
(* Requests arrive, and wait for the lock.                                 *)
(***************************************************************************)

\* An endpoint is called.  compact_session and the curator's endpoint begin
\* by taking the lock, the others by reading or changing a table.
Call(s) ==
  /\ pc[s] = "idle" /\ ThreadFree
  /\ \E k \in Kinds, t \in Threads :
       /\ kind' = [kind EXCEPT ![s] = k]
       /\ thread' = [thread EXCEPT ![s] = IF k = "curate" THEN NoThread ELSE t]
       /\ pc' = [pc EXCEPT ![s] = IF k \in {"compact", "curate"} THEN "wait" ELSE "called"]
  /\ UNCHANGED <<tables, lock, mine>>

\* with invoke_lock.  A run and a compaction read the conversation now.
AcquireUnlessRemoving(s) ==
  /\ pc[s] = "wait"
  /\ lock = Free \/ kind[s] = "remove"
  /\ lock' = s
  /\ mine' = [mine EXCEPT ![s] = IF kind[s] \in {"chat", "compact"} THEN ckpt[thread[s]]
                                 ELSE @]
  /\ Goto(s, "hold")
  /\ UNCHANGED tables

Acquire(s) ==
  /\ pc[s] = "wait"
  /\ lock = Free
  /\ lock' = s
  /\ mine' = [mine EXCEPT ![s] = IF kind[s] \in {"chat", "compact"} THEN ckpt[thread[s]]
                                 ELSE @]
  /\ Goto(s, "hold")
  /\ UNCHANGED tables

(***************************************************************************)
(* POST /api/chat                                                          *)
(***************************************************************************)

\* sessions.touch: a new row, in no project, or an update of the old one.
Touch(s) ==
  /\ kind[s] = "chat" /\ pc[s] = "called"
  /\ project' = [t \in Listed \union {thread[s]} |->
                   IF t \in Listed THEN project[t] ELSE Unfiled]
  /\ Goto(s, "touched")
  /\ UNCHANGED <<projects, ckpt, lock, mine>>

\* touch reads the row again, with the store's lock taken anew, and asserts
\* that it is there.  Then the response begins, with an event that needs no
\* lock.
Reread(s) ==
  /\ kind[s] = "chat" /\ pc[s] = "touched"
  /\ \/ thread[s] \in Listed /\ Goto(s, "start") /\ UNCHANGED mine
     \/ thread[s] \notin Listed /\ Return(s)
  /\ UNCHANGED <<tables, lock>>

\* The generator is asked for its next event and comes to the lock.
Stream(s) ==
  /\ kind[s] = "chat" /\ pc[s] = "start" /\ ThreadFree
  /\ Goto(s, "wait")
  /\ UNCHANGED <<tables, lock, mine>>

\* One superstep of the graph, saved to the checkpoint.  Some make an event
\* for the browser: the generator is then left until the event is sent.
Superstep(s) ==
  /\ kind[s] = "chat" /\ pc[s] = "hold"
  /\ ckpt' = [ckpt EXCEPT ![thread[s]] = Grow(mine[s])]
  /\ mine' = [mine EXCEPT ![s] = Grow(mine[s])]
  /\ \/ Goto(s, "hold")
     \/ Goto(s, "yield")
  /\ UNCHANGED <<projects, project, lock>>

Resume(s) ==
  /\ pc[s] = "yield" /\ ThreadFree
  /\ Goto(s, "hold")
  /\ UNCHANGED <<tables, lock, mine>>

\* The graph's stream is exhausted or raises: the with statement is left.
FinishRun(s) ==
  /\ kind[s] = "chat" /\ pc[s] = "hold"
  /\ lock' = Free
  /\ Return(s)
  /\ UNCHANGED tables

\* The browser is gone: the generator is closed where it was left, which
\* leaves the with statement too.
DisconnectKeepsLock(s) ==
  /\ kind[s] = "chat" /\ pc[s] \in {"start", "yield"}
  /\ lock' = lock
  /\ Return(s)
  /\ UNCHANGED tables

Disconnect(s) ==
  /\ kind[s] = "chat" /\ pc[s] \in {"start", "yield"}
  /\ lock' = IF pc[s] = "yield" THEN Free ELSE lock
  /\ Return(s)
  /\ UNCHANGED tables

(***************************************************************************)
(* DELETE /api/sessions/{thread_id}                                        *)
(***************************************************************************)

\* sessions.remove.
RemoveRow(s) ==
  /\ kind[s] = "remove" /\ pc[s] = "called"
  /\ project' = Restrict(project, Listed \ {thread[s]})
  /\ Goto(s, "wait")
  /\ UNCHANGED <<projects, ckpt, lock, mine>>

\* checkpointer.delete_thread.
DeleteThread(s) ==
  /\ kind[s] = "remove" /\ pc[s] = "hold"
  /\ ckpt' = [ckpt EXCEPT ![thread[s]] = 0]
  /\ lock' = Free
  /\ Return(s)
  /\ UNCHANGED <<projects, project>>

(***************************************************************************)
(* POST /api/sessions/{thread_id}/compact and .../reflect, and             *)
(* POST /api/curator/run                                                   *)
(***************************************************************************)

\* The model's summary replaces the messages, unless they are few or the
\* model fails.
CompactShort(s) ==
  /\ kind[s] = "compact" /\ pc[s] = "hold"
  /\ \/ ckpt' = [ckpt EXCEPT ![thread[s]] = 2]
     \/ UNCHANGED ckpt
  /\ lock' = Free
  /\ Return(s)
  /\ UNCHANGED <<projects, project>>

Compact(s) ==
  /\ kind[s] = "compact" /\ pc[s] = "hold"
  /\ \/ mine[s] >= MinToCompact /\ ckpt' = [ckpt EXCEPT ![thread[s]] = 2]
     \/ UNCHANGED ckpt
  /\ lock' = Free
  /\ Return(s)
  /\ UNCHANGED <<projects, project>>

\* reflect_session reads the state before it waits for the lock.
ReadState(s) ==
  /\ kind[s] = "reflect" /\ pc[s] = "called"
  /\ \/ /\ ckpt[thread[s]] > 0
        /\ mine' = [mine EXCEPT ![s] = ckpt[thread[s]]]
        /\ Goto(s, "wait")
     \/ ckpt[thread[s]] = 0 /\ Return(s)
  /\ UNCHANGED <<tables, lock>>

\* A reflection and a curation cycle touch neither table nor checkpoint.
GivesBack(s) ==
  /\ pc[s] = "hold"
  /\ lock' = Free
  /\ Return(s)
  /\ UNCHANGED tables

Reflect(s) == kind[s] = "reflect" /\ GivesBack(s)
Curate(s) == kind[s] = "curate" /\ GivesBack(s)

(***************************************************************************)
(* The projects: every method is one transaction under the store's lock.   *)
(***************************************************************************)

CreateProject ==
  /\ \E p \in Projects \ projects : projects' = projects \union {p}
  /\ UNCHANGED <<project, ckpt, lock, kind, pc, thread, mine>>

\* remove_project: its sessions become unfiled.
RemoveProjectOnly ==
  /\ \E p \in projects : projects' = projects \ {p}
  /\ UNCHANGED <<project, ckpt, lock, kind, pc, thread, mine>>

RemoveProject ==
  /\ \E p \in projects :
       /\ projects' = projects \ {p}
       /\ project' = [t \in Listed |-> IF project[t] = p THEN Unfiled ELSE project[t]]
  /\ UNCHANGED <<ckpt, lock, kind, pc, thread, mine>>

AssignProject ==
  /\ \E t \in Listed, p \in projects \union {Unfiled} :
       project' = [project EXCEPT ![t] = p]
  /\ UNCHANGED <<projects, ckpt, lock, kind, pc, thread, mine>>

Handler(s) ==
  \/ Touch(s) \/ Reread(s) \/ Stream(s) \/ Superstep(s) \/ Resume(s)
  \/ FinishRun(s) \/ RemoveRow(s) \/ DeleteThread(s) \/ Compact(s) \/ ReadState(s)
  \/ Reflect(s) \/ Curate(s)

Next ==
  \/ \E s \in Slots : Call(s) \/ Acquire(s) \/ Handler(s) \/ Disconnect(s)
  \/ CreateProject \/ RemoveProject \/ AssignProject

Spec == Init /\ [][Next]_vars

\* A handler that need not wait goes on, and a run comes to its end
\* (RunFinishes of InspectorGraph), however many supersteps it takes.  Who
\* gets the lock is left open: threading.Lock makes no promise.
FairSpec ==
  /\ Spec
  /\ \A s \in Slots : WF_vars(Handler(s)) /\ SF_vars(FinishRun(s))

-----------------------------------------------------------------------------
(***************************************************************************)
(* Properties                                                              *)
(***************************************************************************)

\* Every variable stays in its domain.
TypeOK ==
  /\ projects \subseteq Projects
  /\ Listed \subseteq Threads
  /\ project \in [Listed -> Projects \union {Unfiled}]
  /\ ckpt \in [Threads -> 0..MaxMessages]
  /\ lock \in Slots \union {Free}
  /\ kind \in [Slots -> Kinds \union {"none"}]
  /\ pc \in [Slots -> Steps]
  /\ thread \in [Slots -> Threads \union {NoThread}]
  /\ mine \in [Slots -> 0..MaxMessages]

\* What a run or a compaction has in memory is what the checkpoint holds:
\* no other request writes to the conversation meanwhile (web.py:481-482).
MemoryIsCheckpoint ==
  \A s \in Slots :
    (kind[s] \in {"chat", "compact"} /\ pc[s] \in {"hold", "yield"}) =>
      mine[s] = ckpt[thread[s]]

\* A session is in no project or in one that exists (sessions.py:122-153).
ProjectsExist == \A t \in Listed : project[t] \in projects \union {Unfiled}

\* Whoever takes the lock gives it back, whether the run ends, fails or its
\* browser goes away.
LockFreed == lock # Free ~> lock = Free

\* The thread whose run is going on.
Running == IF lock \in Slots /\ kind[lock] = "chat" THEN thread[lock] ELSE NoThread

Abstract == INSTANCE Conversations WITH length <- ckpt, running <- Running

\* The requests implement conversations that change by one operation at a
\* time (web.py:481-482).
ImplementsConversations == Abstract!Spec

(***************************************************************************)
(* A claim of the repository that the code does not keep.                  *)
(***************************************************************************)

\* "Deleting a session deletes its checkpoints with it" (README.md:329): a
\* conversation that is not listed is one that a request is still busy with.
DeletedLeavesNothing ==
  \A t \in Threads : (ckpt[t] > 0 /\ t \notin Listed) =>
    \E s \in Slots : thread[s] = t

(***************************************************************************)
(* The inductive invariant.                                                *)
(***************************************************************************)

\* The holder of the lock is the one request that is inside its with
\* statement; only a chat is left between two events.
LockInv ==
  /\ \A s \in Slots : pc[s] \in {"hold", "yield"} <=> lock = s
  /\ \A s \in Slots : pc[s] = "yield" => kind[s] = "chat"
  /\ \A s \in Slots : kind[s] \notin {"none", "curate"} => thread[s] \in Threads

IndInv == TypeOK /\ LockInv /\ MemoryIsCheckpoint /\ ProjectsExist

=============================================================================
