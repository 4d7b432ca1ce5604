--------------------------- MODULE Conversations ---------------------------
(***************************************************************************)
(* What serialising the graph calls promises (src/src/web.py:481-482): the *)
(* conversation of a thread, as the checkpointer keeps it, changes by one  *)
(* operation at a time.  While a run is going on, in whatever thread, only *)
(* that run writes; a conversation is compacted or deleted between runs.   *)
(***************************************************************************)
EXTENDS Integers

CONSTANTS
  Threads,      \* the thread ids
  NoThread,     \* not one of Threads: no run is going on
  MinToCompact, \* messages a conversation has before it is compacted
  MaxMessages   \* bound: messages are counted up to here

Grow(n) == IF n < MaxMessages THEN n + 1 ELSE n

VARIABLES
  length,   \* length[t]: messages in the checkpoint of t, 0 if there is none
  running   \* the thread whose run is going on

Init ==
  /\ length = [t \in Threads |-> 0]
  /\ running = NoThread

Begin(t) ==
  /\ running = NoThread
  /\ running' = t
  /\ UNCHANGED length

Write(t) ==
  /\ running = t
  /\ length' = [length EXCEPT ![t] = Grow(@)]
  /\ UNCHANGED running

End(t) ==
  /\ running = t
  /\ running' = NoThread
  /\ UNCHANGED length

Compact(t) ==
  /\ running = NoThread
  /\ length[t] >= MinToCompact
  /\ length' = [length EXCEPT ![t] = 2]
  /\ UNCHANGED running

Delete(t) ==
  /\ running = NoThread
  /\ length' = [length EXCEPT ![t] = 0]
  /\ UNCHANGED running

Next == \E t \in Threads : Begin(t) \/ Write(t) \/ End(t) \/ Compact(t) \/ Delete(t)

Spec == Init /\ [][Next]_<<length, running>>

=============================================================================
