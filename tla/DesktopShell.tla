---------------------------- MODULE DesktopShell ----------------------------
(***************************************************************************)
(* The Electron shell (desktop/main.js) and the backends it starts.        *)
(*                                                                         *)
(* The shell spawns the Python server as a child process, polls its health *)
(* address behind a splash page, restarts it after an update of the        *)
(* checkout, and kills it when the last window closes and when it quits.   *)
(* All backends listen on one port.  A child outlives the shell unless it  *)
(* was killed.                                                             *)
(***************************************************************************)
EXTENDS Integers, FiniteSets

CONSTANTS
  Procs,          \* backends that may be spawned
  None,
  MaxCode,        \* bound: updates of the checkout
  MaxWaits        \* bound: pending waitForServer calls of one kind

VARIABLES
  app,            \* the shell
  proc,           \* each backend, and whether this shell will hear of its exit
  serverProc,     \* the shell's handle
  window,         \* what mainWindow shows
  waits,          \* pending waitForServer calls, by who made them
  serverReady,
  updateTimer,
  expired,        \* a wait has timed out since the splash page was loaded
  code            \* version of the checkout: updates pulled so far

vars == <<app, proc, serverProc, window, waits, serverReady, updateTimer, expired, code>>

Waiters == {"createWindow", "restartBackend"}
Alive == {"booting", "serving", "stopping"}
Unspawned == [st |-> "free", mine |-> FALSE]

TypeOK ==
  /\ app \in {"starting", "running", "quit"}
  /\ proc \in [Procs -> [st : Alive \cup {"free", "deaf", "exited"}, mine : BOOLEAN]]
  /\ serverProc \in Procs \cup {None}
  /\ window \in {"none", "splash", "page"}
  /\ waits \in [Waiters -> 0 .. MaxWaits]
  /\ {serverReady, updateTimer, expired} \subseteq BOOLEAN
  /\ code \in 0 .. MaxCode

Init ==
  /\ app = "starting"
  /\ proc = [p \in Procs |-> Unspawned]
  /\ serverProc = None
  /\ window = "none"
  /\ waits = [w \in Waiters |-> 0]
  /\ serverReady = FALSE
  /\ updateTimer = FALSE
  /\ expired = FALSE
  /\ code = 0

(***************************************************************************)
(* The functions of the shell, on the table of processes.                  *)
(***************************************************************************)
Spawned(ps, p) == [ps EXCEPT ![p] = [st |-> "booting", mine |-> TRUE]]

\* SIGTERM: a server that boots dies of it, one that serves closes its socket
\* and finishes its connections.
Killed(ps, p) ==
  IF p # None /\ ps[p].st \in {"booting", "serving"}
  THEN [ps EXCEPT ![p].st = "stopping"] ELSE ps

Free == {p \in Procs : proc[p].st = "free"}
Waiting(w) == [waits EXCEPT ![w] = @ + 1]
CanWait(w) == waits[w] < MaxWaits

(***************************************************************************)
(* Start, windows, quit.                                                   *)
(***************************************************************************)
\* whenReady: an update that pulled something restarts the backend, and then
\* the backend is started.
LaunchedServers(p, q, updated) ==
  IF updated THEN Spawned(Spawned(proc, p), q) ELSE Spawned(proc, q)

Launch ==
  /\ app = "starting" /\ CanWait("createWindow")
  /\ \E updated \in BOOLEAN, p, q \in Free :
       /\ p # q /\ (updated => code < MaxCode)
       /\ code' = IF updated THEN code + 1 ELSE code
       /\ proc' = LaunchedServers(p, q, updated)
       /\ serverProc' = q
  /\ app' = "running"
  /\ window' = "splash"
  /\ waits' = Waiting("createWindow")
  /\ updateTimer' = TRUE
  /\ expired' = FALSE
  /\ UNCHANGED serverReady

\* The Dock icon of an application without windows.
Activate ==
  /\ app = "running" /\ window = "none" /\ CanWait("createWindow")
  /\ IF serverProc = None
     THEN \E p \in Free :
            /\ proc' = Spawned(proc, p)
            /\ serverProc' = p
            /\ updateTimer' = TRUE
     ELSE UNCHANGED <<proc, serverProc, updateTimer>>
  /\ window' = "splash"
  /\ waits' = Waiting("createWindow")
  /\ expired' = FALSE
  /\ UNCHANGED <<app, serverReady, code>>

Shutdown ==
  /\ updateTimer' = FALSE
  /\ proc' = Killed(proc, serverProc)
  /\ serverProc' = None

CloseWindow ==
  /\ app = "running" /\ window # "none"
  /\ window' = "none"
  /\ Shutdown
  /\ UNCHANGED <<app, waits, serverReady, expired, code>>

Quit ==
  /\ app = "running"
  /\ app' = "quit"
  /\ window' = "none"
  /\ Shutdown
  /\ UNCHANGED <<waits, serverReady, expired, code>>

\* One instance of the shell at a time; a new one knows nothing of the backends.
Relaunch ==
  /\ app = "quit"
  /\ app' = "starting"
  /\ proc' = [p \in Procs |-> [proc[p] EXCEPT !.mine = FALSE]]
  /\ waits' = [w \in Waiters |-> 0]
  /\ serverReady' = FALSE
  /\ expired' = FALSE
  /\ UNCHANGED <<serverProc, window, updateTimer, code>>

(***************************************************************************)
(* runAutoUpdate from the timer or the menu, when it pulled something.     *)
(***************************************************************************)
\* Shows the splash page and waits for nothing.
RestartOnly(p) ==
  /\ proc' = Spawned(Killed(proc, serverProc), p)
  /\ serverProc' = p
  /\ serverReady' = FALSE
  /\ window' = IF window = "none" THEN "none" ELSE "splash"
  /\ expired' = FALSE
  /\ UNCHANGED waits

RestartBackend(p) ==
  /\ proc' = Spawned(Killed(proc, serverProc), p)
  /\ serverProc' = p
  /\ serverReady' = FALSE
  /\ IF window = "none"
     THEN UNCHANGED <<window, waits, expired>>
     ELSE /\ CanWait("restartBackend")
          /\ window' = "splash"
          /\ waits' = Waiting("restartBackend")
          /\ expired' = FALSE

RunAutoUpdate ==
  /\ app = "running" /\ code < MaxCode
  /\ code' = code + 1
  /\ \E p \in Free : RestartBackend(p)
  /\ UNCHANGED <<app, updateTimer>>

(***************************************************************************)
(* waitForServer: whoever holds the port answers.                          *)
(***************************************************************************)
Listening == {p \in Procs : proc[p].st \in {"serving", "stopping"}}

HealthOk(w) ==
  /\ app = "running" /\ waits[w] > 0 /\ Listening # {}
  /\ waits' = [waits EXCEPT ![w] = @ - 1]
  /\ serverReady' = TRUE
  /\ window' = IF window = "none" THEN "none" ELSE "page"
  /\ UNCHANGED <<app, proc, serverProc, updateTimer, expired, code>>

\* A timeout that is not cancelled by the answer.
TimeoutAfterAnswer(w) ==
  /\ app = "running"
  /\ waits' = [waits EXCEPT ![w] = @ - 1]
  /\ expired' = TRUE
  /\ UNCHANGED <<app, proc, serverProc, window, serverReady, updateTimer, code>>

\* createWindow shows an error, restartBackend shows nothing.
HealthTimeout(w) ==
  /\ app = "running" /\ waits[w] > 0
  /\ waits' = [waits EXCEPT ![w] = @ - 1]
  /\ expired' = TRUE
  /\ UNCHANGED <<app, proc, serverProc, window, serverReady, updateTimer, code>>

(***************************************************************************)
(* The backends.                                                           *)
(***************************************************************************)
Becomes(p, st) ==
  /\ proc' = [proc EXCEPT ![p].st = st]
  /\ UNCHANGED <<app, serverProc, window, waits, serverReady, updateTimer, expired, code>>

\* A server that finds the port taken exits.
Bind(p) == proc[p].st = "booting" /\ Becomes(p, IF Listening = {} THEN "serving" ELSE "exited")

\* A stopping server closes its socket before it is done with its connections.
CloseSocket(p) == proc[p].st = "stopping" /\ Becomes(p, "deaf")
Exit(p) == proc[p].st = "deaf" /\ Becomes(p, "exited")
Crash(p) == proc[p].st \in {"booting", "serving"} /\ Becomes(p, "exited")

\* Leaves the handle to the next kill.
OnExitKeeps(p) ==
  /\ app = "running" /\ proc[p].st = "exited" /\ proc[p].mine
  /\ proc' = [proc EXCEPT ![p].mine = FALSE]
  /\ UNCHANGED <<app, serverProc, window, waits, serverReady, updateTimer, expired, code>>

\* The event runs in the shell that spawned the process, whatever the handle
\* holds by then.
OnExit(p) ==
  /\ app = "running" /\ proc[p].st = "exited" /\ proc[p].mine
  /\ proc' = [proc EXCEPT ![p].mine = FALSE]
  /\ serverProc' = None
  /\ UNCHANGED <<app, window, waits, serverReady, updateTimer, expired, code>>

Next ==
  \/ Launch \/ Activate \/ CloseWindow \/ Quit \/ Relaunch
  \/ RunAutoUpdate
  \/ \E w \in Waiters : HealthOk(w) \/ HealthTimeout(w)
  \/ \E p \in Procs : Bind(p) \/ CloseSocket(p) \/ Exit(p) \/ Crash(p) \/ OnExit(p)

Spec == Init /\ [][Next]_vars

(***************************************************************************)
(* Properties.                                                             *)
(***************************************************************************)
\* main.js kills what its handle names: whatever the order of restarts, exits
\* and windows, the handle names no process whose exit it has been told of (its
\* number may belong to another program by then) and none of an earlier life.
HandleIsCurrent == serverProc # None => proc[serverProc].mine

\* The window follows the backend: it shows the page only after some server
\* answered since the last restart, and it never waits on the splash page with
\* no wait pending unless one has timed out.
WindowFollowsBackend ==
  /\ window = "page" => serverReady
  /\ window = "splash" => expired \/ \E w \in Waiters : waits[w] > 0

\* The comment at the head of main.js: the server is cleaned up when the
\* application ends, so none serves on untold.
QuitLeavesNoServer == app = "quit" => \A p \in Procs : proc[p].st # "serving"
=============================================================================
