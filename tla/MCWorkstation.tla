--------------------------- MODULE MCWorkstation ---------------------------
(***************************************************************************)
(* The programs of one workstation, for TLC: the desktop shell, the wiki   *)
(* page with its writers and the update, and the settings file.            *)
(*                                                                         *)
(* No two of them share a variable here, so the interleavings of their     *)
(* steps add nothing: every behaviour runs one of them ("focus"), and the  *)
(* states to check are the sum of theirs and not the product.              *)
(***************************************************************************)
EXTENDS WikiMemory, TLC

CONSTANTS Procs, None, MaxCode, MaxWaits
CONSTANTS Key, Secret, Value, Blank, Requests

ASSUME ShellAssumption == MaxCode \in Nat /\ MaxWaits \in Nat

VARIABLES app, proc, serverProc, window, waits, serverReady, updateTimer, expired, code
VARIABLES env, others, request, torn
VARIABLE focus

shellVars == <<app, proc, serverProc, window, waits, serverReady, updateTimer, expired, code>>
settingsVars == <<env, others, request, torn>>

Shell == INSTANCE DesktopShell
Settings == INSTANCE SettingsStore

MCProcess == [w \in Locked |-> IF w \in Curators THEN "cron" ELSE "server"]
MCSymmetry == Permutations(Observers) \cup Permutations(Updaters)
              \cup Permutations(Requests)

MCInit == Init /\ Shell!Init /\ Settings!Init /\ focus \in {"shell", "wiki", "settings"}

MCNext ==
  /\ UNCHANGED focus
  /\ \/ focus = "wiki" /\ Next /\ UNCHANGED <<shellVars, settingsVars>>
     \/ focus = "shell" /\ Shell!Next /\ UNCHANGED <<vars, settingsVars>>
     \/ focus = "settings" /\ Settings!Next /\ UNCHANGED <<vars, shellVars>>

MCSpec == MCInit /\ [][MCNext]_<<vars, shellVars, settingsVars, focus>>

\* The type invariants of the three.
TypesOK == TypeOK /\ Shell!TypeOK /\ Settings!TypeOK

\* DesktopShell: the handle names a process whose exit is still to be told.
HandleIsCurrent == Shell!HandleIsCurrent

\* DesktopShell: the page is shown after an answer, the splash while one is awaited.
WindowFollowsBackend == Shell!WindowFollowsBackend

\* SettingsStore: comments and other keys survive requests that overlap.
RestIsKept == Settings!RestIsKept

\* SettingsStore: a request that overlaps no other changes the keys it names.
OnlyAsAsked == Settings!OnlyAsAsked
=============================================================================
