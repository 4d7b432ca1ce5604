------------------------- MODULE Workstation_proofs -------------------------
(***************************************************************************)
(* What is proved of the programs of one workstation: the desktop shell,   *)
(* the wiki page with its writers and the update, the settings file.       *)
(***************************************************************************)
EXTENDS MCWorkstation, SequenceTheorems, TLAPS

(***************************************************************************)
(* The desktop shell.                                                      *)
(***************************************************************************)

\* While the shell does not run it has no handle and no window.
ShellInv ==
  /\ Shell!TypeOK
  /\ app # "running" => serverProc = None /\ window = "none"
  /\ Shell!HandleIsCurrent
  /\ Shell!WindowFollowsBackend

LEMMA ShellInit == Shell!Init => ShellInv
<1> SUFFICES ASSUME Shell!Init PROVE ShellInv
  OBVIOUS
<1> USE DEF Shell!Init
<1>1. Shell!Unspawned \in [st : Shell!Alive \cup {"free", "deaf", "exited"}, mine : BOOLEAN]
  BY DEF Shell!Unspawned
<1>2. proc \in [Procs -> [st : Shell!Alive \cup {"free", "deaf", "exited"}, mine : BOOLEAN]]
  BY <1>1
<1>3. waits \in [Shell!Waiters -> 0 .. MaxWaits] /\ code \in 0 .. MaxCode
  BY ShellAssumption
<1>4. Shell!TypeOK
  BY <1>2, <1>3 DEF Shell!TypeOK
<1> QED
  BY <1>4 DEF ShellInv, Shell!HandleIsCurrent, Shell!WindowFollowsBackend

\* What becomes of the table of processes.
LEMMA SpawnedType ==
  ASSUME NEW ps \in [Procs -> [st : Shell!Alive \cup {"free", "deaf", "exited"}, mine : BOOLEAN]],
         NEW p \in Procs
  PROVE  /\ Shell!Spawned(ps, p)
              \in [Procs -> [st : Shell!Alive \cup {"free", "deaf", "exited"}, mine : BOOLEAN]]
         /\ Shell!Spawned(ps, p)[p].mine
  BY DEF Shell!Spawned, Shell!Alive

LEMMA KilledType ==
  ASSUME NEW ps \in [Procs -> [st : Shell!Alive \cup {"free", "deaf", "exited"}, mine : BOOLEAN]],
         NEW p \in Procs \cup {None}
  PROVE  Shell!Killed(ps, p)
           \in [Procs -> [st : Shell!Alive \cup {"free", "deaf", "exited"}, mine : BOOLEAN]]
<1>1. CASE p \in Procs /\ Shell!Killed(ps, p) = [ps EXCEPT ![p].st = "stopping"]
  BY <1>1 DEF Shell!Alive
<1>2. CASE Shell!Killed(ps, p) = ps
  BY <1>2
<1>3. CASE p \notin Procs
  BY <1>2, <1>3 DEF Shell!Killed
<1> QED
  BY <1>1, <1>2, <1>3 DEF Shell!Killed

LEMMA ShellStep ==
  ASSUME ShellInv, [Shell!Next]_(Shell!vars)
  PROVE  ShellInv'
<1> DEFINE Table == [Procs -> [st : Shell!Alive \cup {"free", "deaf", "exited"}, mine : BOOLEAN]]
<1> USE ShellAssumption DEF Shell!Waiters
<1>a. /\ app \in {"starting", "running", "quit"}
      /\ proc \in Table
      /\ serverProc \in Procs \cup {None}
      /\ window \in {"none", "splash", "page"}
      /\ waits \in [Shell!Waiters -> 0 .. MaxWaits]
      /\ serverReady \in BOOLEAN /\ updateTimer \in BOOLEAN /\ expired \in BOOLEAN
      /\ code \in 0 .. MaxCode
      /\ app # "running" => serverProc = None /\ window = "none"
      /\ serverProc # None => proc[serverProc].mine
      /\ window = "page" => serverReady
      /\ window = "splash" => expired \/ \E w \in Shell!Waiters : waits[w] > 0
  BY DEF ShellInv, Shell!TypeOK, Shell!HandleIsCurrent, Shell!WindowFollowsBackend
\* The goal, variable by variable.
<1>b. ASSUME app' \in {"starting", "running", "quit"}, proc' \in Table,
             serverProc' \in Procs \cup {None}, window' \in {"none", "splash", "page"},
             waits' \in [Shell!Waiters -> 0 .. MaxWaits],
             serverReady' \in BOOLEAN, updateTimer' \in BOOLEAN, expired' \in BOOLEAN,
             code' \in 0 .. MaxCode,
             app' # "running" => serverProc' = None /\ window' = "none",
             serverProc' # None => proc'[serverProc'].mine,
             window' = "page" => serverReady',
             window' = "splash" => expired' \/ \E w \in Shell!Waiters : waits'[w] > 0
      PROVE  ShellInv'
  BY <1>b DEF ShellInv, Shell!TypeOK, Shell!HandleIsCurrent, Shell!WindowFollowsBackend
<1>c. ASSUME NEW w \in Shell!Waiters, Shell!CanWait(w)
      PROVE  /\ Shell!Waiting(w) \in [Shell!Waiters -> 0 .. MaxWaits]
             /\ Shell!Waiting(w)[w] > 0
  BY <1>a, <1>c DEF Shell!CanWait, Shell!Waiting
<1>d. "createWindow" \in Shell!Waiters /\ "restartBackend" \in Shell!Waiters
  OBVIOUS
<1> HIDE DEF Table, Shell!Waiters
<1>1. CASE Shell!Launch
  <2>1. PICK updated \in BOOLEAN, p \in Shell!Free, q \in Shell!Free :
          /\ updated => code < MaxCode
          /\ code' = IF updated THEN code + 1 ELSE code
          /\ proc' = Shell!LaunchedServers(p, q, updated)
          /\ serverProc' = q
    BY <1>1 DEF Shell!Launch
  <2>2. p \in Procs /\ q \in Procs
    BY DEF Shell!Free
  <2>3. proc' \in Table /\ proc'[q].mine
    BY <1>a, <2>1, <2>2, SpawnedType DEF Shell!LaunchedServers, Table
  <2>4. code' \in 0 .. MaxCode
    BY <1>a, <2>1
  <2>5. /\ waits' \in [Shell!Waiters -> 0 .. MaxWaits]
        /\ \E w \in Shell!Waiters : waits'[w] > 0
    BY <1>1, <1>c, <1>d DEF Shell!Launch
  <2> QED
    BY <1>a, <1>b, <1>1, <2>1, <2>2, <2>3, <2>4, <2>5 DEF Shell!Launch
<1>2. CASE Shell!Activate
  <2>1. /\ waits' \in [Shell!Waiters -> 0 .. MaxWaits]
        /\ \E w \in Shell!Waiters : waits'[w] > 0
    BY <1>2, <1>c, <1>d DEF Shell!Activate
  <2>2. /\ proc' \in Table /\ serverProc' \in Procs \cup {None} /\ updateTimer' \in BOOLEAN
        /\ serverProc' # None => proc'[serverProc'].mine
    <3>1. CASE serverProc = None
      <4>1. PICK p \in Shell!Free :
              proc' = Shell!Spawned(proc, p) /\ serverProc' = p /\ updateTimer' = TRUE
        BY <1>2, <3>1 DEF Shell!Activate
      <4>2. p \in Procs
        BY DEF Shell!Free
      <4> QED
        BY <1>a, <4>1, <4>2, SpawnedType DEF Table
    <3>2. CASE serverProc # None
      BY <1>a, <1>2, <3>2 DEF Shell!Activate
    <3> QED
      BY <3>1, <3>2
  <2> QED
    BY <1>a, <1>b, <1>2, <2>1, <2>2 DEF Shell!Activate
<1>3. CASE Shell!CloseWindow \/ Shell!Quit
  <2>1. proc' \in Table
    BY <1>a, <1>3, KilledType DEF Shell!CloseWindow, Shell!Quit, Shell!Shutdown, Table
  <2> QED
    BY <1>a, <1>b, <1>3, <2>1 DEF Shell!CloseWindow, Shell!Quit, Shell!Shutdown
<1>4. CASE Shell!Relaunch
  <2>1. proc' \in Table
    BY <1>a, <1>4 DEF Shell!Relaunch, Table
  <2>2. waits' \in [Shell!Waiters -> 0 .. MaxWaits]
    BY <1>4 DEF Shell!Relaunch
  <2> QED
    BY <1>a, <1>b, <1>4, <2>1, <2>2 DEF Shell!Relaunch
<1>5. CASE Shell!RunAutoUpdate
  <2>1. PICK p \in Shell!Free : Shell!RestartBackend(p)
    BY <1>5 DEF Shell!RunAutoUpdate
  <2>2. p \in Procs
    BY DEF Shell!Free
  <2>3. proc' \in Table /\ serverProc' = p /\ proc'[p].mine
    BY <1>a, <2>1, <2>2, KilledType, SpawnedType DEF Shell!RestartBackend, Table
  <2>4. code' \in 0 .. MaxCode /\ serverReady' = FALSE /\ UNCHANGED <<app, updateTimer>>
        /\ app = "running"
    BY <1>a, <1>5, <2>1 DEF Shell!RunAutoUpdate, Shell!RestartBackend
  <2>5. CASE window = "none"
    BY <1>a, <1>b, <2>1, <2>2, <2>3, <2>4, <2>5 DEF Shell!RestartBackend
  <2>6. CASE window # "none"
    <3>1. /\ waits' \in [Shell!Waiters -> 0 .. MaxWaits]
          /\ \E w \in Shell!Waiters : waits'[w] > 0
      BY <1>c, <1>d, <2>1, <2>6 DEF Shell!RestartBackend
    <3>2. window' = "splash" /\ expired' = FALSE
      BY <2>1, <2>6 DEF Shell!RestartBackend
    <3> QED
      BY <1>a, <1>b, <2>2, <2>3, <2>4, <3>1, <3>2
  <2> QED
    BY <2>5, <2>6
<1>6. ASSUME NEW w \in Shell!Waiters, Shell!HealthOk(w) \/ Shell!HealthTimeout(w)
      PROVE  ShellInv'
  <2>1. waits' = [waits EXCEPT ![w] = @ - 1] /\ waits[w] > 0
    BY <1>6 DEF Shell!HealthOk, Shell!HealthTimeout
  <2>2. waits' \in [Shell!Waiters -> 0 .. MaxWaits]
    BY <1>a, <2>1
  <2> QED
    BY <1>a, <1>b, <1>6, <2>2 DEF Shell!HealthOk, Shell!HealthTimeout
<1>7. ASSUME NEW p \in Procs,
             Shell!Bind(p) \/ Shell!CloseSocket(p) \/ Shell!Exit(p) \/ Shell!Crash(p)
      PROVE  ShellInv'
  <2>1. PICK st \in {"serving", "exited", "deaf"} : Shell!Becomes(p, st)
    BY <1>7, Zenon DEF Shell!Bind, Shell!CloseSocket, Shell!Exit, Shell!Crash
  <2>2. proc' \in Table /\ \A q \in Procs : proc'[q].mine = proc[q].mine
    BY <1>a, <2>1 DEF Shell!Becomes, Shell!Alive, Table
  <2> QED
    BY <1>a, <1>b, <2>1, <2>2 DEF Shell!Becomes
<1>8. ASSUME NEW p \in Procs, Shell!OnExit(p) PROVE ShellInv'
  <2>1. proc' \in Table
    BY <1>a, <1>8 DEF Shell!OnExit, Table
  <2> QED
    BY <1>a, <1>b, <1>8, <2>1 DEF Shell!OnExit
<1>9. CASE UNCHANGED Shell!vars
  BY <1>a, <1>b, <1>9 DEF Shell!vars
<1> QED
  BY <1>1, <1>2, <1>3, <1>4, <1>5, <1>6, <1>7, <1>8, <1>9 DEF Shell!Next

LEMMA ShellInductive == Shell!Spec => []ShellInv
  BY ShellInit, ShellStep, PTL DEF Shell!Spec

\* desktop/main.js: whatever the order of restarts, exits and windows, the
\* handle that the next kill uses names a process whose exit is still to come.
THEOREM HandleStaysCurrent == Shell!Spec => []HandleIsCurrent
<1>1. ShellInv => HandleIsCurrent
  BY DEF ShellInv, HandleIsCurrent
<1> QED
  BY <1>1, ShellInductive, PTL

\* desktop/main.js: the page is shown after an answer only, and the splash page
\* never without a wait that is pending or has timed out.
THEOREM WindowFollows == Shell!Spec => []WindowFollowsBackend
<1>1. ShellInv => WindowFollowsBackend
  BY DEF ShellInv, WindowFollowsBackend
<1> QED
  BY <1>1, ShellInductive, PTL

(***************************************************************************)
(* The settings file.                                                      *)
(***************************************************************************)

Request == [pc : {"idle", "asked", "lines", "opened"}, asked : [Key -> Settings!Entry],
            keys : SUBSET Key, lines : [Key -> Settings!Entry],
            rest : BOOLEAN, stale : BOOLEAN]

\* What a request holds of the file besides its own keys: the lines it read are
\* those of the file until another request touches it, and unless somebody read
\* the empty file they came with the comments.
SettingsInv ==
  /\ Settings!TypeOK
  /\ Settings!RestIsKept
  /\ \A r \in Requests :
       request[r].pc \in {"lines", "opened"} => torn \/ request[r].rest
  /\ \A r \in Requests : request[r].pc = "lines" /\ ~request[r].stale
       => \A k \in Key \ request[r].keys : request[r].lines[k] = env[k]

LEMMA SettingsTypes ==
  /\ Settings!NoLines \in [Key -> Settings!Entry]
  /\ Settings!Idle \in Request /\ Settings!Idle.pc = "idle"
  /\ Settings!TypeOK <=> /\ env \in [Key -> Settings!Entry]
                         /\ others \in BOOLEAN /\ torn \in BOOLEAN
                         /\ request \in [Requests -> Request]
<1>1. Settings!NoLines \in [Key -> Settings!Entry]
  BY DEF Settings!NoLines, Settings!Entry
<1>2. Settings!Idle \in Request /\ Settings!Idle.pc = "idle"
  BY <1>1 DEF Settings!Idle, Request
<1> QED
  BY <1>1, <1>2 DEF Settings!TypeOK, Request

LEMMA SettingsInit == Settings!Init => SettingsInv
  BY SettingsTypes DEF Settings!Init, SettingsInv, Settings!RestIsKept

\* The requests that another one's write leaves behind.
LEMMA OutdatedRequests ==
  ASSUME request \in [Requests -> Request], NEW r \in Requests
  PROVE  /\ Settings!Outdated(r) \in [Requests -> Request]
         /\ Settings!Outdated(r)[r] = request[r]
         /\ \A q \in Requests \ {r} :
              /\ Settings!Outdated(r)[q].pc = request[q].pc
              /\ Settings!Outdated(r)[q].rest = request[q].rest
              /\ request[q].pc \in {"lines", "opened"} => Settings!Outdated(r)[q].stale
<1>1. \A q \in Requests : [request[q] EXCEPT !.stale = TRUE] \in Request
  BY DEF Request
<1>2. Settings!Outdated(r) \in [Requests -> Request]
  BY <1>1 DEF Settings!Outdated
<1>3. \A q \in Requests :
         Settings!Outdated(r)[q] = IF q # r /\ request[q].pc \in {"lines", "opened"}
                                   THEN [request[q] EXCEPT !.stale = TRUE] ELSE request[q]
  BY DEF Settings!Outdated
<1>4. \A q \in Requests : LET v == [request[q] EXCEPT !.stale = TRUE]
                         IN v.pc = request[q].pc /\ v.rest = request[q].rest /\ v.stale
  BY DEF Request
<1> QED
  BY <1>2, <1>3, <1>4

LEMMA SettingsStep ==
  ASSUME SettingsInv, [Settings!Next]_(Settings!vars)
  PROVE  SettingsInv'
<1>a. /\ env \in [Key -> Settings!Entry]
      /\ others \in BOOLEAN /\ torn \in BOOLEAN
      /\ request \in [Requests -> Request]
  BY SettingsTypes DEF SettingsInv
<1>b. /\ torn \/ others \/ \E q \in Requests : request[q].pc = "opened"
      /\ \A q \in Requests :
           request[q].pc \in {"lines", "opened"} => torn \/ request[q].rest
      /\ \A q \in Requests : request[q].pc = "lines" /\ ~request[q].stale
           => \A k \in Key \ request[q].keys : request[q].lines[k] = env[k]
  BY DEF SettingsInv, Settings!RestIsKept, Settings!Opened
\* The goal, variable by variable.
<1>c. ASSUME env' \in [Key -> Settings!Entry], others' \in BOOLEAN, torn' \in BOOLEAN,
             request' \in [Requests -> Request],
             torn' \/ others' \/ \E q \in Requests : request'[q].pc = "opened",
             \A q \in Requests :
               request'[q].pc \in {"lines", "opened"} => torn' \/ request'[q].rest,
             \A q \in Requests : request'[q].pc = "lines" /\ ~request'[q].stale
               => \A k \in Key \ request'[q].keys : request'[q].lines[k] = env'[k]
      PROVE  SettingsInv'
  <2>1. Settings!TypeOK'
    BY <1>c DEF Settings!TypeOK, Request
  <2>2. Settings!RestIsKept'
    BY <1>c DEF Settings!RestIsKept, Settings!Opened
  <2> QED
    BY <1>c, <2>1, <2>2 DEF SettingsInv
<1>1. ASSUME NEW r \in Requests, Settings!Put(r) PROVE SettingsInv'
  <2>1. PICK set, clears \in SUBSET Key : \E updates \in [set -> Settings!Entry] :
          /\ Settings!ToWrite(updates, clears) # {}
          /\ request' = [request EXCEPT
               ![r] = [Settings!Idle EXCEPT !.pc = "asked",
                         !.keys = Settings!ToWrite(updates, clears),
                         !.asked = [k \in Key |-> IF k \in set \ clears THEN updates[k] ELSE Blank]]]
    BY <1>1, Zenon DEF Settings!Put
  <2>2. PICK updates \in [set -> Settings!Entry] :
          request' = [request EXCEPT
            ![r] = [Settings!Idle EXCEPT !.pc = "asked",
                      !.keys = Settings!ToWrite(updates, clears),
                      !.asked = [k \in Key |-> IF k \in set \ clears THEN updates[k] ELSE Blank]]]
    BY <2>1, Zenon
  <2> DEFINE asked == [k \in Key |-> IF k \in set \ clears THEN updates[k] ELSE Blank]
             keys == Settings!ToWrite(updates, clears)
             new == [Settings!Idle EXCEPT !.pc = "asked", !.keys = keys, !.asked = asked]
  <2>3. asked \in [Key -> Settings!Entry] /\ keys \in SUBSET Key
    BY DEF Settings!ToWrite, Settings!Entry
  <2>4. new \in Request /\ new.pc = "asked"
    <3> HIDE DEF asked, keys
    <3> QED
      BY <2>3, SettingsTypes DEF Request
  <2>5. request' = [request EXCEPT ![r] = new]
    BY <2>2
  <2> HIDE DEF new
  <2>6. request[r].pc = "idle" /\ UNCHANGED <<env, others, torn>>
    BY <1>1 DEF Settings!Put
  <2> QED
    BY <1>a, <1>b, <1>c, <2>4, <2>5, <2>6
<1>2. ASSUME NEW r \in Requests, Settings!ReadLines(r) PROVE SettingsInv'
  <2> DEFINE new == [request[r] EXCEPT !.pc = "lines", !.lines = Settings!Replaced(r),
                                       !.rest = others]
  <2>1. Settings!Replaced(r) \in [Key -> Settings!Entry]
    BY <1>a DEF Settings!Replaced, Request
  <2>2. \A k \in Key \ request[r].keys : Settings!Replaced(r)[k] = env[k]
    BY DEF Settings!Replaced
  <2>3. /\ new \in Request /\ new.pc = "lines" /\ new.rest = others
        /\ new.lines = Settings!Replaced(r) /\ new.keys = request[r].keys
    BY <1>a, <2>1 DEF Request
  <2>4. request' = [request EXCEPT ![r] = new]
    BY <1>2, <1>a DEF Settings!ReadLines
  <2> HIDE DEF new
  <2>5. /\ request[r].pc = "asked" /\ UNCHANGED <<env, others>>
        /\ torn' = (torn \/ \E q \in Requests : request[q].pc = "opened")
    BY <1>2 DEF Settings!ReadLines, Settings!Opened
  <2>6. \A q \in Requests : request'[q] = IF q = r THEN new ELSE request[q]
    BY <1>a, <2>4
  <2>7. request' \in [Requests -> Request]
    BY <1>a, <2>3, <2>4
  <2>8. torn' \/ others
    BY <1>b, <2>5
  <2>9. torn => torn'
    BY <2>5
  <2>10. torn' \in BOOLEAN
    BY <2>5
  <2>11. torn' \/ others' \/ \E q \in Requests : request'[q].pc = "opened"
    BY <2>5, <2>8
  <2>12. \A q \in Requests : request'[q].pc \in {"lines", "opened"} => torn' \/ request'[q].rest
    BY <1>b, <2>3, <2>6, <2>8, <2>9
  <2>13. \A q \in Requests : request'[q].pc = "lines" /\ ~request'[q].stale
           => \A k \in Key \ request'[q].keys : request'[q].lines[k] = env'[k]
    BY <1>b, <2>2, <2>3, <2>5, <2>6
  <2> QED
    BY <1>a, <1>c, <2>5, <2>7, <2>10, <2>11, <2>12, <2>13
<1>3. ASSUME NEW r \in Requests, Settings!OpenFile(r) PROVE SettingsInv'
  <2> DEFINE left == Settings!Outdated(r)
             new == [left[r] EXCEPT !.pc = "opened"]
  <2>1. /\ request' = [left EXCEPT ![r].pc = "opened"]
        /\ env' = Settings!NoLines /\ others' = FALSE /\ torn' = torn /\ request[r].pc = "lines"
    BY <1>3 DEF Settings!OpenFile
  <2>2. /\ left \in [Requests -> Request] /\ left[r] = request[r]
        /\ \A q \in Requests \ {r} :
              /\ left[q].pc = request[q].pc /\ left[q].rest = request[q].rest
              /\ request[q].pc \in {"lines", "opened"} => left[q].stale
    BY <1>a, OutdatedRequests
  <2> HIDE DEF left
  <2>3. new \in Request /\ new.pc = "opened" /\ new.rest = request[r].rest
    BY <2>2 DEF Request
  <2>4. request' = [left EXCEPT ![r] = new]
    BY <2>1, <2>2
  <2> HIDE DEF new
  <2>5. \A q \in Requests : request'[q] = IF q = r THEN new ELSE left[q]
    BY <2>2, <2>4
  <2>6. request' \in [Requests -> Request]
    BY <2>2, <2>3, <2>4
  <2>7. \A q \in Requests : request'[q].pc \in {"lines", "opened"} => torn' \/ request'[q].rest
    BY <1>b, <2>1, <2>2, <2>3, <2>5
  <2>8. \A q \in Requests : ~ (request'[q].pc = "lines" /\ ~request'[q].stale)
    BY <2>2, <2>3, <2>5
  <2> QED
    BY <1>a, <1>c, <2>1, <2>3, <2>5, <2>6, <2>7, <2>8, SettingsTypes
<1>4. ASSUME NEW r \in Requests, Settings!WriteLines(r) PROVE SettingsInv'
  <2> DEFINE left == Settings!Outdated(r)
  <2>1. /\ request' = [left EXCEPT ![r] = Settings!Idle]
        /\ env' = request[r].lines /\ others' = request[r].rest
        /\ torn' = torn /\ request[r].pc = "opened"
    BY <1>4 DEF Settings!WriteLines
  <2>2. /\ left \in [Requests -> Request]
        /\ \A q \in Requests \ {r} :
              /\ left[q].pc = request[q].pc /\ left[q].rest = request[q].rest
              /\ request[q].pc \in {"lines", "opened"} => left[q].stale
    BY <1>a, OutdatedRequests
  <2> HIDE DEF left
  <2>3. \A q \in Requests : request'[q] = IF q = r THEN Settings!Idle ELSE left[q]
    BY <2>1, <2>2
  <2>4. request' \in [Requests -> Request]
    BY <2>1, <2>2, SettingsTypes
  <2>5. env' \in [Key -> Settings!Entry] /\ others' \in BOOLEAN
    BY <1>a, <2>1 DEF Request
  <2>6. torn' \/ others'
    BY <1>b, <2>1
  <2>7. \A q \in Requests : request'[q].pc \in {"lines", "opened"} => torn' \/ request'[q].rest
    BY <1>b, <2>1, <2>2, <2>3, SettingsTypes
  <2>8. \A q \in Requests : ~ (request'[q].pc = "lines" /\ ~request'[q].stale)
    BY <2>2, <2>3, SettingsTypes
  <2> QED
    BY <1>a, <1>c, <2>1, <2>4, <2>5, <2>6, <2>7, <2>8
<1>5. CASE Settings!Crash
  <2>1. /\ request' = [r \in Requests |-> Settings!Idle] /\ UNCHANGED <<env, others>>
        /\ torn' = (torn \/ \E q \in Requests : request[q].pc = "opened")
    BY <1>5 DEF Settings!Crash, Settings!Opened
  <2>2. request' \in [Requests -> Request] /\ \A q \in Requests : request'[q].pc = "idle"
    BY <2>1, SettingsTypes
  <2> QED
    BY <1>a, <1>b, <1>c, <2>1, <2>2
<1>6. CASE UNCHANGED Settings!vars
  BY <1>a, <1>b, <1>c, <1>6 DEF Settings!vars
<1> QED
  BY <1>1, <1>2, <1>3, <1>4, <1>5, <1>6 DEF Settings!Next

LEMMA SettingsInductive == Settings!Spec => []SettingsInv
  BY SettingsInit, SettingsStep, PTL DEF Settings!Spec

\* settings_store.py: whatever the overlap of the requests, the comments and the
\* keys of others are lost only if the file was read, or its writer killed,
\* while it was empty.
THEOREM RestSurvives == Settings!Spec => []RestIsKept
<1>1. SettingsInv => RestIsKept
  BY DEF SettingsInv, RestIsKept
<1> QED
  BY <1>1, SettingsInductive, PTL

LEMMA SettingsAction ==
  ASSUME SettingsInv, [Settings!Next]_(Settings!vars), NEW r \in Requests,
         request[r].pc = "lines", ~request[r].stale
  PROVE  \A k \in Key \ request[r].keys : request[r].lines[k] = env[k]
  BY DEF SettingsInv

\* settings_store.py: a save that no other one overlaps writes back every key
\* it was not asked to change as the file has it at that moment.
THEOREM SavesAsAsked == Settings!Spec => OnlyAsAsked
<1>1. SettingsInv /\ [Settings!Next]_(Settings!vars)
        => [\A r \in Requests :
              request[r].pc = "lines" /\ request'[r].pc = "opened" /\ ~request[r].stale /\ ~torn
                => \A k \in Key \ request[r].keys : request[r].lines[k] = env[k]]_(Settings!vars)
  BY SettingsAction
<1> QED
  BY <1>1, SettingsInductive, PTL DEF Settings!Spec, OnlyAsAsked, Settings!OnlyAsAsked

(***************************************************************************)
(* The wiki page.                                                          *)
(***************************************************************************)

Writer == [pc : {"idle", "locked", "read"}, seen : Page, stale : BOOLEAN]
Locks == [{Process[w] : w \in Locked} -> Locked \cup {NoWriter}]
Saved == [page : Page, base : Page]
Pull == [pc : {"idle", "dirty", "stashed", "merged"}, own : BOOLEAN]

\* The page is what a writer under a lock read, unless it is told otherwise, and
\* it holds the lock of its process; a fetched main has all that head has.
WikiInv ==
  /\ TypeOK
  /\ head.notes \subseteq main.notes
  /\ \A w \in Locked : writer[w].pc # "idle" => lock[Process[w]] = w
  /\ \A w \in Locked : writer[w].pc = "read" /\ ~writer[w].stale => tree = writer[w].seen

LEMMA WikiTypes ==
  TypeOK <=> /\ tree \in Page /\ head \in Page /\ main \in Page
             /\ stash \in Seq(Saved) /\ unmerged \in BOOLEAN /\ made \in 0 .. MaxNotes
             /\ lock \in Locks /\ writer \in [Writers -> Writer]
             /\ updater \in [Updaters -> Pull]
  BY DEF TypeOK, Writer, Locks, Saved, Pull

LEMMA WikiInit == Init => WikiInv
<1> SUFFICES ASSUME Init PROVE WikiInv
  OBVIOUS
<1>1. Absent \in Page /\ Idle \in Writer /\ Idle.pc = "idle"
  BY DEF Absent, Idle, Page, Writer
<1>2. lock \in Locks
  BY DEF Init, Locks
<1>3. updater \in [Updaters -> Pull]
  BY DEF Init, Pull
<1>4. /\ tree \in Page /\ head \in Page /\ main \in Page /\ head = main
      /\ unmerged \in BOOLEAN /\ stash = <<>>
      /\ writer \in [Writers -> Writer] /\ \A w \in Writers : writer[w].pc = "idle"
  <2>1. writer = [w \in Writers |-> Idle]
    BY DEF Init
  <2>2. writer \in [Writers -> Writer] /\ \A w \in Writers : writer[w].pc = "idle"
    BY <1>1, <2>1
  <2> QED
    BY <1>1, <2>2 DEF Init
<1>5. made \in 0 .. MaxNotes
  BY WikiMemoryAssumption DEF Init
<1>6. TypeOK
  BY <1>2, <1>3, <1>4, <1>5, WikiTypes
<1> QED
  BY <1>4, <1>6 DEF WikiInv, Writers

\* The writers after a step that changes the page under those in ws.
LEMMA OutdatedWriters ==
  ASSUME writer \in [Writers -> Writer], NEW ws
  PROVE  /\ Outdated(ws) \in [Writers -> Writer]
         /\ \A v \in Writers :
              /\ Outdated(ws)[v].pc = writer[v].pc
              /\ Outdated(ws)[v].seen = writer[v].seen
              /\ ~Outdated(ws)[v].stale
                   => /\ ~writer[v].stale
                      /\ v \in ws /\ writer[v].pc = "read" => tree' = tree
<1> DEFINE later(v) == [writer[v] EXCEPT !.stale = TRUE]
<1>1. \A v \in Writers :
         /\ later(v) \in Writer /\ later(v).pc = writer[v].pc
         /\ later(v).seen = writer[v].seen /\ later(v).stale
  BY DEF Writer
<1>2. \A v \in Writers :
        Outdated(ws)[v] = IF v \in ws /\ writer[v].pc = "read" /\ tree' # tree
                          THEN later(v) ELSE writer[v]
  BY DEF Outdated
<1>3. Outdated(ws) \in [Writers -> Writer]
  BY <1>1 DEF Outdated
<1> HIDE DEF later
<1> QED
  BY <1>1, <1>2, <1>3

LEMMA LockNames ==
  Locked \subseteq Writers /\ \A w \in Locked : Process[w] \in {Process[v] : v \in Locked}
  BY DEF Writers

\* A page with one more note.
LEMMA WithNoteType ==
  ASSUME NEW p \in Page, made \in 0 .. MaxNotes, made < MaxNotes
  PROVE  /\ WithNote(p) \in Page /\ p.notes \subseteq WithNote(p).notes
         /\ made + 1 \in 0 .. MaxNotes
<1>1. made + 1 \in 1 .. MaxNotes
  BY WikiMemoryAssumption
<1> QED
  BY <1>1, WikiMemoryAssumption DEF WithNote, Page

\* The end of a turn under the lock.
LEMMA ReleaseStep ==
  ASSUME WikiInv, NEW w \in Locked, writer[w].pc = "read", Release(w)
  PROVE  /\ lock' \in Locks /\ writer' \in [Writers -> Writer]
         /\ \A v \in Locked : writer'[v].pc # "idle" => lock'[Process[v]] = v
         /\ \A v \in Locked : writer'[v].pc = "read" /\ ~writer'[v].stale
              => tree' = writer'[v].seen
<1> DEFINE left == Outdated({v \in Locked : Process[v] # Process[w]})
<1>1. lock' = [lock EXCEPT ![Process[w]] = NoWriter] /\ writer' = [left EXCEPT ![w] = Idle]
  BY DEF Release
<1>2. lock \in Locks /\ writer \in [Writers -> Writer]
  BY WikiTypes DEF WikiInv
<1>3. /\ left \in [Writers -> Writer]
      /\ \A v \in Writers :
           /\ left[v].pc = writer[v].pc /\ left[v].seen = writer[v].seen
           /\ ~left[v].stale
                => /\ ~writer[v].stale
                   /\ v \in Locked /\ Process[v] # Process[w] /\ writer[v].pc = "read"
                        => tree' = tree
  BY <1>2, OutdatedWriters
<1> HIDE DEF left
<1>4. Idle \in Writer /\ Idle.pc = "idle"
  BY DEF Idle, Writer, Absent, Page
<1>5. \A v \in Writers : writer'[v] = IF v = w THEN Idle ELSE left[v]
  BY <1>1, <1>3
<1>6. lock' \in Locks /\ writer' \in [Writers -> Writer]
  BY <1>1, <1>2, <1>3, <1>4, LockNames DEF Locks
<1>7. \A v \in Locked : lock'[Process[v]] = IF Process[v] = Process[w] THEN NoWriter
                                          ELSE lock[Process[v]]
  BY <1>1, <1>2, LockNames DEF Locks
\* Nobody else of the process is under way.
<1>8. \A v \in Locked : v # w /\ Process[v] = Process[w] => writer[v].pc = "idle"
  BY DEF WikiInv
<1>9. \A v \in Locked : writer'[v].pc # "idle" => v # w /\ writer[v].pc = writer'[v].pc
                                              /\ Process[v] # Process[w]
  BY <1>3, <1>4, <1>5, <1>8, LockNames
<1> QED
  BY <1>3, <1>5, <1>6, <1>7, <1>9, LockNames DEF WikiInv

\* A step that takes no lock and tells every writer under a lock of it.
LEMMA ToldStep ==
  ASSUME WikiInv, NEW ws, Locked \subseteq ws, writer' = Outdated(ws), lock' = lock
  PROVE  /\ lock' \in Locks /\ writer' \in [Writers -> Writer]
         /\ \A v \in Locked : writer'[v].pc # "idle" => lock'[Process[v]] = v
         /\ \A v \in Locked : writer'[v].pc = "read" /\ ~writer'[v].stale
              => tree' = writer'[v].seen
<1>1. lock \in Locks /\ writer \in [Writers -> Writer]
  BY WikiTypes DEF WikiInv
<1>2. /\ writer' \in [Writers -> Writer]
      /\ \A v \in Writers :
           /\ writer'[v].pc = writer[v].pc /\ writer'[v].seen = writer[v].seen
           /\ ~writer'[v].stale
                => ~writer[v].stale /\ (v \in ws /\ writer[v].pc = "read" => tree' = tree)
  BY <1>1, OutdatedWriters
<1> QED
  BY <1>1, <1>2, LockNames DEF WikiInv

\* A step of a writer without the lock, or none, on a page that stays.
LEMMA SameStep ==
  ASSUME WikiInv, tree' = tree, NEW w \in Writers, NEW r \in Writer,
         writer' = [writer EXCEPT ![w] = r], lock' \in Locks,
         \A v \in Locked : v # w /\ writer[v].pc # "idle" => lock'[Process[v]] = lock[Process[v]],
         w \in Locked => /\ r.pc # "idle" => lock'[Process[w]] = w
                         /\ r.pc = "read" => r.seen = tree
  PROVE  /\ lock' \in Locks /\ writer' \in [Writers -> Writer]
         /\ \A v \in Locked : writer'[v].pc # "idle" => lock'[Process[v]] = v
         /\ \A v \in Locked : writer'[v].pc = "read" /\ ~writer'[v].stale
              => tree' = writer'[v].seen
<1>1. writer \in [Writers -> Writer]
  BY WikiTypes DEF WikiInv
<1>2. \A v \in Writers : writer'[v] = IF v = w THEN r ELSE writer[v]
  BY <1>1
<1>3. writer' \in [Writers -> Writer]
  BY <1>1
<1> QED
  BY <1>2, <1>3, LockNames DEF WikiInv

\* What a step of the update leaves alone.
LEMMA UpdateWriters ==
  ASSUME WikiInv, NEW u \in Updaters, Update(u)
  PROVE  /\ lock' \in Locks /\ writer' \in [Writers -> Writer]
         /\ \A v \in Locked : writer'[v].pc # "idle" => lock'[Process[v]] = v
         /\ \A v \in Locked : writer'[v].pc = "read" /\ ~writer'[v].stale
              => tree' = writer'[v].seen
<1>1. CASE Fetch(u)
  <2>1. UNCHANGED <<tree, lock, writer>>
    BY <1>1 DEF Fetch
  <2> QED
    BY <2>1, WikiTypes DEF WikiInv
<1>2. CASE StashPush(u) \/ Merge(u) \/ StashPop(u)
  <2>1. writer' = Outdated(Locked) /\ lock' = lock
    BY <1>2, Zenon DEF StashPush, Merge, StashPop
  <2> QED
    BY <2>1, ToldStep
<1> QED
  BY <1>1, <1>2 DEF Update

\* The pages and the stash after a step of the update.
LEMMA UpdatePages ==
  ASSUME WikiInv, NEW u \in Updaters, Update(u)
  PROVE  /\ tree' \in Page /\ head' \in Page /\ main' \in Page
         /\ stash' \in Seq(Saved) /\ unmerged' \in BOOLEAN /\ made' \in 0 .. MaxNotes
         /\ updater' \in [Updaters -> Pull]
         /\ head'.notes \subseteq main'.notes
<1>1. /\ tree \in Page /\ head \in Page /\ main \in Page
      /\ stash \in Seq(Saved) /\ unmerged \in BOOLEAN /\ made \in 0 .. MaxNotes
      /\ updater \in [Updaters -> Pull] /\ head.notes \subseteq main.notes
  BY WikiTypes DEF WikiInv
<1>2. ASSUME NEW r \in Pull, updater' = [updater EXCEPT ![u] = r]
      PROVE  updater' \in [Updaters -> Pull]
  BY <1>1, <1>2
<1>3. \A b \in BOOLEAN, pc \in {"idle", "dirty", "stashed", "merged"} :
        /\ [pc |-> pc, own |-> b] \in Pull
        /\ [updater[u] EXCEPT !.pc = pc] \in Pull
  BY <1>1 DEF Pull
<1>4. CASE Fetch(u)
  <2>1. /\ updater' \in [Updaters -> Pull]
        /\ UNCHANGED <<tree, head, stash, unmerged>>
        /\ \/ main' = main /\ made' = made
           \/ made < MaxNotes /\ main' = WithNote(main) /\ made' = made + 1
    <3>1. updater' = [updater EXCEPT ![u] = [pc |-> IF Dirty THEN "dirty" ELSE "stashed",
                                             own |-> Dirty]]
      BY <1>4 DEF Fetch
    <3>2. Dirty \in BOOLEAN
      BY DEF Dirty
    <3>3. updater' \in [Updaters -> Pull]
      BY <1>2, <1>3, <3>1, <3>2
    <3> QED
      BY <1>4, <3>3 DEF Fetch, Upstream
  <2> QED
    BY <1>1, <2>1, WithNoteType
<1>5. CASE StashPush(u)
  <2>1. updater' \in [Updaters -> Pull]
    BY <1>2, <1>3, <1>5 DEF StashPush
  <2>2. [page |-> tree, base |-> head] \in Saved
    BY <1>1 DEF Saved
  <2>3. <<[page |-> tree, base |-> head]>> \o stash \in Seq(Saved)
    BY <1>1, <2>2
  <2>4. tree' \in Page /\ stash' \in Seq(Saved) /\ UNCHANGED <<head, main, unmerged, made>>
    BY <1>1, <1>5, <2>3 DEF StashPush
  <2> QED
    BY <1>1, <2>1, <2>4
<1>6. CASE Merge(u)
  <2>1. updater' \in [Updaters -> Pull]
    BY <1>2, <1>3, <1>6 DEF Merge
  <2>2. /\ tree' \in Page /\ (head' = main \/ head' = head)
        /\ UNCHANGED <<main, stash, unmerged, made>>
    BY <1>1, <1>6 DEF Merge
  <2> QED
    BY <1>1, <2>1, <2>2
<1>7. CASE StashPop(u)
  <2>1. updater' \in [Updaters -> Pull]
    BY <1>2, <1>3, <1>7 DEF StashPop
  <2>2. UNCHANGED <<head, main, made>>
    BY <1>7 DEF StashPop
  <2>3. stash # <<>> => Tail(stash) \in Seq(Saved) /\ stash[1] \in Saved
    BY <1>1
  <2>4. stash # <<>> => stash[1].page \in Page /\ Conflicted(head, stash[1].page) \in Page
    BY <1>1, <2>3 DEF Saved, Conflicted, Page
  <2>5. tree' \in Page /\ stash' \in Seq(Saved) /\ unmerged' \in BOOLEAN
    BY <1>1, <1>7, <2>3, <2>4 DEF StashPop
  <2> QED
    BY <1>1, <2>1, <2>2, <2>5
<1> QED
  BY <1>4, <1>5, <1>6, <1>7 DEF Update

LEMMA WikiStep ==
  ASSUME WikiInv, [Next]_vars
  PROVE  WikiInv'
<1>1. /\ tree \in Page /\ head \in Page /\ main \in Page
      /\ stash \in Seq(Saved) /\ unmerged \in BOOLEAN /\ made \in 0 .. MaxNotes
      /\ lock \in Locks /\ writer \in [Writers -> Writer]
      /\ updater \in [Updaters -> Pull] /\ head.notes \subseteq main.notes
  BY WikiTypes DEF WikiInv
\* The goal in three parts: the pages, the writers, the update.
<1> DEFINE PagesOK == /\ tree \in Page /\ head \in Page /\ main \in Page
                      /\ stash \in Seq(Saved) /\ unmerged \in BOOLEAN
                      /\ made \in 0 .. MaxNotes /\ updater \in [Updaters -> Pull]
                      /\ head.notes \subseteq main.notes
           WritersOK == /\ lock \in Locks /\ writer \in [Writers -> Writer]
                        /\ \A w \in Locked : writer[w].pc # "idle" => lock[Process[w]] = w
                        /\ \A w \in Locked : writer[w].pc = "read" /\ ~writer[w].stale
                             => tree = writer[w].seen
<1>2. ASSUME PagesOK', WritersOK' PROVE WikiInv'
  <2>1. TypeOK'
    BY <1>2 DEF TypeOK, Writer, Locks, Saved, Pull
  <2> QED
    BY <1>2, <2>1 DEF WikiInv
<1>3. ASSUME UNCHANGED <<git, updater>>, tree' \in Page, made' \in 0 .. MaxNotes
      PROVE  PagesOK'
  BY <1>1, <1>3 DEF git
<1>4. ASSUME NEW w \in Locked, Acquire(w) PROVE WikiInv'
  <2> DEFINE r == [writer[w] EXCEPT !.pc = "locked"]
  <2>1. /\ lock' = [lock EXCEPT ![Process[w]] = w] /\ lock[Process[w]] = NoWriter
        /\ writer' = [writer EXCEPT ![w] = r]
        /\ UNCHANGED <<tree, git, made, updater>>
    BY <1>4, <1>1, LockNames DEF Acquire
  <2>2. r \in Writer /\ r.pc = "locked"
    BY <1>1, LockNames DEF Writer
  <2> HIDE DEF r
  <2>3. lock' \in Locks /\ lock'[Process[w]] = w
    BY <1>1, <2>1, LockNames DEF Locks
  <2>4. \A v \in Locked : writer[v].pc # "idle" => Process[v] # Process[w]
    BY <2>1, WikiMemoryAssumption, LockNames DEF WikiInv
  <2>5. \A v \in Locked : writer[v].pc # "idle" => lock'[Process[v]] = lock[Process[v]]
    BY <1>1, <2>1, <2>4, LockNames DEF Locks
  <2>6. WritersOK'
    BY <2>1, <2>2, <2>3, <2>5, SameStep, LockNames
  <2> QED
    BY <1>1, <1>2, <1>3, <2>1, <2>6
<1>5. ASSUME NEW w \in Locked, ReadPage(w) PROVE WikiInv'
  <2> DEFINE r == [writer[w] EXCEPT !.pc = "read", !.seen = tree]
  <2>1. /\ writer' = [writer EXCEPT ![w] = r] /\ writer[w].pc = "locked"
        /\ UNCHANGED <<tree, git, made, lock, updater>>
    BY <1>5, <1>1, LockNames DEF ReadPage
  <2>2. r \in Writer /\ r.pc = "read" /\ r.seen = tree
    BY <1>1, LockNames DEF Writer
  <2> HIDE DEF r
  <2>3. lock[Process[w]] = w
    BY <2>1 DEF WikiInv
  <2>4. WritersOK'
    BY <1>1, <2>1, <2>2, <2>3, SameStep, LockNames
  <2> QED
    BY <1>1, <1>2, <1>3, <2>1, <2>4
<1>6. ASSUME NEW w \in Locked,
             GiveUp(w) \/ (w \in Observers /\ Observe(w)) \/ (w \in Curators /\ Curate(w))
      PROVE  WikiInv'
  <2>1. Release(w) /\ writer[w].pc = "read" /\ UNCHANGED <<git, updater>>
    BY <1>6, Zenon DEF GiveUp, Observe, Curate
  <2>2. WritersOK'
    BY <2>1, ReleaseStep
  <2>3. writer[w].seen \in Page
    BY <1>1, LockNames DEF Writer
  <2>4. tree' \in Page /\ made' \in 0 .. MaxNotes
    <3>1. CASE GiveUp(w)
      BY <1>1, <3>1 DEF GiveUp
    <3>2. CASE Observe(w)
      BY <1>1, <2>3, <3>2, WithNoteType DEF Observe
    <3>3. CASE Curate(w)
      <4>1. PICK kept \in SUBSET writer[w].seen.notes :
              tree' = [writer[w].seen EXCEPT !.notes = kept]
        BY <3>3 DEF Curate, Revised
      <4>2. tree' \in Page
        BY <2>3, <4>1 DEF Page
      <4> QED
        BY <1>1, <3>3, <4>2 DEF Curate
    <3> QED
      BY <1>6, <3>1, <3>2, <3>3
  <2> QED
    BY <1>2, <1>3, <2>1, <2>2, <2>4
<1>7. ASSUME NEW e \in Editors, OpenEditor(e) PROVE WikiInv'
  <2> DEFINE r == [pc |-> "read", seen |-> tree, stale |-> FALSE]
  <2>1. /\ writer' = [writer EXCEPT ![e] = r]
        /\ UNCHANGED <<tree, git, made, lock, updater>>
    BY <1>7 DEF OpenEditor
  <2>2. r \in Writer
    BY <1>1 DEF Writer
  <2> HIDE DEF r
  <2>3. e \in Writers /\ e \notin Locked
    BY WikiMemoryAssumption DEF Writers
  <2>4. WritersOK'
    BY <1>1, <2>1, <2>2, <2>3, SameStep
  <2> QED
    BY <1>1, <1>2, <1>3, <2>1, <2>4
<1>8. ASSUME NEW e \in Editors, SaveEdit(e) PROVE WikiInv'
  <2> DEFINE left == Outdated(Writers)
  <2>1. /\ writer' = [left EXCEPT ![e] = Idle] /\ lock' = lock
        /\ tree' = WithNote(writer[e].seen) /\ made' = made + 1 /\ made < MaxNotes
        /\ UNCHANGED <<git, updater>>
    BY <1>8 DEF SaveEdit
  <2>2. /\ left \in [Writers -> Writer]
        /\ \A v \in Writers :
             /\ left[v].pc = writer[v].pc /\ left[v].seen = writer[v].seen
             /\ ~left[v].stale => ~writer[v].stale /\ (writer[v].pc = "read" => tree' = tree)
    BY <1>1, OutdatedWriters
  <2> HIDE DEF left
  <2>3. e \in Writers /\ e \notin Locked
    BY WikiMemoryAssumption DEF Writers
  <2>4. Idle \in Writer
    BY DEF Idle, Writer, Absent, Page
  <2>5. writer' \in [Writers -> Writer] /\ \A v \in Locked : writer'[v] = left[v]
    BY <2>1, <2>2, <2>3, <2>4, LockNames
  <2>6. WritersOK'
    BY <1>1, <2>1, <2>2, <2>5, LockNames DEF WikiInv
  <2>7. writer[e].seen \in Page
    BY <1>1, <2>3 DEF Writer
  <2>8. tree' \in Page /\ made' \in 0 .. MaxNotes
    BY <1>1, <2>1, <2>7, WithNoteType
  <2> QED
    BY <1>2, <1>3, <2>1, <2>6, <2>8
<1>9. ASSUME NEW u \in Updaters, Update(u) PROVE WikiInv'
  <2>1. PagesOK'
    BY <1>9, UpdatePages
  <2>2. WritersOK'
    BY <1>9, UpdateWriters
  <2> QED
    BY <1>2, <2>1, <2>2
<1>10. CASE UNCHANGED vars
  <2>1. PagesOK'
    BY <1>1, <1>10 DEF vars, git
  <2>2. WritersOK'
    BY <1>1, <1>10 DEF vars, WikiInv
  <2> QED
    BY <1>2, <2>1, <2>2
<1> QED
  BY <1>4, <1>5, <1>6, <1>7, <1>8, <1>9, <1>10 DEF Next, Locked

LEMMA WikiInductive == Spec => []WikiInv
  BY WikiInit, WikiStep, PTL DEF Spec

\* web.py's invoke_lock around the graph and the curator: what a writer under it
\* drops from the page without having read it was put there, after it read, by
\* somebody who does not take that lock.
THEOREM LockProtectsPages == Spec => LockedWriteLosesNothing
<1> DEFINE Kept == \A w \in Locked :
               writer[w].pc = "read" /\ writer'[w].pc = "idle" /\ ~writer[w].stale
                 => tree.notes \ writer[w].seen.notes \subseteq tree'.notes
<1>1. WikiInv /\ [Next]_vars => [Kept]_vars
  BY DEF WikiInv
<1> QED
  BY <1>1, WikiInductive, PTL DEF Spec, LockedWriteLosesNothing

\* Where a note may be.
LEMMA MemoryHas ==
  /\ \A x : x \in Memory <=> \/ x \in tree.notes \/ x \in head.notes \/ x \in main.notes
                             \/ \E i \in 1 .. Len(stash) : x \in stash[i].page.notes
  /\ \A x : x \in Memory' <=> \/ x \in tree'.notes \/ x \in head'.notes \/ x \in main'.notes
                              \/ \E i \in 1 .. Len(stash') : x \in stash'[i].page.notes
  BY DEF Memory

\* No git command of an update discards a note.
LEMMA UpdateStep ==
  ASSUME WikiInv, NEW u \in Updaters, Update(u), NEW x \in Memory
  PROVE  x \in Memory'
<1>1. /\ tree \in Page /\ head \in Page /\ main \in Page
      /\ stash \in Seq(Saved) /\ made \in 0 .. MaxNotes /\ head.notes \subseteq main.notes
  BY WikiTypes DEF WikiInv
<1>2. \/ x \in tree.notes \/ x \in main.notes
      \/ \E i \in 1 .. Len(stash) : x \in stash[i].page.notes
  BY <1>1, MemoryHas
<1>3. CASE Fetch(u)
  <2>1. UNCHANGED <<tree, head, stash>> /\ main.notes \subseteq main'.notes
    BY <1>1, <1>3, WithNoteType DEF Fetch, Upstream
  <2> QED
    BY <1>2, <2>1, MemoryHas
<1>4. CASE StashPush(u)
  <2>1. main' = main /\ head' = head
    BY <1>4 DEF StashPush
  <2>2. CASE unmerged \/ tree = head
    <3>1. tree' = tree /\ stash' = stash
      BY <1>4, <2>2 DEF StashPush
    <3> QED
      BY <1>2, <2>1, <3>1, MemoryHas
  <2>3. CASE ~unmerged /\ tree # head
    <3> DEFINE e == [page |-> tree, base |-> head]
    <3>1. stash' = <<e>> \o stash
      BY <1>4, <2>3 DEF StashPush
    <3>2. e.page = tree
      OBVIOUS
    <3> HIDE DEF e
    <3>3. /\ Len(stash') = Len(stash) + 1 /\ Len(stash) \in Nat
          /\ stash'[1] = e
          /\ \A i \in 1 .. Len(stash) : i + 1 \in 1 .. Len(stash') /\ stash'[i + 1] = stash[i]
      BY <1>1, <3>1
    <3>4. 1 \in 1 .. Len(stash')
      BY <3>3
    <3> QED
      BY <1>2, <2>1, <3>2, <3>3, <3>4, MemoryHas
  <2> QED
    BY <2>2, <2>3
<1>5. CASE Merge(u)
  <2>1. main' = main /\ stash' = stash /\ (tree' = tree \/ tree = head)
    BY <1>5 DEF Merge
  <2> QED
    BY <1>1, <1>2, <2>1, MemoryHas
<1>6. CASE StashPop(u)
  <2>1. main' = main /\ head' = head
    BY <1>6 DEF StashPop
  <2>2. CASE stash = <<>> \/ Dirty
    <3>1. tree' = tree /\ stash' = stash
      BY <1>6, <2>2 DEF StashPop
    <3> QED
      BY <1>2, <2>1, <3>1, MemoryHas
  <2>3. CASE stash # <<>> /\ ~Dirty
    <3>1. tree = head
      BY <2>3 DEF Dirty
    <3>2. CASE stash[1].base = head
      <4>1. tree' = stash[1].page /\ stash' = Tail(stash)
        BY <1>6, <2>3, <3>2 DEF StashPop
      <4>2. \A i \in 1 .. Len(stash) :
              i # 1 => i - 1 \in 1 .. Len(stash') /\ stash'[i - 1] = stash[i]
        BY <1>1, <2>3, <4>1
      <4> QED
        BY <1>1, <1>2, <2>1, <3>1, <4>1, <4>2, MemoryHas
    <3>3. CASE stash[1].base # head
      <4>1. stash' = stash
        BY <1>6, <2>3, <3>3 DEF StashPop
      <4> QED
        BY <1>1, <1>2, <2>1, <3>1, <4>1, MemoryHas
    <3> QED
      BY <3>2, <3>3
  <2> QED
    BY <2>2, <2>3
<1> QED
  BY <1>3, <1>4, <1>5, <1>6 DEF Update

\* desktop/updater.js: whatever the order of its git commands with the writes of
\* others and with another update, no command of an update discards a note.
THEOREM UpdatesKeepMemory == Spec => UpdateKeepsMemory
<1> DEFINE Kept == updater' # updater => Memory \subseteq Memory'
<1>1. WikiInv /\ [Next]_vars => [Kept]_vars
  <2> SUFFICES ASSUME WikiInv, [Next]_vars, updater' # updater PROVE Memory \subseteq Memory'
    OBVIOUS
  <2>1. PICK u \in Updaters : Update(u)
    BY DEF Next, vars, Acquire, ReadPage, GiveUp, Observe, Curate, OpenEditor, SaveEdit
  <2> QED
    BY <2>1, UpdateStep
<1> QED
  BY <1>1, WikiInductive, PTL DEF Spec, UpdateKeepsMemory

(***************************************************************************)
(* The three together.                                                     *)
(***************************************************************************)

LEMMA TogetherInit == MCInit => WikiInv /\ ShellInv /\ SettingsInv
  BY WikiInit, ShellInit, SettingsInit DEF MCInit

LEMMA TogetherStep ==
  ASSUME WikiInv, ShellInv, SettingsInv, [MCNext]_<<vars, shellVars, settingsVars, focus>>
  PROVE  WikiInv' /\ ShellInv' /\ SettingsInv'
<1>1. /\ [Next]_vars /\ [Shell!Next]_(Shell!vars) /\ [Settings!Next]_(Settings!vars)
  BY DEF MCNext, shellVars, settingsVars, Shell!vars, Settings!vars
<1> QED
  BY <1>1, WikiStep, ShellStep, SettingsStep

\* The types of all that the workstation's programs keep.
THEOREM WorkstationTypes == MCSpec => []TypesOK
<1>1. WikiInv /\ ShellInv /\ SettingsInv => TypesOK
  BY DEF WikiInv, ShellInv, SettingsInv, TypesOK
<1> QED
  BY <1>1, TogetherInit, TogetherStep, PTL DEF MCSpec

\* A behaviour of the composition is one of each program: what is proved above of
\* the shell, the page and the settings file alone is true of what the run checks.
THEOREM EachIsItself == MCSpec => Spec /\ Shell!Spec /\ Settings!Spec
<1>1. MCInit => Init /\ Shell!Init /\ Settings!Init
  BY DEF MCInit
<1>2. [MCNext]_<<vars, shellVars, settingsVars, focus>>
        => [Next]_vars /\ [Shell!Next]_(Shell!vars) /\ [Settings!Next]_(Settings!vars)
  BY DEF MCNext, shellVars, settingsVars, Shell!vars, Settings!vars
<1> QED
  BY <1>1, <1>2, PTL DEF MCSpec, Spec, Shell!Spec, Settings!Spec
=============================================================================
