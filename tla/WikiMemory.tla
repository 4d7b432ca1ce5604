----------------------------- MODULE WikiMemory -----------------------------
(***************************************************************************)
(* One page of the wiki, everybody who writes it, and the automatic update *)
(* of the git checkout it lies in.                                         *)
(*                                                                         *)
(* Every writer reads the whole page, works on what it read and writes the *)
(* whole page back.  The graph's wiki_writer (an observer) and the curator *)
(* do it while they hold the invoke_lock of their process; the editor of   *)
(* the browser (PUT /api/wiki/page) holds no lock, and neither does        *)
(* desktop/updater.js, which moves uncommitted pages into a stash,         *)
(* fast-forwards, and pops the stash again.                                *)
(*                                                                         *)
(* A page is the set of its notes: observations, lessons, what a user      *)
(* typed.                                                                  *)
(***************************************************************************)
EXTENDS Integers, FiniteSets, Sequences

CONSTANTS
  Observers,      \* graph runs
  Curators,       \* curator cycles
  Editors,        \* open editors in a browser
  Process,        \* the process each observer and curator runs in
  Updaters,       \* calls of checkAndPull that may overlap (timer, menu)
  MaxNotes,       \* bound: notes ever written
  MaxStash,       \* bound: stash entries
  NoWriter

Locked == Observers \cup Curators
Writers == Locked \cup Editors

ASSUME WikiMemoryAssumption ==
  /\ Observers \cap Curators = {} /\ Locked \cap Editors = {}
  /\ Process \in [Locked -> STRING]
  /\ MaxNotes \in Nat /\ MaxStash \in Nat
  /\ NoWriter \notin Writers

VARIABLES
  tree,           \* the page in the working tree
  head,           \* the page of the checked-out commit
  main,           \* the page of the remote's main, as last fetched
  stash,          \* stash entries, newest first
  unmerged,       \* the index has an unmerged path
  made,           \* number of notes written so far
  lock,           \* invoke_lock of each process
  writer,         \* where each writer is, and the page it read
  updater         \* where each checkAndPull is

vars == <<tree, head, main, stash, unmerged, made, lock, writer, updater>>
git == <<head, main, stash, unmerged>>

Page == [file : {"absent", "page", "broken"}, notes : SUBSET (1 .. MaxNotes)]
Absent == [file |-> "absent", notes |-> {}]
Idle == [pc |-> "idle", seen |-> Absent, stale |-> FALSE]

TypeOK ==
  /\ tree \in Page
  /\ head \in Page
  /\ main \in Page
  /\ stash \in Seq([page : Page, base : Page])
  /\ unmerged \in BOOLEAN
  /\ made \in 0 .. MaxNotes
  /\ lock \in [{Process[w] : w \in Locked} -> Locked \cup {NoWriter}]
  /\ writer \in [Writers -> [pc : {"idle", "locked", "read"}, seen : Page, stale : BOOLEAN]]
  /\ updater \in [Updaters -> [pc : {"idle", "dirty", "stashed", "merged"},
                               own : BOOLEAN]]

Init ==
  /\ tree = Absent
  /\ head = Absent
  /\ main = Absent
  /\ stash = <<>>
  /\ unmerged = FALSE
  /\ made = 0
  /\ lock = [p \in {Process[w] : w \in Locked} |-> NoWriter]
  /\ writer = [w \in Writers |-> Idle]
  /\ updater = [u \in Updaters |-> [pc |-> "idle", own |-> FALSE]]

\* The writers whose page somebody else has changed since they read it.
Outdated(ws) ==
  [w \in Writers |-> IF w \in ws /\ writer[w].pc = "read" /\ tree' # tree
                     THEN [writer[w] EXCEPT !.stale = TRUE] ELSE writer[w]]

(***************************************************************************)
(* The writers under a lock.                                               *)
(***************************************************************************)
\* A writer that does not wait for the lock.
AcquireAnyway(w) ==
  /\ writer[w].pc = "idle"
  /\ lock' = [lock EXCEPT ![Process[w]] = w]
  /\ writer' = [writer EXCEPT ![w].pc = "locked"]
  /\ UNCHANGED <<tree, git, made, updater>>

Acquire(w) ==
  /\ writer[w].pc = "idle" /\ lock[Process[w]] = NoWriter
  /\ lock' = [lock EXCEPT ![Process[w]] = w]
  /\ writer' = [writer EXCEPT ![w].pc = "locked"]
  /\ UNCHANGED <<tree, git, made, updater>>

Release(w) ==
  /\ lock' = [lock EXCEPT ![Process[w]] = NoWriter]
  /\ writer' = [Outdated({v \in Locked : Process[v] # Process[w]}) EXCEPT ![w] = Idle]

ReadPage(w) ==
  /\ writer[w].pc = "locked"
  /\ writer' = [writer EXCEPT ![w].pc = "read", ![w].seen = tree]
  /\ UNCHANGED <<tree, git, made, lock, updater>>

\* The page with one more note; an absent page is created with it.
WithNote(page) == [file |-> "page", notes |-> page.notes \cup {made + 1}]

Observe(w) ==
  /\ writer[w].pc = "read" /\ writer[w].seen.file # "broken" /\ made < MaxNotes
  /\ tree' = WithNote(writer[w].seen)
  /\ made' = made + 1
  /\ Release(w)
  /\ UNCHANGED <<git, updater>>

\* The curator's revision: applied when it keeps at least half of what was read.
Revised(page) ==
  {[page EXCEPT !.notes = kept] :
     kept \in {k \in SUBSET page.notes : 2 * Cardinality(k) >= Cardinality(page.notes)}}

Curate(w) ==
  /\ writer[w].pc = "read" /\ writer[w].seen.file # "absent"
  /\ tree' \in Revised(writer[w].seen)
  /\ Release(w)
  /\ UNCHANGED <<git, made, updater>>

\* The page does not parse, the model fails, its answer is refused.
GiveUp(w) ==
  /\ writer[w].pc = "read"
  /\ UNCHANGED <<tree, git, made, updater>>
  /\ Release(w)

(***************************************************************************)
(* The editor: what the browser loaded, plus what its user adds.           *)
(***************************************************************************)
OpenEditor(e) ==
  /\ writer[e].pc = "idle" /\ tree.file # "absent"
  /\ writer' = [writer EXCEPT ![e] = [pc |-> "read", seen |-> tree, stale |-> FALSE]]
  /\ UNCHANGED <<tree, git, made, lock, updater>>

SaveEdit(e) ==
  /\ writer[e].pc = "read" /\ tree.file # "absent" /\ made < MaxNotes
  /\ tree' = WithNote(writer[e].seen)
  /\ made' = made + 1
  /\ writer' = [Outdated(Writers) EXCEPT ![e] = Idle]
  /\ UNCHANGED <<git, lock, updater>>

(***************************************************************************)
(* checkAndPull, one action per git command that reads or writes the page. *)
(***************************************************************************)
Dirty == tree # head \/ unmerged

\* What another checkout may have pushed: the page it pulled with a note of its own.
Upstream == WithNote(main)

\* Local source changes, or no remote that answers, end the call at once.
Fetch(u) ==
  /\ updater[u].pc = "idle"
  /\ \/ main' = main /\ made' = made
     \/ made < MaxNotes /\ main' = Upstream /\ made' = made + 1
  /\ updater' = [updater EXCEPT ![u] = [pc |-> IF Dirty THEN "dirty" ELSE "stashed", own |-> Dirty]]
  /\ UNCHANGED <<tree, head, stash, unmerged, lock, writer>>

\* Git refuses while a path is unmerged, and says yes when there is nothing
\* left to stash.
StashPush(u) ==
  /\ updater[u].pc = "dirty"
  /\ IF unmerged
     THEN /\ updater' = [updater EXCEPT ![u] = [pc |-> "idle", own |-> FALSE]]
          /\ UNCHANGED <<tree, stash>>
     ELSE /\ tree # head => Len(stash) < MaxStash
          /\ updater' = [updater EXCEPT ![u].pc = "stashed"]
          /\ stash' = IF tree = head THEN stash
                      ELSE <<[page |-> tree, base |-> head]>> \o stash
          /\ tree' = head
  /\ writer' = Outdated(Locked)
  /\ UNCHANGED <<head, main, unmerged, made, lock>>

CanFastForward == ~unmerged /\ (main = head \/ tree = head)

Merge(u) ==
  /\ updater[u].pc = "stashed"
  /\ IF CanFastForward
     THEN /\ head' = main
          /\ tree' = IF tree = head THEN main ELSE tree
     ELSE UNCHANGED <<head, tree>>
  /\ updater' = [updater EXCEPT ![u] = IF @.own THEN [@ EXCEPT !.pc = "merged"]
                                       ELSE [pc |-> "idle", own |-> FALSE]]
  /\ writer' = Outdated(Locked)
  /\ UNCHANGED <<main, stash, unmerged, made, lock>>

\* Both versions, with conflict markers in the front matter.
Conflicted(p, q) == [file |-> "broken", notes |-> p.notes \cup q.notes]

\* A pop that overwrites what was written since the push.
StashPopOver(u) ==
  /\ updater[u].pc = "merged"
  /\ IF stash = <<>> THEN UNCHANGED <<tree, stash>>
     ELSE tree' = stash[1].page /\ stash' = Tail(stash)
  /\ updater' = [updater EXCEPT ![u] = [pc |-> "idle", own |-> FALSE]]
  /\ writer' = Outdated(Locked)
  /\ UNCHANGED <<head, main, made, lock, unmerged>>

\* A pop fails and keeps its entry when there is none, when it would overwrite
\* local changes, and when both sides changed the page.
StashPop(u) ==
  /\ updater[u].pc = "merged"
  /\ IF stash = <<>> \/ Dirty
     THEN UNCHANGED <<tree, stash, unmerged>>
     ELSE IF stash[1].base = head
     THEN tree' = stash[1].page /\ stash' = Tail(stash) /\ UNCHANGED unmerged
     ELSE /\ tree' = Conflicted(head, stash[1].page)
          /\ unmerged' = TRUE
          /\ UNCHANGED stash
  /\ updater' = [updater EXCEPT ![u] = [pc |-> "idle", own |-> FALSE]]
  /\ writer' = Outdated(Locked)
  /\ UNCHANGED <<head, main, made, lock>>

Update(u) == Fetch(u) \/ StashPush(u) \/ Merge(u) \/ StashPop(u)
Next ==
  \/ \E w \in Locked : Acquire(w) \/ ReadPage(w) \/ GiveUp(w)
  \/ \E w \in Observers : Observe(w)
  \/ \E w \in Curators : Curate(w)
  \/ \E e \in Editors : OpenEditor(e) \/ SaveEdit(e)
  \/ \E u \in Updaters : Update(u)

Spec == Init /\ [][Next]_vars

(***************************************************************************)
(* Properties.                                                             *)
(***************************************************************************)
\* Where a note may be found again.
Memory == UNION {p.notes : p \in {tree, head, main} \cup
                                 {stash[i].page : i \in 1 .. Len(stash)}}

\* updater.js: whatever the order of its commands with the writes of others and
\* with another update, no command of an update discards a note: it is in the
\* tree, in a commit, or in the stash that a failed pop keeps.
UpdateKeepsMemory == [][updater' # updater => Memory \subseteq Memory']_vars

\* The invoke_lock: what a writer under it drops from the page without having
\* read it was put there by somebody who does not take that lock (an edit, an
\* update, another process) after it read.
LockedWriteLosesNothing ==
  [][\A w \in Locked : writer[w].pc = "read" /\ writer'[w].pc = "idle" /\ ~writer[w].stale
       => tree.notes \ writer[w].seen.notes \subseteq tree'.notes]_vars
=============================================================================
