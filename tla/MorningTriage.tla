---------------------------- MODULE MorningTriage ----------------------------
(***************************************************************************)
(* The morning brief (morning_triage.py, slack_notify.py).                 *)
(*                                                                         *)
(* A run scans the two clusters and then the tables of the lake, one after *)
(* the other, compares what it sees with the snapshot of the run before,   *)
(* replaces the snapshot, and sends the changes to Slack at the end.  What *)
(* is in a source is a map of its deployments (image and replicas) or of   *)
(* its tables (rows).  A read that fails is absorbed (_safe): a cluster    *)
(* that does not answer looks like an empty one.                           *)
(***************************************************************************)
EXTENDS Integers, FiniteSets

CONSTANTS
  Sources,          \* number of sources; the last one is the lake
  Entries,          \* names of the deployments or tables of every source
  Versions,         \* image and replicas, or number of rows
  MaxShown          \* changed entries of a source that a message always shows

VARIABLES
  snapshot,         \* the file of every source; an empty map for none or no JSON
  at,               \* source the run is at; 0 when none runs
  dry,              \* --dry-run
  changes,          \* this run's report: the changed entries of every source
  told,             \* history: the sources as the delivered reports have them
  based,            \* history: sources whose first baseline was set
  lost              \* history: entries whose last change no message showed

vars == <<snapshot, at, dry, changes, told, based, lost>>

Source == 1 .. Sources
Deps == UNION {Entries[s] : s \in Source}
Absent == "absent"
Content == [Deps -> Versions \cup {Absent}]
Empty == [d \in Deps |-> Absent]
Present(content) == {d \in Deps : content[d] # Absent}
Contents(s) == {content \in Content : Present(content) \subseteq Entries[s]}
Reports == UNION {[D -> Versions \cup {Absent}] : D \in SUBSET Deps}
Nothing == [d \in {} |-> Absent]
NoChanges == [s \in Source |-> Nothing]

TypeOK ==
  /\ \A f \in {snapshot, told} : f \in [Source -> Content]
  /\ at \in 0 .. Sources + 1 /\ dry \in BOOLEAN
  /\ changes \in [Source -> Reports]
  /\ based \subseteq Source
  /\ lost \in [Source -> SUBSET Deps]

Init ==
  /\ snapshot = [s \in Source |-> Empty]
  /\ at = 0 /\ dry = FALSE
  /\ changes = NoChanges
  /\ told = snapshot
  /\ based = {} /\ lost = [s \in Source |-> {}]

(***************************************************************************)
(* diff_snapshots, and the same of scan_lake_data.                         *)
(***************************************************************************)
\* Removals are not looked for.
DiffOfPresent(prev, cur) ==
  [d \in {d \in Present(cur) : prev # Empty /\ prev[d] # cur[d]} |-> cur[d]]

\* New, changed and removed entries; nothing when there is nothing to compare
\* with.
Diff(prev, cur) == [d \in {d \in Deps : prev # Empty /\ prev[d] # cur[d]} |-> cur[d]]

\* What a reader of the report has then.
Patched(content, report) ==
  [d \in Deps |-> IF d \in DOMAIN report THEN report[d] ELSE content[d]]

(***************************************************************************)
(* The run.                                                                *)
(***************************************************************************)
Start(d) ==
  /\ at = 0
  /\ at' = 1 /\ dry' = d /\ changes' = NoChanges
  /\ UNCHANGED <<snapshot, told, based, lost>>

\* scan_cluster or scan_lake_data, the comparison and the new snapshot.  A scan
\* sees anything: deployments come and go, a list that fails leaves its entries
\* out, and a cluster that does not answer has none.  With an empty snapshot
\* nothing is compared: the first time that sets the baseline; later, after a
\* scan that saw nothing, whatever is there again comes without a report.
Scan ==
  /\ at \in Source
  /\ \E cur \in Contents(at) :
       /\ changes' = [changes EXCEPT ![at] = Diff(snapshot[at], cur)]
       /\ snapshot' = [snapshot EXCEPT ![at] = cur]
       /\ based' = IF cur = Empty THEN based ELSE based \cup {at}
       /\ told' = IF at \in based THEN told ELSE [told EXCEPT ![at] = cur]
       /\ lost' = IF at \in based /\ snapshot[at] = Empty
                    THEN [lost EXCEPT ![at] = @ \cup Present(cur)]
                    ELSE lost
  /\ at' = at + 1
  /\ UNCHANGED dry

\* A configuration that is refused, a client that cannot be made, no lake or one
\* that does not answer: the snapshot stays.
ScanFails ==
  /\ at \in Source
  /\ at' = at + 1
  /\ UNCHANGED <<snapshot, dry, changes, told, based, lost>>

Ends == at' = 0 /\ dry' = FALSE /\ changes' = NoChanges

\* The lists of build_message are cut, each source's on its own.
Cut(hidden) ==
  \A s \in Source :
    /\ hidden[s] \subseteq DOMAIN changes[s]
    /\ hidden[s] # {} => Cardinality(DOMAIN changes[s]) - Cardinality(hidden[s]) >= MaxShown

Shown(s, hidden) == [d \in DOMAIN changes[s] \ hidden[s] |-> changes[s][d]]

\* send_slack.
Deliver ==
  /\ at > Sources /\ ~dry
  /\ \E hidden \in [Source -> SUBSET Deps] :
       /\ Cut(hidden)
       /\ told' = [s \in Source |-> Patched(told[s], Shown(s, hidden))]
       /\ lost' = [s \in Source |-> (lost[s] \ DOMAIN changes[s]) \cup hidden[s]]
  /\ Ends
  /\ UNCHANGED <<snapshot, based>>

Unsaid == [s \in Source |-> lost[s] \cup DOMAIN changes[s]]

\* A dry run, Slack not set up, an error of Slack.
NotDelivered ==
  /\ at > Sources
  /\ lost' = Unsaid
  /\ Ends
  /\ UNCHANGED <<snapshot, told, based>>

\* The run dies between two sources, or while it writes a snapshot, which is
\* then no JSON and is read as empty.
Crash ==
  /\ at > 0
  /\ \/ lost' = Unsaid /\ UNCHANGED snapshot
     \/ /\ at \in Source
        /\ lost' = [Unsaid EXCEPT ![at] = @ \cup Present(snapshot[at])]
        /\ snapshot' = [snapshot EXCEPT ![at] = Empty]
  /\ Ends
  /\ UNCHANGED <<told, based>>

Next ==
  \/ \E d \in BOOLEAN : Start(d)
  \/ Scan \/ ScanFails \/ Deliver \/ NotDelivered \/ Crash

Spec == Init /\ [][Next]_vars

(***************************************************************************)
(* Properties.                                                             *)
(***************************************************************************)
\* morning_triage.py, "changes since the day before": from its first baseline on,
\* every entry of a source is in the snapshot as the delivered reports have it,
\* unless its last change was in a report that was not delivered or was cut, or
\* came when the snapshot was empty: one lost report spoils the entries it names
\* and no others, and the next report of an entry puts it right again.
ReportsAddUp ==
  at = 0 => \A s \in Source : \A d \in Deps \ lost[s] : told[s][d] = snapshot[s][d]
=============================================================================
