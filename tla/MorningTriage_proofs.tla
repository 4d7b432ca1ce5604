------------------------ MODULE MorningTriage_proofs ------------------------
(***************************************************************************)
(* What is proved of the morning brief, for every number of sources and    *)
(* whatever they hold.                                                     *)
(***************************************************************************)
EXTENDS MorningTriage, TLAPS

\* The files, what was told of them, and the changes in hand.
DataInv ==
  /\ snapshot \in [Source -> Content]
  /\ told \in [Source -> Content]
  /\ changes \in [Source -> Reports]
  /\ lost \in [Source -> SUBSET Deps]

\* No source has changes before it was scanned, and none when no run is on; a
\* source without a baseline has an empty file.
ScannedInv ==
  /\ at = 0 => \A s \in Source : DOMAIN changes[s] = {}
  /\ at \in Source => \A s \in Source : s >= at => DOMAIN changes[s] = {}
  /\ \A s \in Source \ based : snapshot[s] = Empty

\* What was told, with the changes in hand, is the snapshot, entry by entry.
SumInv ==
  \A s \in Source : \A d \in Deps :
    IF d \in DOMAIN changes[s] THEN changes[s][d] = snapshot[s][d]
                               ELSE d \in lost[s] \/ told[s][d] = snapshot[s][d]

IndInv == DataInv /\ ScannedInv /\ SumInv

LEMMA EmptyContent == Empty \in Content /\ Present(Empty) = {}
  BY DEF Empty, Content, Present

LEMMA NothingReported == Nothing \in Reports /\ DOMAIN Nothing = {}
<1>1. Nothing \in [{} -> Versions \cup {Absent}]
  BY DEF Nothing
<1>2. {} \in SUBSET Deps
  OBVIOUS
<1> QED
  BY <1>1, <1>2 DEF Reports

\* diff_snapshots: a report has the entries that differ, as they are now.
LEMMA DiffReport ==
  ASSUME NEW prev \in Content, NEW cur \in Content
  PROVE  /\ Diff(prev, cur) \in Reports
         /\ DOMAIN Diff(prev, cur) = {d \in Deps : prev # Empty /\ prev[d] # cur[d]}
         /\ \A d \in DOMAIN Diff(prev, cur) : Diff(prev, cur)[d] = cur[d]
<1> DEFINE D == {d \in Deps : prev # Empty /\ prev[d] # cur[d]}
<1>1. Diff(prev, cur) = [d \in D |-> cur[d]]
  BY DEF Diff
<1>2. D \in SUBSET Deps /\ \A d \in D : cur[d] \in Versions \cup {Absent}
  BY DEF Content
<1> HIDE DEF D
<1>3. Diff(prev, cur) \in [D -> Versions \cup {Absent}]
  BY <1>1, <1>2
<1>4. Diff(prev, cur) \in Reports
  BY <1>2, <1>3 DEF Reports
<1>5. DOMAIN Diff(prev, cur) = D /\ \A d \in D : Diff(prev, cur)[d] = cur[d]
  BY <1>1
<1> QED
  BY <1>4, <1>5 DEF D

LEMMA ReportType ==
  ASSUME NEW r \in Reports
  PROVE  DOMAIN r \subseteq Deps /\ \A d \in DOMAIN r : r[d] \in Versions \cup {Absent}
<1>1. PICK D \in SUBSET Deps : r \in [D -> Versions \cup {Absent}]
  BY DEF Reports
<1> QED
  BY <1>1

LEMMA InitInv == Init => IndInv
<1> SUFFICES ASSUME Init PROVE IndInv
  OBVIOUS
<1>1. /\ snapshot = [s \in Source |-> Empty] /\ told = snapshot /\ at = 0
      /\ changes = [s \in Source |-> Nothing] /\ lost = [s \in Source |-> {}]
  BY DEF Init, NoChanges
<1>2. DataInv
  BY <1>1, EmptyContent, NothingReported DEF DataInv
<1>3. ScannedInv
  BY <1>1, NothingReported DEF ScannedInv
<1>4. SumInv
  BY <1>1, NothingReported DEF SumInv
<1> QED
  BY <1>2, <1>3, <1>4 DEF IndInv

\* An entry without a change in hand was told as it is in its file.
LEMMA ToldWhenNothingNew ==
  ASSUME IndInv, NEW s \in Source, NEW d \in Deps, d \notin lost[s], d \notin DOMAIN changes[s]
  PROVE  told[s][d] = snapshot[s][d]
  BY DEF IndInv, SumInv

\* A run that holds no changes: at its start and at its end.
LEMMA NoneInHand ==
  ASSUME changes' = NoChanges, at' \in {0, 1}, UNCHANGED based, NEW L \in [Source -> SUBSET Deps],
         lost' = L, snapshot' \in [Source -> Content], told' \in [Source -> Content],
         \A s \in Source \ based : snapshot'[s] = Empty,
         \A s \in Source : \A d \in Deps \ L[s] : told'[s][d] = snapshot'[s][d]
  PROVE  IndInv'
<1>1. changes' = [s \in Source |-> Nothing]
  BY DEF NoChanges
<1>2. DataInv'
  BY <1>1, NothingReported DEF DataInv
<1>3. ScannedInv'
  BY <1>1, NothingReported DEF ScannedInv
<1>4. SumInv'
  BY <1>1, NothingReported DEF SumInv
<1> QED
  BY <1>2, <1>3, <1>4 DEF IndInv

LEMMA StartStep ==
  ASSUME IndInv, NEW d \in BOOLEAN, Start(d)
  PROVE  IndInv'
<1>1. /\ changes' = NoChanges /\ at' = 1 /\ UNCHANGED <<snapshot, told, based, lost>>
  BY DEF Start
<1>2. \A s \in Source : DOMAIN changes[s] = {}
  BY DEF IndInv, ScannedInv, Start
<1>3. \A s \in Source : \A e \in Deps \ lost[s] : told[s][e] = snapshot[s][e]
  BY <1>2, ToldWhenNothingNew
<1> QED
  BY <1>1, <1>3, NoneInHand DEF IndInv, DataInv, ScannedInv

LEMMA ScanStep ==
  ASSUME IndInv, Scan
  PROVE  IndInv'
<1> USE DEF IndInv
<1>1. \E cur \in Content :
        /\ changes' = [changes EXCEPT ![at] = Diff(snapshot[at], cur)]
        /\ snapshot' = [snapshot EXCEPT ![at] = cur]
        /\ based' = IF cur = Empty THEN based ELSE based \cup {at}
        /\ told' = IF at \in based THEN told ELSE [told EXCEPT ![at] = cur]
        /\ lost' = IF at \in based /\ snapshot[at] = Empty
                     THEN [lost EXCEPT ![at] = @ \cup Present(cur)]
                     ELSE lost
  BY DEF Scan, Contents
<1>2. PICK cur \in Content :
        /\ changes' = [changes EXCEPT ![at] = Diff(snapshot[at], cur)]
        /\ snapshot' = [snapshot EXCEPT ![at] = cur]
        /\ based' = IF cur = Empty THEN based ELSE based \cup {at}
        /\ told' = IF at \in based THEN told ELSE [told EXCEPT ![at] = cur]
        /\ lost' = IF at \in based /\ snapshot[at] = Empty
                     THEN [lost EXCEPT ![at] = @ \cup Present(cur)]
                     ELSE lost
  BY <1>1
<1>3. at \in Source /\ at' = at + 1 /\ DOMAIN changes[at] = {}
  BY DEF Scan, ScannedInv, Source
<1>4. Present(cur) \subseteq Deps /\ snapshot[at] \in Content
  BY <1>3 DEF Present, DataInv
<1> DEFINE diff == Diff(snapshot[at], cur)
<1>5. /\ diff \in Reports /\ DOMAIN diff = {d \in Deps : snapshot[at] # Empty /\ snapshot[at][d] # cur[d]}
      /\ \A d \in DOMAIN diff : diff[d] = cur[d]
  BY <1>4, DiffReport
<1> HIDE DEF diff
<1>6. changes' = [changes EXCEPT ![at] = diff]
  BY <1>2 DEF diff
<1>7. DataInv'
  BY <1>2, <1>3, <1>4, <1>5, <1>6 DEF DataInv
<1>8. changes'[at] = diff /\ snapshot'[at] = cur
  BY <1>2, <1>3, <1>6 DEF DataInv
<1>9. \A s \in Source : s # at => /\ changes'[s] = changes[s] /\ snapshot'[s] = snapshot[s]
                                  /\ told'[s] = told[s] /\ lost'[s] = lost[s]
  BY <1>2, <1>3, <1>6 DEF DataInv
<1>10. ScannedInv'
  <2>1. \A s \in Source \ based' : snapshot'[s] = Empty
    BY <1>2, <1>3, <1>8, <1>9 DEF ScannedInv
  <2>2. at' # 0 /\ (at' \in Source => \A s \in Source : s >= at' => DOMAIN changes'[s] = {})
    BY <1>3, <1>9 DEF ScannedInv, Source
  <2> QED
    BY <2>1, <2>2 DEF ScannedInv
<1>11. ASSUME NEW d \in Deps, d \notin DOMAIN diff, d \notin lost'[at]
       PROVE  told'[at][d] = cur[d]
  <2>1. CASE at \notin based
    BY <1>2, <1>3, <2>1 DEF DataInv
  <2>2. CASE at \in based /\ snapshot[at] = Empty
    <3>1. lost'[at] = lost[at] \cup Present(cur) /\ told' = told
      BY <1>2, <1>3, <2>2 DEF DataInv
    <3>2. told[at][d] = snapshot[at][d]
      BY <1>3, <1>11, <3>1, ToldWhenNothingNew
    <3> QED
      BY <1>11, <2>2, <3>1, <3>2 DEF Present, Empty
  <2>3. CASE at \in based /\ snapshot[at] # Empty
    <3>1. lost' = lost /\ told' = told
      BY <1>2, <2>3
    <3>2. told[at][d] = snapshot[at][d]
      BY <1>3, <1>11, <3>1, ToldWhenNothingNew
    <3> QED
      BY <1>5, <1>11, <2>3, <3>1, <3>2
  <2> QED
    BY <2>1, <2>2, <2>3
<1>12. SumInv'
  BY <1>5, <1>8, <1>9, <1>11 DEF SumInv
<1> QED
  BY <1>7, <1>10, <1>12

LEMMA ScanFailsStep ==
  ASSUME IndInv, ScanFails
  PROVE  IndInv'
  BY DEF IndInv, DataInv, ScannedInv, SumInv, ScanFails, Source

\* What a reader has after a report: the entries it shows, and the others as before.
LEMMA PatchedEntry ==
  ASSUME NEW c \in Content, NEW r \in Reports, NEW H \in SUBSET Deps
  PROVE  LET after == Patched(c, [d \in DOMAIN r \ H |-> r[d]]) IN
           /\ after \in Content
           /\ \A d \in Deps : after[d] = IF d \in DOMAIN r \ H THEN r[d] ELSE c[d]
<1> DEFINE shown == [d \in DOMAIN r \ H |-> r[d]]
<1>1. DOMAIN shown = DOMAIN r \ H /\ \A d \in DOMAIN r \ H : shown[d] = r[d]
  OBVIOUS
<1> HIDE DEF shown
<1>2. Patched(c, shown) = [d \in Deps |-> IF d \in DOMAIN r \ H THEN r[d] ELSE c[d]]
  BY <1>1 DEF Patched
<1>3. \A d \in Deps : (IF d \in DOMAIN r \ H THEN r[d] ELSE c[d]) \in Versions \cup {Absent}
  BY ReportType DEF Content
<1>4. Patched(c, shown) \in Content
  BY <1>2, <1>3 DEF Content
<1> QED
  BY <1>2, <1>4 DEF shown

LEMMA DeliverStep ==
  ASSUME IndInv, Deliver
  PROVE  IndInv'
<1> USE DEF IndInv
<1>1. at' = 0 /\ changes' = NoChanges /\ UNCHANGED <<snapshot, based>>
  BY DEF Deliver, Ends
<1>2. PICK hidden \in [Source -> SUBSET Deps] :
        /\ told' = [s \in Source |-> Patched(told[s], Shown(s, hidden))]
        /\ lost' = [s \in Source |-> (lost[s] \ DOMAIN changes[s]) \cup hidden[s]]
  BY DEF Deliver
<1>3. \A s \in Source :
        /\ Patched(told[s], Shown(s, hidden)) \in Content
        /\ \A d \in Deps : Patched(told[s], Shown(s, hidden))[d] =
                             IF d \in DOMAIN changes[s] \ hidden[s] THEN changes[s][d] ELSE told[s][d]
  BY PatchedEntry DEF Shown, DataInv
<1>4. told' \in [Source -> Content] /\ lost' \in [Source -> SUBSET Deps]
  BY <1>2, <1>3 DEF DataInv
<1>5. \A s \in Source : \A d \in Deps \ lost'[s] : told'[s][d] = snapshot'[s][d]
  BY <1>1, <1>2, <1>3 DEF SumInv, DataInv
<1> QED
  BY <1>1, <1>4, <1>5, NoneInHand DEF DataInv, ScannedInv

LEMMA UnsaidType ==
  ASSUME IndInv
  PROVE  /\ Unsaid \in [Source -> SUBSET Deps]
         /\ \A s \in Source : Unsaid[s] = lost[s] \cup DOMAIN changes[s]
<1>1. \A s \in Source : DOMAIN changes[s] \subseteq Deps
  BY ReportType DEF IndInv, DataInv
<1> QED
  BY <1>1 DEF Unsaid, IndInv, DataInv

LEMMA NotDeliveredStep ==
  ASSUME IndInv, NotDelivered
  PROVE  IndInv'
<1>1. at' = 0 /\ changes' = NoChanges /\ UNCHANGED <<snapshot, told, based>> /\ lost' = Unsaid
  BY DEF NotDelivered, Ends
<1>2. \A s \in Source : \A d \in Deps \ Unsaid[s] : told'[s][d] = snapshot'[s][d]
  BY <1>1, UnsaidType, ToldWhenNothingNew
<1> QED
  BY <1>1, <1>2, UnsaidType, NoneInHand DEF IndInv, DataInv, ScannedInv

LEMMA CrashStep ==
  ASSUME IndInv, Crash
  PROVE  IndInv'
<1>1. at' = 0 /\ changes' = NoChanges /\ UNCHANGED <<told, based>>
  BY DEF Crash, Ends
<1>2. \A s \in Source : \A d \in Deps \ Unsaid[s] : told'[s][d] = snapshot[s][d]
  BY <1>1, UnsaidType, ToldWhenNothingNew
<1>3. CASE lost' = Unsaid /\ UNCHANGED snapshot
  BY <1>1, <1>2, <1>3, UnsaidType, NoneInHand DEF IndInv, DataInv, ScannedInv
<1>4. CASE /\ at \in Source
           /\ lost' = [Unsaid EXCEPT ![at] = @ \cup Present(snapshot[at])]
           /\ snapshot' = [snapshot EXCEPT ![at] = Empty]
  <2>1. snapshot' \in [Source -> Content] /\ Present(snapshot[at]) \subseteq Deps
    BY <1>4, EmptyContent DEF IndInv, DataInv, Present
  <2>2. lost' \in [Source -> SUBSET Deps]
    BY <1>4, <2>1, UnsaidType
  <2>3. \A s \in Source \ based : snapshot'[s] = Empty
    BY <1>4 DEF IndInv, DataInv, ScannedInv
  <2>4. ASSUME NEW s \in Source, NEW d \in Deps \ lost'[s]
        PROVE  told'[s][d] = snapshot'[s][d]
    <3>1. d \notin Unsaid[s]
      BY <1>4, <2>4, UnsaidType
    <3>2. CASE s = at
      BY <1>2, <1>4, <2>4, <3>1, <3>2, UnsaidType DEF Present, Empty, IndInv, DataInv
    <3>3. CASE s # at
      BY <1>2, <1>4, <3>1, <3>3 DEF IndInv, DataInv
    <3> QED
      BY <3>2, <3>3
  <2> QED
    BY <1>1, <2>1, <2>2, <2>3, <2>4, NoneInHand DEF IndInv, DataInv
<1> QED
  BY <1>3, <1>4 DEF Crash

LEMMA InvStep == IndInv /\ [Next]_vars => IndInv'
<1> SUFFICES ASSUME IndInv, [Next]_vars PROVE IndInv'
  OBVIOUS
<1>1. CASE UNCHANGED vars
  BY <1>1 DEF vars, IndInv, DataInv, ScannedInv, SumInv
<1>2. CASE Next
  BY <1>2, StartStep, ScanStep, ScanFailsStep, DeliverStep, NotDeliveredStep, CrashStep DEF Next
<1> QED
  BY <1>1, <1>2

\* morning_triage.py, "changes since the day before": between runs, whatever was
\* scanned, failed or died before, the delivered reports have every entry as the
\* snapshot has it, but for those whose last change no message showed.
THEOREM DeliveredReportsAddUp == Spec => []ReportsAddUp
<1>1. IndInv => ReportsAddUp
  <2> SUFFICES ASSUME IndInv, at = 0, NEW s \in Source, NEW d \in Deps \ lost[s]
               PROVE  told[s][d] = snapshot[s][d]
    BY DEF ReportsAddUp
  <2>1. DOMAIN changes[s] = {}
    BY DEF IndInv, ScannedInv
  <2> QED
    BY <2>1, ToldWhenNothingNew
<1> QED
  BY <1>1, InitInv, InvStep, PTL DEF Spec

\* Where a run is: what the other invariants do not say of the types.
RunInv == at \in 0 .. Sources + 1 /\ dry \in BOOLEAN /\ based \subseteq Source

LEMMA DryStep == dry \in BOOLEAN /\ [Next]_vars => dry' \in BOOLEAN
  BY DEF Next, Start, Scan, ScanFails, Deliver, NotDelivered, Crash, Ends, vars

LEMMA RunStep ==
  ASSUME Sources \in Nat, RunInv, [Next]_vars
  PROVE  RunInv'
<1> DEFINE Rest == at \in 0 .. Sources + 1 /\ based \subseteq Source
<1> SUFFICES Rest'
  BY DryStep DEF RunInv
<1>0. Rest
  BY DEF RunInv
<1>1. ASSUME NEW d \in BOOLEAN, Start(d) PROVE Rest'
  BY <1>0, <1>1 DEF Start
<1>2. CASE Scan \/ ScanFails
  <2>1. at \in Source /\ at' = at + 1
    BY <1>2, Zenon DEF Scan, ScanFails
  <2>2. based' \in {based, based \cup {at}}
    BY <1>2 DEF Scan, ScanFails
  <2>3. at' \in 0 .. Sources + 1
    BY <2>1 DEF Source
  <2> QED
    BY <1>0, <2>1, <2>2, <2>3
<1>3. CASE Deliver \/ NotDelivered \/ Crash
  <2>1. at' = 0 /\ based' = based
    BY <1>3, Zenon DEF Deliver, NotDelivered, Crash, Ends
  <2> QED
    BY <1>0, <2>1
<1>4. CASE UNCHANGED vars
  BY <1>0, <1>4 DEF vars
<1> QED
  BY <1>1, <1>2, <1>3, <1>4 DEF Next

\* morning_triage.py: snapshots, changes and reports are of the deployments and
\* tables of their source, wherever a run ends.
THEOREM TypeCorrect ==
  ASSUME Sources \in Nat
  PROVE  Spec => []TypeOK
<1>1. Init => RunInv
  <2>1. Init => at \in 0 .. Sources + 1 /\ based \subseteq Source
    BY DEF Init
  <2> QED
    BY <2>1 DEF Init, RunInv
<1>2. RunInv /\ IndInv => TypeOK
  BY DEF RunInv, IndInv, DataInv, TypeOK
<1> QED
  BY <1>1, <1>2, RunStep, InitInv, InvStep, PTL DEF Spec
=============================================================================
