----------------------------- MODULE DailyReport -----------------------------
(***************************************************************************)
(* The report of a day's conversations (daily_report.py), published as one *)
(* Confluence page a day, by cron and by hand.                             *)
(*                                                                         *)
(* A page is found by its title; a lookup that is answered with an error   *)
(* counts as "no such page".  Confluence is external: it keeps titles      *)
(* unique in a space and refuses an update whose version is not the next.  *)
(***************************************************************************)
EXTENDS Integers

CONSTANTS
  Runs,             \* the cron job and a person
  Days, MaxTurns,   \* bounds: days, conversations a day
  Within,           \* within_days of latest_active_day
  MaxVersion        \* bound: versions of a page

VARIABLES
  today, turns,     \* the date, and the conversations of every day (devlog.jsonl)
  folder,           \* the parent page is there
  pages,            \* the page of every day: its version, the turns it is made of
  run,              \* step, day, turns and found version of every run
  reported,         \* history: turns of the last run of a day that ended well
  raced             \* history: days that two runs were about at once

vars == <<today, turns, folder, pages, run, reported, raced>>

Day == 1 .. Days
Idle == [pc |-> "idle", day |-> 1, n |-> 0, found |-> 0]

TypeOK ==
  /\ today \in Day /\ turns \in [Day -> 0 .. MaxTurns]
  /\ folder \in BOOLEAN
  /\ pages \in [Day -> [version : 0 .. MaxVersion, n : 0 .. MaxTurns]]
  /\ run \in [Runs -> [pc : {"idle", "folder", "lookup", "publish"}, day : Day,
                       n : 0 .. MaxTurns, found : 0 .. MaxVersion]]
  /\ reported \in [Day -> 0 .. MaxTurns] /\ raced \subseteq Day

Init ==
  /\ today = 1 /\ turns = [d \in Day |-> 0]
  /\ folder \in BOOLEAN
  /\ pages = [d \in Day |-> [version |-> 0, n |-> 0]]
  /\ run = [r \in Runs |-> Idle]
  /\ reported = [d \in Day |-> 0] /\ raced = {}

\* The web server logs a turn (devlog.py).
Turn ==
  /\ turns[today] < MaxTurns
  /\ turns' = [turns EXCEPT ![today] = @ + 1]
  /\ UNCHANGED <<today, folder, pages, run, reported, raced>>

Midnight ==
  /\ today < Days
  /\ today' = today + 1
  /\ UNCHANGED <<turns, folder, pages, run, reported, raced>>

(***************************************************************************)
(* run().                                                                  *)
(***************************************************************************)
\* latest_active_day, or today.
Chosen ==
  LET active == {d \in Day : d <= today /\ d >= today - Within /\ turns[d] > 0} IN
    IF active = {} THEN today ELSE CHOOSE d \in active : \A e \in active : e <= d

\* The turns of the day are read and summed up; a day without any is skipped.
Start(r, day) ==
  /\ run[r].pc = "idle"
  /\ turns[day] > 0
  /\ run' = [run EXCEPT ![r] = [Idle EXCEPT !.pc = "folder", !.day = day, !.n = turns[day]]]
  /\ raced' = raced \cup {run[s].day : s \in {s \in Runs : run[s].pc # "idle" /\ run[s].day = day}}
  /\ UNCHANGED <<today, turns, folder, pages, reported>>

\* Any request may fail with an exception, which ends the run.
Fails(r) ==
  /\ run[r].pc # "idle"
  /\ run' = [run EXCEPT ![r] = Idle]
  /\ UNCHANGED <<today, turns, folder, pages, reported, raced>>

\* ensure_folder: a folder that is not found is made, unless its title is taken.
EnsureFolder(r) ==
  /\ run[r].pc = "folder"
  /\ \E found \in {FALSE, folder} :
       /\ folder' = TRUE
       /\ run' = IF folder /\ ~found THEN [run EXCEPT ![r] = Idle]
                                     ELSE [run EXCEPT ![r].pc = "lookup"]
  /\ UNCHANGED <<today, turns, pages, reported, raced>>

\* publish looks the page up.
Lookup(r) ==
  /\ run[r].pc = "lookup"
  /\ \E found \in {0, pages[run[r].day].version} :
       run' = [run EXCEPT ![r].pc = "publish", ![r].found = found]
  /\ UNCHANGED <<today, turns, folder, pages, reported, raced>>

\* The page's next version: a POST of a page that was not found is taken if
\* there is none, a PUT of found + 1 if that is the next version.
Accepted(r) == run[r].found = pages[run[r].day].version

Stored(r) == [pages EXCEPT ![run[r].day] = [version |-> @.version + 1, n |-> run[r].n]]

\* Any answer of Confluence ends the run well.
PublishUnchecked(r) ==
  /\ run[r].pc = "publish" /\ pages[run[r].day].version < MaxVersion
  /\ pages' = IF Accepted(r) THEN Stored(r) ELSE pages
  /\ reported' = [reported EXCEPT ![run[r].day] = run[r].n]
  /\ run' = [run EXCEPT ![r] = Idle]
  /\ UNCHANGED <<today, turns, folder, raced>>

\* publish: the create or the update, and the check of its status.  The answer
\* to what was taken may be lost.
Publish(r) ==
  /\ run[r].pc = "publish" /\ pages[run[r].day].version < MaxVersion
  /\ IF Accepted(r)
       THEN /\ pages' = Stored(r)
            /\ reported' \in {reported, [reported EXCEPT ![run[r].day] = run[r].n]}
       ELSE UNCHANGED <<pages, reported>>
  /\ run' = [run EXCEPT ![r] = Idle]
  /\ UNCHANGED <<today, turns, folder, raced>>

Next ==
  \/ Turn \/ Midnight
  \/ \E r \in Runs : \/ \E day \in {Chosen} \cup 1 .. today : Start(r, day)
                     \/ EnsureFolder(r) \/ Lookup(r) \/ Publish(r) \/ Fails(r)

Spec == Init /\ [][Next]_vars

(***************************************************************************)
(* Properties.                                                             *)
(***************************************************************************)
\* daily_report.py: a run that said it published is in the page of its day,
\* and no later run takes turns out of it, whatever lookups failed, unless two
\* runs were about the same day at once.
ReportedIsPublished == \A d \in Day \ raced : pages[d].n >= reported[d]
=============================================================================
