--------------------------- MODULE MCIntegrations ---------------------------
(***************************************************************************)
(* What reads other systems, runs something in the sandbox or reports on a *)
(* schedule, for TLC.                                                      *)
(*                                                                         *)
(* None of them shares state with another: every behaviour runs one of     *)
(* them ("focus") and leaves the rest in its initial state, so the states  *)
(* to check are the sum of theirs and not the product.  The properties     *)
(* of SandboxTools are its own.  A variable with the name of another       *)
(* module's has a prefix here.                                             *)
(***************************************************************************)
EXTENDS SandboxTools

CONSTANTS MaxRows, Limits
CONSTANTS Secrets, Keys, Names, Release, Clones
CONSTANTS WebHost, WebAddr, MaxRedirects
CONSTANTS Sources, Entries, Versions, MaxShown
CONSTANTS Runs, Days, MaxTurns, Within, MaxVersion

VARIABLES tool, todo, query, engine, sqlAnswer
VARIABLES pc, docs, refs, scale, cluster, stubbed, scaled, removed, left
VARIABLES readCall, parts, told, answer, record
VARIABLES allow, webDns, page, pinned, pageMoved, chain, outcome
VARIABLES snapshot, at, dry, changes, sourcesTold, based, lost
VARIABLES today, turns, folder, pages, run, reported, raced
VARIABLE focus

trinoVars == <<tool, todo, query, engine, sqlAnswer>>
cloneVars == <<pc, docs, refs, scale, cluster, stubbed, scaled, removed, left>>
sandboxVars == vars
readVars == <<readCall, parts, told, answer, record>>
probeVars == <<allow, webDns, page, pinned, pageMoved, chain, outcome>>
triageVars == <<snapshot, at, dry, changes, sourcesTold, based, lost>>
dailyVars == <<today, turns, folder, pages, run, reported, raced>>

MCVars == <<trinoVars, cloneVars, sandboxVars, readVars, probeVars, triageVars, dailyVars, focus>>

\* The documents of a release: workloads of three kinds that refer to a secret by
\* key, as a whole and in a projected volume, what is dropped, and a custom kind
\* with pods and a placement of its own.
Rendered(kind, name, cloud, replicas, uses) ==
  [kind |-> kind, name |-> name, cloud |-> cloud, replicas |-> replicas, uses |-> uses]

MCRelease ==
  {Rendered("Deployment", "a", {"annotation", "template", "placement"}, 2,
     {<<"env", <<"s", "k">>>>, <<"volume", <<"s", "placeholder">>>>}),
   Rendered("Deployment", "a", {}, 1, {<<"volume", <<"s", "l">>>>}),
   Rendered("StatefulSet", "b", {"storage", "placement"}, 2,
     {<<"env", <<"s", "placeholder">>>>, <<"projected", <<"t", "k">>>>}),
   Rendered("Service", "b", {"balancer"}, 1, {}),
   Rendered("Secret", "a", {}, 1, {}),
   Rendered("Role", "b", {}, 1, {}),
   Rendered("Custom", "b", {"annotation", "placement"}, 1, {<<"env", <<"t", "k">>>>})}

\* STRIX_ALLOWED_TARGETS: not set, one name, and names with addresses.
MCAllowances == {{}, {"lab"}, {"lab", "prod", "a1", "a3"}}

\* A cluster with two deployments, and the lake with one table.
MCEntries == <<{"d", "e"}, {"t"}>>

Trino == INSTANCE TrinoQuery WITH answer <- sqlAnswer
Clone == INSTANCE CloneRelease
Read == INSTANCE ReadTools WITH call <- readCall
Probe == INSTANCE WebProbe WITH dns <- webDns, moved <- pageMoved, Host <- WebHost, Addr <- WebAddr, DenyCidrs <- Metadata
Triage == INSTANCE MorningTriage WITH told <- sourcesTold
Daily == INSTANCE DailyReport

\* What the types and the properties rest on: bounds are numbers, and helm renders
\* manifests.
ASSUME TrinoAssumption ==
  /\ MaxRows \in Nat
  /\ Limits \subseteq Nat /\ 1 \in Limits
  /\ \E m \in Limits : \A n \in Limits : n <= m
ASSUME CloneAssumption == Clone!Renderable /\ Clones \in Nat
ASSUME ProbeAssumption == MaxRedirects \in Nat
ASSUME TriageAssumption == Sources \in Nat
ASSUME DailyAssumption ==
  Days \in Nat \ {0} /\ MaxTurns \in Nat /\ MaxVersion \in Nat

MCInit ==
  /\ focus \in {"trino", "clone", "sandbox", "read", "probe", "triage", "daily"}
  /\ Trino!Init /\ Clone!Init /\ Read!Init /\ Triage!Init
  /\ IF focus = "sandbox" THEN Init
     ELSE /\ dns = [h \in Host |-> {}] /\ policy = Policy(TRUE, {}, {}, dns)
          /\ real = {} /\ containers = {} /\ strix = {} /\ moved = {} /\ trail = {} /\ failed = {}
          /\ call = [c \in Calls |-> Fresh]
  /\ IF focus = "probe" THEN Probe!Init
     ELSE /\ allow = {} /\ webDns = [h \in WebHost |-> {}] /\ page = Probe!NoPage
          /\ pinned = {} /\ pageMoved = FALSE /\ chain = <<>> /\ outcome = "none"
  /\ Daily!Init /\ (focus = "daily" \/ ~folder)

MCNext ==
  /\ UNCHANGED focus
  /\ \/ /\ focus = "trino" /\ Trino!Next
        /\ UNCHANGED <<cloneVars, sandboxVars, readVars, probeVars, triageVars, dailyVars>>
     \/ /\ focus = "clone" /\ Clone!Next
        /\ UNCHANGED <<trinoVars, sandboxVars, readVars, probeVars, triageVars, dailyVars>>
     \/ /\ focus = "sandbox" /\ Next
        /\ UNCHANGED <<trinoVars, cloneVars, readVars, probeVars, triageVars, dailyVars>>
     \/ /\ focus = "read" /\ Read!Next
        /\ UNCHANGED <<trinoVars, cloneVars, sandboxVars, probeVars, triageVars, dailyVars>>
     \/ /\ focus = "probe" /\ Probe!Next
        /\ UNCHANGED <<trinoVars, cloneVars, sandboxVars, readVars, triageVars, dailyVars>>
     \/ /\ focus = "triage" /\ Triage!Next
        /\ UNCHANGED <<trinoVars, cloneVars, sandboxVars, readVars, probeVars, dailyVars>>
     \/ /\ focus = "daily" /\ Daily!Next
        /\ UNCHANGED <<trinoVars, cloneVars, sandboxVars, readVars, probeVars, triageVars>>

\* The engine's fairness is the only one: with another focus no query runs.
MCSpec == MCInit /\ [][MCNext]_MCVars /\ Trino!Fairness

\* The type invariants of the seven.
TypesOK ==
  /\ Trino!TypeOK /\ Clone!TypeOK /\ TypeOK /\ Read!TypeOK
  /\ Probe!TypeOK /\ Triage!TypeOK /\ Daily!TypeOK

\* TrinoQuery: a call that ended left no query on the engine.
NothingLeftRunning == Trino!NothingLeftRunning

\* TrinoQuery: every call is answered if the engine ends its queries.
CallReturns == Trino!CallReturns

\* CloneRelease: only documents the sanitizer went through are in the sandbox.
SandboxIsClean == Clone!SandboxIsClean

\* CloneRelease: no workload is there before the secrets that stand for its own.
RefsResolve == Clone!RefsResolve

\* ReadTools: no answer passes a part for the whole.
NothingIsLeftOut == Read!NothingIsLeftOut

\* ReadTools: the audit log says what was done.
TrailAgrees == Read!TrailAgrees

\* WebProbe: no hop goes where it was not authorised, unless its name moves in between.
EveryHopIsAuthorized == Probe!EveryHopIsAuthorized

\* MorningTriage: what the delivered reports say is what the snapshot says.
ReportsAddUp == Triage!ReportsAddUp

\* DailyReport: what was reported published stays in its page.
ReportedIsPublished == Daily!ReportedIsPublished
=============================================================================
