------------------------ MODULE Integrations_proofs ------------------------
(***************************************************************************)
(* What is proved of the tools that read other systems, of the web tools   *)
(* and of the reports on a schedule.                                       *)
(***************************************************************************)
EXTENDS MCIntegrations, SandboxTools_proofs, SequenceTheorems, WellFoundedInduction

(***************************************************************************)
(* The Trino tools.                                                        *)
(***************************************************************************)

TrinoTool == [name : {"none", "run", "table_profile", "freshness"},
              stage : {"none", "only", "tables", "describe", "aggregate", "latest"}]
TrinoClient == [on : BOOLEAN, posted : BOOLEAN, max : Limits \cup {0}, rows : 0 .. MaxRows]
TrinoEngine == [st : {"none", "running", "finished", "failed", "cancelled"},
                rows : 0 .. MaxRows, sent : 0 .. MaxRows, lost : BOOLEAN]
TrinoAnswer == {"none", "rows", "refused", "error", "raised"}

\* The client has no more rows than the engine has sent, and a report that looks
\* at a table has one to report.
TrinoInv ==
  /\ tool \in TrinoTool /\ todo \in 0 .. MaxRows /\ query \in TrinoClient
  /\ engine \in TrinoEngine /\ sqlAnswer \in TrinoAnswer
  /\ query.on => tool # Trino!Idle
  /\ query.posted => query.on /\ query.rows <= engine.sent /\ engine.sent <= engine.rows
  /\ ~query.posted => query.rows = 0
  /\ tool.name # "table_profile" /\ tool.stage \in {"describe", "latest"} => todo > 0
  /\ Trino!NothingLeftRunning

LEMMA TrinoConstants ==
  /\ Trino!Idle \in TrinoTool /\ Trino!Idle.stage = "none"
  /\ Trino!NoQuery \in TrinoClient /\ ~Trino!NoQuery.on /\ ~Trino!NoQuery.posted
  /\ Trino!NoQuery.rows = 0
  /\ Trino!NoEngine \in TrinoEngine /\ Trino!NoEngine.st = "none"
  /\ Trino!NoEngine.sent = 0 /\ Trino!NoEngine.rows = 0
  BY TrinoAssumption DEF Trino!Idle, Trino!NoQuery, Trino!NoEngine, TrinoTool, TrinoClient,
     TrinoEngine

LEMMA LargestLimit == Trino!Largest \in Limits
  BY TrinoAssumption DEF Trino!Largest

LEMMA TrinoInit == Trino!Init => TrinoInv
  BY TrinoAssumption, TrinoConstants
  DEF Trino!Init, TrinoInv, TrinoAnswer, Trino!NothingLeftRunning

\* A query that starts: nothing of it is at the engine.
LEMMA FreshQuery ==
  ASSUME NEW max \in Limits
  PROVE  /\ [Trino!NoQuery EXCEPT !.on = TRUE, !.max = max] \in TrinoClient
         /\ [Trino!NoQuery EXCEPT !.on = TRUE, !.max = max].on
         /\ ~[Trino!NoQuery EXCEPT !.on = TRUE, !.max = max].posted
         /\ [Trino!NoQuery EXCEPT !.on = TRUE, !.max = max].rows = 0
  BY TrinoConstants DEF TrinoClient

\* What a stage leaves: the call has returned, or its next query is ready.
Left(t, q, n) ==
  /\ t \in TrinoTool /\ n \in 0 .. MaxRows /\ q \in TrinoClient
  /\ q.on => t # Trino!Idle
  /\ ~q.posted /\ q.rows = 0
  /\ t.name # "table_profile" /\ t.stage \in {"describe", "latest"} => n > 0

LEMMA ReturnsStep ==
  ASSUME NEW what \in TrinoAnswer, Trino!Returns(what), todo' \in 0 .. MaxRows
  PROVE  Left(tool', query', todo') /\ sqlAnswer' \in TrinoAnswer
  BY TrinoConstants DEF Trino!Returns, Left

LEMMA StageStep ==
  ASSUME TrinoInv, NEW max \in Limits, NEW stage \in {"describe", "aggregate", "latest"},
         Trino!Stage(stage, max), todo' \in 0 .. MaxRows,
         tool.name # "table_profile" /\ stage # "aggregate" => todo' > 0
  PROVE  Left(tool', query', todo') /\ sqlAnswer' \in TrinoAnswer
<1>1. tool' = [tool EXCEPT !.stage = stage] /\ sqlAnswer' = sqlAnswer
  BY DEF Trino!Stage
<1>2. tool' \in TrinoTool /\ tool'.stage = stage /\ tool'.name = tool.name
  BY <1>1 DEF TrinoInv, TrinoTool
<1>3. tool' # Trino!Idle
  BY <1>2, TrinoConstants
<1>4. /\ query' \in TrinoClient /\ query'.on /\ ~query'.posted /\ query'.rows = 0
  BY FreshQuery DEF Trino!Stage
<1> QED
  BY <1>1, <1>2, <1>3, <1>4 DEF Left, TrinoInv

LEMMA EndsStep ==
  ASSUME TrinoInv, NEW how \in {"ok", "policy", "error"}, NEW rows \in 0 .. MaxRows,
         Trino!Ends(how, rows)
  PROVE  Left(tool', query', todo') /\ sqlAnswer' \in TrinoAnswer
<1> USE DEF TrinoAnswer
<1>a. todo \in 0 .. MaxRows /\ MaxRows \in Nat /\ 1 \in Limits
  BY TrinoAssumption DEF TrinoInv
<1>1. CASE Trino!Fails(how)
  BY <1>1, <1>a, ReturnsStep DEF Trino!Fails
<1>2. CASE Trino!Raises
  BY <1>2, <1>a, ReturnsStep DEF Trino!Raises
<1>3. CASE Trino!Returns("rows") /\ UNCHANGED todo
  BY <1>3, <1>a, ReturnsStep
<1>4. CASE tool.name = "table_profile" /\ Trino!Stage("aggregate", 1) /\ UNCHANGED todo
  BY <1>4, <1>a, StageStep
<1>5. CASE tool.name # "table_profile" /\ tool.stage = "tables" /\ todo' = rows
           /\ (IF rows = 0 THEN Trino!Returns("rows") ELSE Trino!Stage("describe", Trino!Largest))
  BY <1>5, <1>a, ReturnsStep, StageStep, LargestLimit
<1>6. CASE tool.name # "table_profile" /\ tool.stage \in {"describe", "latest"} /\ Trino!Reported
  <2>1. todo > 0 /\ todo' = todo - 1
    BY <1>6 DEF TrinoInv, Trino!Reported
  <2>2. todo' \in 0 .. MaxRows /\ (todo # 1 => todo' > 0)
    BY <1>a, <2>1
  <2> QED
    BY <1>6, <2>2, ReturnsStep, StageStep, LargestLimit DEF Trino!Reported
<1>7. CASE tool.name # "table_profile" /\ tool.stage = "describe"
           /\ Trino!Stage("latest", 1) /\ UNCHANGED todo
  <2>1. todo' > 0
    BY <1>7 DEF TrinoInv
  <2> QED
    BY <1>7, <1>a, <2>1, StageStep
<1>8. tool.name = "run" \/ tool.name = "table_profile"
        \/ (tool.name # "table_profile" /\ Trino!FreshnessEnds(how, rows))
  BY DEF Trino!Ends
<1>9. CASE tool.name = "run"
  BY <1>1, <1>3, <1>9 DEF Trino!Ends, Trino!RunEnds
<1>10. CASE tool.name = "table_profile"
  BY <1>1, <1>2, <1>3, <1>4, <1>10 DEF Trino!Ends, Trino!TableProfileEnds
<1>11. CASE tool.name # "table_profile" /\ Trino!FreshnessEnds(how, rows)
  BY <1>1, <1>2, <1>5, <1>6, <1>7, <1>11 DEF Trino!FreshnessEnds
<1> QED
  BY <1>8, <1>9, <1>10, <1>11

\* The engine of a query that runs has sent what the client has, and no more than
\* it has got.
LEMMA RunningEngine ==
  ASSUME TrinoInv, NEW e \in Trino!Running
  PROVE  e \in TrinoEngine /\ query.rows <= e.sent /\ e.sent <= e.rows
<1>1. CASE query.posted
  BY <1>1 DEF TrinoInv, Trino!Running
<1>2. CASE ~query.posted
  <2>1. e \in [st : {"running"}, rows : 0 .. MaxRows, sent : {0}, lost : {FALSE}]
    BY <1>2 DEF Trino!Running
  <2>2. e.st = "running" /\ e.sent = 0 /\ e.lost = FALSE /\ e.rows \in 0 .. MaxRows
    BY <2>1
  <2>3. 0 \in 0 .. MaxRows /\ 0 <= e.rows
    BY <2>2, TrinoAssumption
  <2>4. e = [st |-> "running", rows |-> e.rows, sent |-> 0, lost |-> FALSE]
    BY <2>1, <2>2
  <2>5. e \in TrinoEngine
    BY <2>2, <2>3, <2>4, Zenon DEF TrinoEngine
  <2> QED
    BY <1>2, <2>2, <2>3, <2>5 DEF TrinoInv
<1> QED
  BY <1>1, <1>2

LEMMA CappedRows ==
  ASSUME TrinoInv, NEW n \in 0 .. MaxRows
  PROVE  Trino!Capped(n) \in 0 .. MaxRows /\ Trino!Capped(n) <= n
<1>1. query.max \in Nat
  <2>1. query.max \in Limits \cup {0}
    BY DEF TrinoInv, TrinoClient
  <2>2. \A m \in Limits : m \in Nat
    BY TrinoAssumption, Zenon
  <2>3. 0 \in Nat
    OBVIOUS
  <2> QED
    BY <2>1, <2>2, <2>3, Zenon
<1> QED
  BY <1>1, TrinoAssumption DEF Trino!Capped

\* The end of a stage, with an engine that runs nothing but what was lost.
LEMMA EndedStep ==
  ASSUME TrinoInv, query.on, NEW how \in {"ok", "policy", "error"}, NEW rows \in 0 .. MaxRows,
         Trino!Ends(how, rows), engine' \in TrinoEngine, engine'.st = "running" => engine'.lost
  PROVE  TrinoInv'
  BY EndsStep DEF Left, TrinoInv, Trino!NothingLeftRunning

LEMMA TrinoStep ==
  ASSUME TrinoInv, [Trino!Next]_(Trino!vars)
  PROVE  TrinoInv'
<1>a. MaxRows \in Nat
  BY TrinoAssumption
<1>1. ASSUME NEW name \in {"run", "table_profile", "freshness"},
             NEW stage \in {"only", "describe", "tables"}, NEW max \in Limits,
             Trino!Call(name, stage, max),
             name # "table_profile" => stage # "describe"
      PROVE  TrinoInv'
  <2>1. tool = Trino!Idle /\ todo' = 0 /\ engine' = Trino!NoEngine
    BY <1>1 DEF Trino!Call
  <2>2. CASE tool' = [name |-> name, stage |-> stage] /\ sqlAnswer' = "none"
             /\ query' = [Trino!NoQuery EXCEPT !.on = TRUE, !.max = max]
    <3>1. /\ tool' \in TrinoTool /\ tool'.name = name /\ tool'.stage = stage
      BY <2>2 DEF TrinoTool
    <3>2. query' \in TrinoClient /\ query'.on /\ ~query'.posted /\ query'.rows = 0
      BY <2>2, FreshQuery
    <3>3. tool' # Trino!Idle
      BY <3>1, TrinoConstants
    <3> QED
      BY <1>a, <1>1, <2>1, <2>2, <3>1, <3>2, <3>3, TrinoConstants
      DEF TrinoInv, TrinoAnswer, Trino!NothingLeftRunning
  <2>3. CASE sqlAnswer' \in {"raised", "refused"} /\ UNCHANGED <<tool, query>>
    <3>1. ~query.on
      BY <2>1 DEF TrinoInv
    <3> QED
      BY <1>a, <2>1, <2>3, <3>1, TrinoConstants
      DEF TrinoInv, TrinoAnswer, Trino!NothingLeftRunning
  <2>4. {"raised"} \cup (IF name = "run" THEN {"refused"} ELSE {}) \subseteq {"raised", "refused"}
    OBVIOUS
  <2>5. sqlAnswer' \in {"raised"} \cup (IF name = "run" THEN {"refused"} ELSE {})
          => sqlAnswer' \in {"raised", "refused"}
    BY <2>4
  <2> QED
    BY <1>1, <2>2, <2>3, <2>5, Zenon DEF Trino!Call
<1>2. CASE Trino!Page
  <2>0. PICK e \in Trino!Running : \E k \in 0 .. e.rows - e.sent :
          /\ engine' = [e EXCEPT !.sent = @ + k]
          /\ query' = [query EXCEPT !.posted = TRUE, !.rows = Trino!Capped(@ + k)]
    BY <1>2 DEF Trino!Page
  <2>1. PICK k \in 0 .. e.rows - e.sent :
          /\ engine' = [e EXCEPT !.sent = @ + k]
          /\ query' = [query EXCEPT !.posted = TRUE, !.rows = Trino!Capped(@ + k)]
    BY <2>0
  <2>2. e \in TrinoEngine /\ query.rows <= e.sent /\ e.sent <= e.rows
    BY RunningEngine
  <2>3. query.rows \in 0 .. MaxRows /\ e.sent \in 0 .. MaxRows /\ e.rows \in 0 .. MaxRows
    BY <2>2 DEF TrinoInv, TrinoClient, TrinoEngine
  <2>4. e.sent + k \in 0 .. MaxRows /\ e.sent + k <= e.rows /\ query.rows + k \in 0 .. MaxRows
        /\ query.rows + k <= e.sent + k
    BY <1>a, <2>2, <2>3
  <2>5. Trino!Capped(query.rows + k) \in 0 .. MaxRows
        /\ Trino!Capped(query.rows + k) <= query.rows + k
    BY <2>4, CappedRows
  <2> HIDE DEF Trino!Capped
  <2>6. engine' \in TrinoEngine /\ engine'.sent = e.sent + k /\ engine'.rows = e.rows
    BY <2>1, <2>2, <2>4 DEF TrinoEngine
  <2>7. /\ query' \in TrinoClient /\ query'.on = query.on /\ query'.posted
        /\ query'.rows = Trino!Capped(query.rows + k)
    BY <2>1, <2>5 DEF TrinoInv, TrinoClient
  <2>8. UNCHANGED <<tool, todo, sqlAnswer>> /\ tool # Trino!Idle /\ query.on
    BY <1>2 DEF Trino!Page, TrinoInv
  <2>9. query'.rows <= engine'.sent /\ engine'.sent <= engine'.rows
    BY <2>3, <2>4, <2>5, <2>6, <2>7
  <2> QED
    BY <2>6, <2>7, <2>8, <2>9 DEF TrinoInv, Trino!NothingLeftRunning
<1>3. CASE Trino!FullPage
  <2>0. PICK e \in Trino!Running : \E k \in 0 .. e.rows - e.sent : \E unheard \in BOOLEAN :
          /\ engine' = [e EXCEPT !.sent = @ + k, !.lost = unheard,
                                 !.st = IF unheard THEN "running" ELSE "cancelled"]
          /\ Trino!Ends("ok", Trino!Capped(query.rows + k))
    BY <1>3 DEF Trino!FullPage
  <2>1. PICK k \in 0 .. e.rows - e.sent, unheard \in BOOLEAN :
          /\ engine' = [e EXCEPT !.sent = @ + k, !.lost = unheard,
                                 !.st = IF unheard THEN "running" ELSE "cancelled"]
          /\ Trino!Ends("ok", Trino!Capped(query.rows + k))
    BY <2>0
  <2>2. e \in TrinoEngine /\ query.rows <= e.sent /\ e.sent <= e.rows
    BY RunningEngine
  <2>3. query.rows \in 0 .. MaxRows /\ e.sent \in 0 .. MaxRows /\ e.rows \in 0 .. MaxRows
    BY <2>2 DEF TrinoInv, TrinoClient, TrinoEngine
  <2>4. e.sent + k \in 0 .. MaxRows /\ query.rows + k \in 0 .. MaxRows
    BY <1>a, <2>2, <2>3
  <2>5. engine' \in TrinoEngine /\ (engine'.st = "running" => engine'.lost)
    BY <2>1, <2>2, <2>4 DEF TrinoEngine
  <2>6. Trino!Capped(query.rows + k) \in 0 .. MaxRows
    BY <2>4, CappedRows
  <2> QED
    BY <1>3, <2>1, <2>5, <2>6, EndedStep DEF Trino!FullPage
<1>4. CASE Trino!LastPage
  <2>1. PICK e \in Trino!Running :
          /\ engine' = [e EXCEPT !.sent = e.rows, !.st = "finished"]
          /\ Trino!Ends("ok", Trino!Capped(query.rows + e.rows - e.sent))
    BY <1>4 DEF Trino!LastPage
  <2>2. e \in TrinoEngine /\ query.rows <= e.sent /\ e.sent <= e.rows
    BY RunningEngine
  <2>3. query.rows \in 0 .. MaxRows /\ e.sent \in 0 .. MaxRows /\ e.rows \in 0 .. MaxRows
    BY <2>2 DEF TrinoInv, TrinoClient, TrinoEngine
  <2>4. query.rows + e.rows - e.sent \in 0 .. MaxRows
    BY <1>a, <2>2, <2>3
  <2>5. engine' \in TrinoEngine /\ engine'.st = "finished"
    BY <2>1, <2>2 DEF TrinoEngine
  <2>6. Trino!Capped(query.rows + e.rows - e.sent) \in 0 .. MaxRows
    BY <2>4, CappedRows
  <2> QED
    BY <1>4, <2>1, <2>5, <2>6, EndedStep DEF Trino!LastPage
<1>5. CASE Trino!QueryFails
  <2>1. PICK e \in Trino!Running : engine' = [e EXCEPT !.st = "failed"]
    BY <1>5 DEF Trino!QueryFails
  <2>2. engine' \in TrinoEngine /\ engine'.st = "failed"
    BY <2>1, RunningEngine DEF TrinoEngine
  <2>3. 0 \in 0 .. MaxRows
    BY <1>a
  <2> QED
    BY <1>5, <2>2, <2>3, EndedStep DEF Trino!QueryFails
<1>6. CASE Trino!RequestFails
  <2>1. PICK e \in Trino!Running \cup {IF query.posted THEN engine ELSE Trino!NoEngine} :
          engine' = [e EXCEPT !.lost = TRUE]
    BY <1>6 DEF Trino!RequestFails
  <2>2. e \in TrinoEngine
    BY RunningEngine, TrinoConstants DEF TrinoInv
  <2>3. engine' \in TrinoEngine /\ engine'.lost
    BY <2>1, <2>2 DEF TrinoEngine
  <2>4. 0 \in 0 .. MaxRows
    BY <1>a
  <2> QED
    BY <1>6, <2>3, <2>4, EndedStep DEF Trino!RequestFails
<1>7. CASE UNCHANGED Trino!vars
  BY <1>7 DEF Trino!vars, TrinoInv, Trino!NothingLeftRunning
<1> QED
  BY <1>1, <1>2, <1>3, <1>4, <1>5, <1>6, <1>7, LargestLimit DEF Trino!Next

LEMMA TrinoInductive == Trino!Spec => []TrinoInv
  BY TrinoInit, TrinoStep, PTL DEF Trino!Spec

\* trino_reader.py cancels what it does not read: whatever the engine answers and
\* wherever a request fails, a call that ended left no query running but for one
\* whose poll or whose cancellation did not get through.
THEOREM QueriesAreCancelled == Trino!Spec => []NothingLeftRunning
<1>1. TrinoInv => NothingLeftRunning
  BY DEF TrinoInv, NothingLeftRunning
<1> QED
  BY <1>1, TrinoInductive, PTL

(***************************************************************************)
(* The tools that read.                                                    *)
(***************************************************************************)

\* No tool makes more than four requests.
LEMMA RequestCount ==
  \A t \in Read!Tools : Len(Read!Requests[t]) \in 0 .. 4
<1>1. \A t \in DOMAIN Read!K8sSeveral : Len(Read!K8sSeveral[t]) \in 0 .. 4
  BY DEF Read!K8sSeveral
<1>2. \A t \in DOMAIN Read!ContextReads : Len(Read!ContextReads[t]) \in 0 .. 4
  BY DEF Read!ContextReads
<1>3. \A t \in DOMAIN Read!JiraReads : Len(Read!JiraReads[t]) \in 0 .. 4
  BY DEF Read!JiraReads
<1>4. \A t \in DOMAIN Read!FisheyeReads : Len(Read!FisheyeReads[t]) \in 0 .. 4
  BY DEF Read!FisheyeReads
<1>5. \A t \in DOMAIN Read!SourceReads : Len(Read!SourceReads[t]) \in 0 .. 4
  BY DEF Read!SourceReads
<1>6. Len(<<"must">>) \in 0 .. 4
  OBVIOUS
<1> QED
  BY <1>1, <1>2, <1>3, <1>4, <1>5, <1>6 DEF Read!Requests

\* A request that was made is in the answer, or may be left out of it.
Covered(i) ==
  i \in parts \cup told \/ Read!Requests[readCall.tool][i] \in {"skip", "pipe"}

ReadInv ==
  /\ readCall \in [tool : Read!Tools \cup {Read!None}, made : 0 .. 4]
  /\ parts \subseteq 1 .. 4 /\ told \subseteq 1 .. 4
  /\ answer \in {Read!None, "data", "error", "refused"}
  /\ record \in {Read!None, "allowed", "refused"}
  /\ answer # Read!None => readCall.tool \in Read!Tools
  /\ readCall.tool \in Read!Tools => readCall.made <= Len(Read!Requests[readCall.tool])
  /\ answer \in {Read!None, "data"} /\ readCall.tool \in Read!Tools
       => \A i \in 1 .. readCall.made : Covered(i)
  /\ answer = "data" => readCall.made = Len(Read!Requests[readCall.tool])
  /\ Read!TrailAgrees

LEMMA ReadInit == Read!Init => ReadInv
  BY RequestCount DEF Read!Init, ReadInv, Read!NoCall, Read!None, Read!TrailAgrees

\* What every wrapper records.
LEMMA RecordIs ==
  ASSUME NEW tool_, NEW how \in {"data", "verdict", "guard", "service", "other"}
  PROVE  LET rec == Read!Record(Read!Family(tool_), how) IN
         /\ rec \in {Read!None, "allowed", "refused"}
         /\ rec = "refused" => how # "data"
         /\ how = "data" => rec = "allowed"
         /\ rec = Read!None => Read!Family(tool_) \in {"atlassian", "web"} /\ how # "data"
<1> DEFINE f == Read!Family(tool_)
<1>1. f \in {"k8s", "contexts", "atlassian", "source", "web"}
  BY DEF Read!Family
<1> HIDE DEF f
<1>2. CASE f = "k8s"
  BY <1>2 DEF Read!Record, Read!K8sRecord, Read!None, f
<1>3. CASE f = "contexts"
  BY <1>3 DEF Read!Record, Read!ContextsRecord, Read!None, f
<1>4. CASE f = "atlassian"
  BY <1>4 DEF Read!Record, Read!AtlassianRecord, Read!None, f
<1>5. CASE f = "source"
  BY <1>5 DEF Read!Record, Read!SourceRecord, Read!None, f
<1>6. CASE f = "web"
  BY <1>6 DEF Read!Record, Read!WebRecord, Read!None, f
<1> QED
  BY <1>1, <1>2, <1>3, <1>4, <1>5, <1>6

\* The call ends, and a call that ends with data has made its requests.
LEMMA ReadEnds ==
  ASSUME ReadInv, Read!Running, NEW how \in {"data", "guard", "service", "other"}, Read!Ends(how),
         how = "data" => ~Read!Pending
  PROVE  ReadInv'
<1>1. /\ answer' = Read!Answer(how) /\ UNCHANGED <<readCall, parts, told>>
      /\ record' = Read!Record(Read!Family(readCall.tool), how)
  BY DEF Read!Ends
<1>2. /\ answer' \in {"data", "error", "refused"} /\ (answer' = "data" <=> how = "data")
  BY <1>1 DEF Read!Answer
<1>3. /\ record' \in {Read!None, "allowed", "refused"}
      /\ record' = "refused" => how # "data"
      /\ how = "data" => record' = "allowed"
      /\ record' = Read!None => Read!Family(readCall.tool) \in {"atlassian", "web"} /\ how # "data"
  BY <1>1, RecordIs
<1>4. readCall.tool \in Read!Tools /\ answer = Read!None
  BY DEF ReadInv, Read!Running
<1>5. how = "data" => readCall.made = Len(Read!Requests[readCall.tool])
  <2>1. readCall.made \in 0 .. 4 /\ Len(Read!Requests[readCall.tool]) \in 0 .. 4
    BY <1>4, RequestCount DEF ReadInv
  <2> QED
    BY <1>4, <2>1 DEF ReadInv, Read!Pending
<1>6. Read!TrailAgrees'
  BY <1>1, <1>2, <1>3 DEF Read!TrailAgrees
<1>7. \A i \in 1 .. readCall.made : Covered(i)'
  BY <1>1, <1>4 DEF ReadInv, Covered
<1> QED
  BY <1>1, <1>2, <1>3, <1>4, <1>5, <1>6, <1>7 DEF ReadInv

\* The call goes on, with a request that is covered.
LEMMA ReadAsked ==
  ASSUME ReadInv, Read!Pending, Read!Asked, parts \subseteq parts', told \subseteq told',
         parts' \subseteq parts \cup {readCall.made + 1}, told' \subseteq told \cup {readCall.made + 1},
         \/ readCall.made + 1 \in parts' \cup told'
         \/ Read!Request \in {"skip", "pipe"}
  PROVE  ReadInv'
<1>1. readCall' = [readCall EXCEPT !.made = @ + 1] /\ UNCHANGED <<answer, record>>
  BY DEF Read!Asked
<1>2. readCall.tool \in Read!Tools /\ answer = Read!None
      /\ readCall.made < Len(Read!Requests[readCall.tool])
  BY DEF ReadInv, Read!Running, Read!Pending
<1>3. readCall.made \in 0 .. 4 /\ Len(Read!Requests[readCall.tool]) \in 0 .. 4
  BY <1>2, RequestCount DEF ReadInv
<1>4. readCall.made + 1 \in 1 .. 4 /\ readCall.made + 1 <= Len(Read!Requests[readCall.tool])
  <2>1. \A m, n \in 0 .. 4 : m < n => m + 1 \in 1 .. 4 /\ m + 1 <= n
    OBVIOUS
  <2> QED
    BY <1>2, <1>3, <2>1
<1>5. readCall' \in [tool : Read!Tools \cup {Read!None}, made : 0 .. 4]
      /\ readCall'.tool = readCall.tool /\ readCall'.made = readCall.made + 1
  BY <1>1, <1>4 DEF ReadInv
<1>6. parts' \subseteq 1 .. 4 /\ told' \subseteq 1 .. 4
  BY <1>4 DEF ReadInv
<1>7. \A i \in 1 .. readCall'.made : Covered(i)'
  <2>1. \A i \in 1 .. readCall.made : Covered(i)
    BY <1>2 DEF ReadInv
  <2>2. \A i \in 1 .. readCall'.made : i \in 1 .. readCall.made \/ i = readCall.made + 1
    BY <1>3, <1>5
  <2>3. \A i : Covered(i) => Covered(i)'
    BY <1>5 DEF Covered
  <2>4. ASSUME NEW i \in 1 .. readCall'.made PROVE Covered(i)'
    <3>1. CASE i \in 1 .. readCall.made
      BY <2>1, <2>3, <3>1
    <3>2. CASE i = readCall.made + 1
      <4>1. i \in parts' \cup told' \/ Read!Requests[readCall.tool][i] \in {"skip", "pipe"}
        BY <3>2 DEF Read!Request
      <4> QED
        BY <4>1, <1>5 DEF Covered
    <3> QED
      BY <2>2, <3>1, <3>2
  <2> QED
    BY <2>4
<1>8. Read!TrailAgrees'
  BY <1>1, <1>2 DEF Read!TrailAgrees
<1> QED
  BY <1>1, <1>2, <1>4, <1>5, <1>6, <1>7, <1>8 DEF ReadInv, Read!None

LEMMA ReadGoes ==
  ASSUME ReadInv, Read!Pending,
         Read!Got \/ Read!Says \/ (Read!LeavesOut /\ Read!Request \in {"skip", "pipe"})
  PROVE  ReadInv'
<1>1. CASE Read!Got
  BY <1>1, ReadAsked DEF Read!Got
<1>2. CASE Read!Says
  BY <1>2, ReadAsked DEF Read!Says
<1>3. CASE Read!LeavesOut /\ Read!Request \in {"skip", "pipe"}
  BY <1>3, ReadAsked DEF Read!LeavesOut
<1> QED
  BY <1>1, <1>2, <1>3

LEMMA ReadCall ==
  ASSUME ReadInv, NEW tool_ \in Read!Tools, Read!Call(tool_)
  PROVE  ReadInv'
<1>1. readCall' = [tool |-> tool_, made |-> 0] /\ parts' = {} /\ told' = {}
  BY DEF Read!Call
<1>2. readCall' \in [tool : Read!Tools \cup {Read!None}, made : 0 .. 4]
      /\ readCall'.tool = tool_ /\ readCall'.made = 0
  BY <1>1
<1>3. /\ answer' \in {Read!None, "refused", "error"}
      /\ record' \in {Read!None, "allowed", "refused"}
      /\ answer' # Read!None /\ record' = Read!None
           => Read!Family(tool_) \in {"atlassian", "web"}
  <2>1. CASE answer' = Read!None /\ record' = Read!None
    BY <2>1
  <2>2. CASE Read!Refused(tool_)
    BY <2>2, RecordIs DEF Read!Refused
  <2>3. CASE Read!TurnedDown(tool_)
    BY <2>3, RecordIs DEF Read!TurnedDown
  <2> QED
    BY <2>1, <2>2, <2>3 DEF Read!Call
<1>4. Read!TrailAgrees'
  BY <1>2, <1>3 DEF Read!TrailAgrees, Read!None
<1>5. 0 <= Len(Read!Requests[tool_])
  BY RequestCount
<1> QED
  BY <1>1, <1>2, <1>3, <1>4, <1>5 DEF ReadInv, Read!None

LEMMA ReadStep ==
  ASSUME ReadInv, [Read!Next]_(Read!vars)
  PROVE  ReadInv'
<1>1. CASE Read!Succeeds \/ Read!NotFound
  BY <1>1, ReadGoes DEF Read!Succeeds, Read!NotFound
<1>2. CASE Read!ServiceFails
  BY <1>2, ReadGoes, ReadEnds DEF Read!ServiceFails, Read!Pending
<1>3. CASE Read!LogOfTheInstanceBefore
  BY <1>3, ReadGoes, ReadEnds DEF Read!LogOfTheInstanceBefore, Read!Pending
<1>4. CASE Read!Breaks \/ Read!GuardRefuses
  BY <1>4, ReadGoes, ReadEnds DEF Read!Breaks, Read!GuardRefuses, Read!Pending
<1>5. CASE Read!Finish
  BY <1>5, ReadEnds DEF Read!Finish
<1>6. CASE UNCHANGED Read!vars
  BY <1>6 DEF Read!vars, ReadInv, Covered, Read!TrailAgrees
<1> QED
  BY <1>1, <1>2, <1>3, <1>4, <1>5, <1>6, ReadCall DEF Read!Next

LEMMA ReadInductive == Read!Spec => []ReadInv
  BY ReadInit, ReadStep, PTL DEF Read!Spec

\* k8s_read.py, jira_reader.py, ...: an answer with data has the data of every
\* request of its tool or says which of them failed, but for the lists of the image
\* inventory and the remote commands in a pipe.
THEOREM AnswersAreWhole == Read!Spec => []NothingIsLeftOut
<1>1. ReadInv => NothingIsLeftOut
  <2> SUFFICES ASSUME ReadInv, answer = "data",
                      NEW i \in 1 .. Len(Read!Requests[readCall.tool])
               PROVE  Covered(i)
    BY DEF Covered, NothingIsLeftOut, Read!NothingIsLeftOut
  <2>1. readCall.tool \in Read!Tools /\ i \in 1 .. readCall.made
    BY DEF ReadInv, Read!None
  <2> QED
    BY <2>1 DEF ReadInv
<1> QED
  BY <1>1, ReadInductive, PTL

\* The wrappers of the tool families: the audit log never calls refused what gave
\* data, and only Atlassian and web failures go without a record.
THEOREM TrailIsTrue == Read!Spec => []TrailAgrees
<1>1. ReadInv => TrailAgrees
  BY DEF ReadInv, TrailAgrees
<1> QED
  BY <1>1, ReadInductive, PTL

(***************************************************************************)
(* The web testing tools.                                                  *)
(***************************************************************************)

HopMade == [page : Probe!Page, ips : SUBSET WebAddr, moved : BOOLEAN]

\* A page that was authorised, and whose name has not moved to a denied address
\* unless that was noted.
Granted ==
  /\ page \in Probe!Page /\ page.form /\ Len(chain) <= MaxRedirects
  /\ allow # {} => page.host \in allow
  /\ pageMoved \/ Probe!Addresses(page.host) \cap Metadata = {}

ProbeInv ==
  /\ allow \subseteq WebHost \cup WebAddr
  /\ webDns \in [WebHost -> Probe!AtMostOne]
  /\ page \in Probe!Page \cup {Probe!NoPage}
  /\ pinned \subseteq WebAddr /\ pageMoved \in BOOLEAN
  /\ chain \in Seq(HopMade)
  /\ outcome \in {"none", "page", "refused", "error"}
  /\ pinned # {} => Granted
  /\ Probe!EveryHopIsAuthorized

\* Before the first call.
LEMMA NoHops ==
  ASSUME chain = <<>>
  PROVE  chain \in Seq(HopMade) /\ Probe!EveryHopIsAuthorized
<1>1. Len(chain) = 0 /\ DOMAIN chain = {}
  OBVIOUS
<1> QED
  BY <1>1, ProbeAssumption DEF Probe!EveryHopIsAuthorized

LEMMA ProbeInit == Probe!Init => ProbeInv
<1> SUFFICES ASSUME Probe!Init PROVE ProbeInv
  OBVIOUS
<1>1. page = Probe!NoPage /\ pinned = {} /\ pageMoved \in BOOLEAN /\ outcome = "none"
  BY DEF Probe!Init
<1>2. allow \subseteq WebHost \cup WebAddr /\ webDns \in [WebHost -> Probe!AtMostOne]
  BY DEF Probe!Init
<1>3. chain \in Seq(HopMade) /\ Probe!EveryHopIsAuthorized
  BY NoHops DEF Probe!Init
<1> QED
  BY <1>1, <1>2, <1>3 DEF ProbeInv

LEMMA PageAddresses ==
  ASSUME ProbeInv, NEW p \in Probe!Page
  PROVE  Probe!Addresses(p.host) \subseteq WebAddr
<1>1. p.host \in WebHost \cup WebAddr
  BY DEF Probe!Page
<1> QED
  BY <1>1 DEF ProbeInv, Probe!Addresses, Probe!AtMostOne

LEMMA MovesStep ==
  ASSUME ProbeInv, NEW h \in WebHost, NEW as \in Probe!AtMostOne, Probe!Moves(h, as)
  PROVE  ProbeInv'
<1>1. /\ UNCHANGED <<allow, page, pinned, chain, outcome>>
      /\ webDns' = [webDns EXCEPT ![h] = as]
      /\ pageMoved' = (pageMoved \/ (pinned # {} /\ page.host = h))
  BY DEF Probe!Moves
<1>2. webDns' \in [WebHost -> Probe!AtMostOne]
  BY <1>1 DEF ProbeInv
<1>3. pageMoved' \in BOOLEAN
  BY <1>1
<1>4. ASSUME pinned # {} PROVE Granted'
  <2>1. Granted /\ page.host \in WebHost \cup WebAddr
    BY <1>4 DEF ProbeInv, Granted, Probe!Page
  <2>2. CASE page.host = h
    BY <1>1, <1>4, <2>1, <2>2 DEF Granted
  <2>3. CASE page.host # h
    <3>1. Probe!Addresses(page.host)' = Probe!Addresses(page.host)
      BY <1>1, <2>1, <2>3 DEF Probe!Addresses, ProbeInv
    <3> QED
      BY <1>1, <2>1, <3>1 DEF Granted
  <2> QED
    BY <2>2, <2>3
<1> QED
  BY <1>1, <1>2, <1>3, <1>4 DEF ProbeInv, Probe!EveryHopIsAuthorized

LEMMA AuthorizeStep ==
  ASSUME ProbeInv, Probe!Authorize
  PROVE  ProbeInv'
<1>1. /\ page # Probe!NoPage /\ Len(chain) <= MaxRedirects /\ Probe!Authorized(page)
      /\ pinned' = Probe!Addresses(page.host)
      /\ UNCHANGED <<allow, webDns, page, pageMoved, chain, outcome>>
  BY DEF Probe!Authorize
<1>2. page \in Probe!Page
  BY <1>1 DEF ProbeInv
<1>3. pinned' \subseteq WebAddr
  BY <1>1, <1>2, PageAddresses
<1>4. Granted'
  BY <1>1, <1>2 DEF Granted, Probe!Authorized, Probe!Addresses
<1> QED
  BY <1>1, <1>3, <1>4 DEF ProbeInv, Probe!EveryHopIsAuthorized

LEMMA RequestStep ==
  ASSUME ProbeInv, Probe!Request
  PROVE  ProbeInv'
<1> DEFINE hop == [page |-> page, ips |-> Probe!Addresses(page.host), moved |-> pageMoved]
<1>1. Granted /\ UNCHANGED <<allow, webDns>> /\ pinned' = {} /\ pageMoved' = FALSE
  BY DEF Probe!Request, ProbeInv
<1>2. page \in Probe!Page /\ pageMoved \in BOOLEAN
  BY <1>1 DEF Granted, ProbeInv
<1>3. /\ hop \in HopMade /\ hop.page = page /\ hop.ips = Probe!Addresses(page.host)
      /\ hop.moved = pageMoved
  BY <1>2, PageAddresses DEF HopMade
<1>4. /\ page' \in Probe!Page \cup {Probe!NoPage}
      /\ outcome' \in {"none", "page", "refused", "error"}
      /\ chain' = Append(chain, hop) \/ chain' = chain
  BY DEF Probe!Request, Probe!Returns, ProbeInv
<1> HIDE DEF hop
<1>5. CASE chain' = chain
  BY <1>1, <1>4, <1>5 DEF ProbeInv, Probe!EveryHopIsAuthorized
<1>6. CASE chain' = Append(chain, hop)
  <2>1. chain \in Seq(HopMade)
    BY DEF ProbeInv
  <2>2. /\ chain' \in Seq(HopMade) /\ Len(chain') = Len(chain) + 1
        /\ \A i \in DOMAIN chain' : (i \in DOMAIN chain /\ chain'[i] = chain[i]) \/ chain'[i] = hop
    BY <1>3, <1>6, <2>1
  <2>3. Len(chain') <= MaxRedirects + 1
    BY <1>1, <2>1, <2>2, ProbeAssumption DEF Granted
  <2>4. /\ hop.page.form
        /\ allow # {} => hop.page.host \in allow
        /\ hop.ips \cap Metadata # {} => hop.moved
    BY <1>1, <1>3 DEF Granted
  <2>5. \A i \in DOMAIN chain :
          /\ chain[i].page.form
          /\ allow # {} => chain[i].page.host \in allow
          /\ chain[i].ips \cap Metadata # {} => chain[i].moved
    BY DEF ProbeInv, Probe!EveryHopIsAuthorized
  <2>6. \A i \in DOMAIN chain' :
          /\ chain'[i].page.form
          /\ allow # {} => chain'[i].page.host \in allow
          /\ chain'[i].ips \cap Metadata # {} => chain'[i].moved
    BY <2>2, <2>4, <2>5
  <2>7. allow' = allow
    BY <1>1
  <2>8. Probe!EveryHopIsAuthorized'
    BY <2>3, <2>6, <2>7 DEF Probe!EveryHopIsAuthorized
  <2> QED
    BY <1>1, <1>4, <2>2, <2>8 DEF ProbeInv
<1> QED
  BY <1>4, <1>5, <1>6

LEMMA ProbeStep ==
  ASSUME ProbeInv, [Probe!Next]_(Probe!vars)
  PROVE  ProbeInv'
<1>1. ASSUME NEW p \in Probe!Page, Probe!Call(p) PROVE ProbeInv'
  <2>1. /\ page = Probe!NoPage /\ page' = p /\ chain' = <<>> /\ outcome' = "none"
        /\ UNCHANGED <<allow, webDns, pinned, pageMoved>>
    BY <1>1 DEF Probe!Call
  <2>2. chain' \in Seq(HopMade) /\ Len(chain') = 0 /\ DOMAIN chain' = {}
    BY <2>1
  <2>3. Probe!EveryHopIsAuthorized'
    BY <2>2, ProbeAssumption DEF Probe!EveryHopIsAuthorized
  <2>4. pinned = {}
    BY <2>1 DEF ProbeInv, Granted, Probe!NoPage
  <2> QED
    BY <2>1, <2>2, <2>3, <2>4 DEF ProbeInv
<1>2. CASE Probe!Refused
  BY <1>2 DEF Probe!Refused, Probe!Returns, ProbeInv, Probe!EveryHopIsAuthorized
<1>3. CASE UNCHANGED Probe!vars
  <2>1. UNCHANGED <<allow, webDns, page, pinned, pageMoved, chain, outcome>>
    BY <1>3 DEF Probe!vars
  <2>2. Granted' <=> Granted
    BY <2>1 DEF Granted, Probe!Addresses
  <2> QED
    BY <2>1, <2>2 DEF ProbeInv, Probe!EveryHopIsAuthorized
<1> QED
  BY <1>1, <1>2, <1>3, MovesStep, AuthorizeStep, RequestStep DEF Probe!Next

LEMMA ProbeInductive == Probe!Spec => []ProbeInv
  BY ProbeInit, ProbeStep, PTL DEF Probe!Spec

\* web_test.py, "every hop": however servers redirect and names move, no page is
\* asked for off the white list, a denied address is asked only behind a name that
\* has moved since the hop was authorised, and no call asks for more than its first
\* page and MaxRedirects others.
THEOREM HopsAreAuthorized == Probe!Spec => []EveryHopIsAuthorized
<1>1. ProbeInv => EveryHopIsAuthorized
  BY DEF ProbeInv, EveryHopIsAuthorized
<1> QED
  BY <1>1, ProbeInductive, PTL

(***************************************************************************)
(* The daily report.                                                       *)
(***************************************************************************)

DayPage == [version : 0 .. MaxVersion, n : 0 .. MaxTurns]
DayRun == [pc : {"idle", "folder", "lookup", "publish"}, day : Daily!Day,
           n : 0 .. MaxTurns, found : 0 .. MaxVersion]
Reporting(r) == run[r].pc # "idle"

DailyTypes ==
  /\ today \in Daily!Day /\ turns \in [Daily!Day -> 0 .. MaxTurns]
  /\ folder \in BOOLEAN /\ pages \in [Daily!Day -> DayPage]
  /\ run \in [Runs -> DayRun]
  /\ reported \in [Daily!Day -> 0 .. MaxTurns] /\ raced \subseteq Daily!Day

\* A run has the turns of its day, and no fewer than the page, unless it shares
\* the day with another.
DailyInv ==
  /\ DailyTypes
  /\ \A d \in Daily!Day : pages[d].n <= turns[d]
  /\ \A r \in Runs : Reporting(r) => run[r].n <= turns[run[r].day]
  /\ \A r \in Runs : Reporting(r) /\ run[r].day \notin raced => pages[run[r].day].n <= run[r].n
  /\ \A r, s \in Runs : r # s /\ Reporting(r) /\ Reporting(s) /\ run[r].day = run[s].day
       => run[r].day \in raced
  /\ Daily!ReportedIsPublished

LEMMA DailyConstants ==
  /\ 1 \in Daily!Day /\ 0 \in 0 .. MaxTurns /\ 0 \in 0 .. MaxVersion
  /\ Daily!Idle \in DayRun /\ Daily!Idle.pc = "idle"
<1>1. 1 \in Daily!Day /\ 0 \in 0 .. MaxTurns /\ 0 \in 0 .. MaxVersion
  BY DailyAssumption DEF Daily!Day
<1> QED
  BY <1>1 DEF Daily!Idle, DayRun

LEMMA DailyInit == Daily!Init => DailyInv
<1> SUFFICES ASSUME Daily!Init PROVE DailyInv
  OBVIOUS
<1> USE DEF Daily!Init
<1>1. [version |-> 0, n |-> 0] \in DayPage
  BY DailyConstants DEF DayPage
<1>2. DailyTypes
  BY <1>1, DailyConstants DEF DailyTypes
<1>3. \A r \in Runs : ~Reporting(r)
  BY DailyConstants DEF Reporting
<1>4. \A d \in Daily!Day : pages[d].n = 0 /\ turns[d] = 0 /\ reported[d] = 0
  OBVIOUS
<1> QED
  BY <1>2, <1>3, <1>4 DEF DailyInv, Daily!ReportedIsPublished

\* A set of numbers has a least one.
LEMMA LeastNumber ==
  ASSUME NEW T \in SUBSET Nat, T # {}
  PROVE  \E n \in T : \A m \in T : n <= m
<1>1. PICK n \in T : \A m \in T : ~(<<m, n>> \in OpToRel(<, Nat))
  BY NatLessThanWellFounded, WFMin, Zenon
<1>2. \A m \in T : n <= m
  <2> SUFFICES ASSUME NEW m \in T, m < n PROVE FALSE
    OBVIOUS
  <2>1. <<m, n>> \in OpToRel(<, Nat)
    BY DEF OpToRel
  <2> QED
    BY <1>1, <2>1
<1> QED
  BY <1>2

\* A set of days that are not after today has a last one.
LEMMA LastDay ==
  ASSUME NEW n \in Nat, NEW S \in SUBSET (1 .. n), S # {}
  PROVE  \E m \in S : \A d \in S : d <= m
<1> DEFINE Before == {k \in Nat : n - k \in S}
<1>1. Before # {}
  <2>1. PICK d \in S : TRUE
    OBVIOUS
  <2>2. n - d \in Nat /\ n - (n - d) = d
    BY <2>1
  <2> QED
    BY <2>1, <2>2
<1>2. PICK k \in Before : \A j \in Before : k <= j
  BY <1>1, LeastNumber
<1>3. n - k \in S
  OBVIOUS
<1>4. ASSUME NEW d \in S PROVE d <= n - k
  <2>1. n - d \in Nat /\ n - (n - d) = d
    OBVIOUS
  <2>2. k <= n - d
    BY <1>2, <2>1
  <2> QED
    BY <2>1, <2>2
<1> QED
  BY <1>3, <1>4

LEMMA ChosenDay ==
  ASSUME DailyInv
  PROVE  Daily!Chosen \in 1 .. today
<1> DEFINE active == {d \in Daily!Day : d <= today /\ d >= today - Within /\ turns[d] > 0}
<1>1. today \in Daily!Day /\ today \in Nat /\ today \in 1 .. today
  BY DailyAssumption DEF DailyInv, DailyTypes, Daily!Day
<1>2. active \subseteq 1 .. today
  BY <1>1 DEF Daily!Day
<1>3. Daily!Chosen = IF active = {} THEN today
                     ELSE CHOOSE d \in active : \A e \in active : e <= d
  BY DEF Daily!Chosen
<1> HIDE DEF active
<1>4. CASE active # {}
  <2>1. \E d \in active : \A e \in active : e <= d
    BY <1>1, <1>2, <1>4, LastDay
  <2> QED
    BY <1>2, <1>3, <1>4, <2>1
<1> QED
  BY <1>1, <1>3, <1>4

LEMMA DailyStart ==
  ASSUME DailyInv, NEW r \in Runs, NEW day \in Daily!Day, Daily!Start(r, day)
  PROVE  DailyInv'
<1> DEFINE new == [Daily!Idle EXCEPT !.pc = "folder", !.day = day, !.n = turns[day]]
<1>1. DailyTypes
  BY DEF DailyInv
<1>2. /\ run' = [run EXCEPT ![r] = new] /\ ~Reporting(r)
      /\ raced' = raced \cup {run[s].day : s \in {s \in Runs : run[s].pc # "idle" /\ run[s].day = day}}
      /\ UNCHANGED <<today, turns, folder, pages, reported>>
  BY DEF Daily!Start, Reporting
<1>3. new \in DayRun /\ new.pc = "folder" /\ new.day = day /\ new.n = turns[day]
  BY <1>1, DailyConstants DEF DailyTypes, DayRun
<1> HIDE DEF new
<1>4. \A s \in Runs : run'[s] = IF s = r THEN new ELSE run[s]
  BY <1>1, <1>2 DEF DailyTypes
<1>5. raced' \subseteq Daily!Day /\ raced \subseteq raced'
      /\ \A s \in Runs : Reporting(s) /\ run[s].day = day => day \in raced'
  BY <1>1, <1>2 DEF DailyTypes, DayRun, Reporting
<1>6. DailyTypes'
  BY <1>1, <1>2, <1>3, <1>5 DEF DailyTypes
<1>a. turns[day] <= turns[day] /\ pages[day].n <= turns[day]
  BY <1>1 DEF DailyInv, DailyTypes
<1>b. turns' = turns /\ pages' = pages
  BY <1>2
<1>7. \A s \in Runs : Reporting(s)' => run'[s].n <= turns'[run'[s].day]
  BY <1>3, <1>4, <1>a, <1>b DEF DailyInv, Reporting
<1>8. \A s, q \in Runs : s # q /\ Reporting(s)' /\ Reporting(q)' /\ run'[s].day = run'[q].day
        => run'[s].day \in raced'
  BY <1>3, <1>4, <1>5 DEF DailyInv, Reporting
<1>9. Daily!ReportedIsPublished'
  BY <1>2, <1>5 DEF DailyInv, Daily!ReportedIsPublished
<1>10. \A d \in Daily!Day : pages'[d].n <= turns'[d]
  BY <1>2 DEF DailyInv
<1>11. \A s \in Runs : Reporting(s)' /\ run'[s].day \notin raced'
          => pages'[run'[s].day].n <= run'[s].n
  BY <1>3, <1>4, <1>5, <1>a, <1>b DEF DailyInv, Reporting
<1> QED
  BY <1>6, <1>7, <1>8, <1>9, <1>10, <1>11, Zenon DEF DailyInv

\* A run that goes on where it is, or stops; nothing else that counts changes.
LEMMA DailyGoes ==
  ASSUME DailyInv, NEW r \in Runs, NEW new \in DayRun, run' = [run EXCEPT ![r] = new],
         folder' \in BOOLEAN, UNCHANGED <<today, turns, pages, reported, raced>>,
         new.pc # "idle" => Reporting(r) /\ new.day = run[r].day /\ new.n = run[r].n
  PROVE  DailyInv'
<1>1. \A s \in Runs : run'[s] = IF s = r THEN new ELSE run[s]
  BY DEF DailyInv, DailyTypes
<1>2. DailyTypes'
  BY DEF DailyInv, DailyTypes
<1>3. \A s \in Runs : Reporting(s)' => Reporting(s) /\ run'[s].day = run[s].day /\ run'[s].n = run[s].n
  BY <1>1 DEF Reporting
<1> QED
  BY <1>2, <1>3 DEF DailyInv, Daily!ReportedIsPublished

LEMMA DailyPublish ==
  ASSUME DailyInv, NEW r \in Runs, Daily!Publish(r)
  PROVE  DailyInv'
<1> DEFINE day == run[r].day
           new == [version |-> pages[day].version + 1, n |-> run[r].n]
<1>1. DailyTypes
  BY DEF DailyInv
<1>2. /\ run' = [run EXCEPT ![r] = Daily!Idle] /\ Reporting(r)
      /\ pages[day].version < MaxVersion
      /\ UNCHANGED <<today, turns, folder, raced>>
  BY DEF Daily!Publish, Reporting
<1>3. CASE UNCHANGED <<pages, reported>>
  BY <1>1, <1>2, <1>3, DailyGoes, DailyConstants DEF DailyTypes
<1>4. CASE /\ pages' = [pages EXCEPT ![day] = new]
           /\ reported' \in {reported, [reported EXCEPT ![day] = run[r].n]}
  <2>1. day \in Daily!Day /\ run[r].n \in 0 .. MaxTurns
    BY <1>1 DEF DailyTypes, DayRun
  <2>2. pages[day].version \in 0 .. MaxVersion
    BY <1>1, <2>1 DEF DailyTypes, DayPage
  <2>3. pages[day].version + 1 \in 0 .. MaxVersion
    BY <1>2, <2>2, DailyAssumption
  <2>4. new \in DayPage /\ new.n = run[r].n
    BY <2>1, <2>3 DEF DayPage
  <2> HIDE DEF new
  <2>5. /\ pages' \in [Daily!Day -> DayPage]
        /\ \A d \in Daily!Day : pages'[d] = IF d = day THEN new ELSE pages[d]
    BY <1>1, <1>4, <2>1, <2>4 DEF DailyTypes
  <2>6. /\ reported' \in [Daily!Day -> 0 .. MaxTurns]
        /\ \A d \in Daily!Day : reported'[d] = reported[d] \/ (d = day /\ reported'[d] = run[r].n)
    BY <1>1, <1>4, <2>1 DEF DailyTypes
  <2>7. \A s \in Runs : run'[s] = IF s = r THEN Daily!Idle ELSE run[s]
    BY <1>1, <1>2 DEF DailyTypes
  <2>8. DailyTypes'
    BY <1>1, <1>2, <2>5, <2>6, DailyConstants DEF DailyTypes
  <2>9. \A s \in Runs : Reporting(s)' => s # r /\ Reporting(s) /\ run'[s] = run[s]
    BY <2>7, DailyConstants DEF Reporting
  <2>10. \A d \in Daily!Day : pages'[d].n <= turns[d]
    BY <1>2, <2>4, <2>5 DEF DailyInv
  <2>11. ASSUME NEW s \in Runs, Reporting(s)', run'[s].day \notin raced
         PROVE  pages'[run'[s].day].n <= run'[s].n
    <3>1. s # r /\ Reporting(s) /\ run'[s] = run[s] /\ run[s].day \in Daily!Day
      BY <1>1, <2>9, <2>11 DEF DailyTypes, DayRun
    <3>2. run[s].day # day
      BY <1>2, <2>11, <3>1 DEF DailyInv
    <3> QED
      BY <2>5, <2>11, <3>1, <3>2 DEF DailyInv
  <2>12. ASSUME NEW d \in Daily!Day \ raced
         PROVE  pages'[d].n >= reported'[d]
    <3>1. CASE d # day
      BY <2>5, <2>6, <3>1 DEF DailyInv, Daily!ReportedIsPublished
    <3>2. CASE d = day
      <4>1. pages'[d].n = run[r].n /\ pages[d].n <= run[r].n /\ pages[d].n >= reported[d]
        BY <1>2, <2>4, <2>5, <3>2 DEF DailyInv, Daily!ReportedIsPublished
      <4>2. pages[d].n \in Nat /\ reported[d] \in Nat /\ run[r].n \in Nat
        BY <1>1, <2>1 DEF DailyTypes, DayPage
      <4> QED
        BY <2>6, <4>1, <4>2
    <3> QED
      BY <3>1, <3>2
  <2> QED
    BY <1>2, <2>8, <2>9, <2>10, <2>11, <2>12 DEF DailyInv, Daily!ReportedIsPublished
<1> QED
  BY <1>3, <1>4 DEF Daily!Publish, Daily!Stored

LEMMA DailyStep ==
  ASSUME DailyInv, [Daily!Next]_(Daily!vars)
  PROVE  DailyInv'
<1>0. DailyTypes
  BY DEF DailyInv
<1>1. CASE Daily!Turn
  <2>1. /\ turns' = [turns EXCEPT ![today] = @ + 1] /\ turns[today] < MaxTurns
        /\ UNCHANGED <<today, folder, pages, run, reported, raced>>
    BY <1>1 DEF Daily!Turn
  <2>2. today \in Daily!Day /\ turns[today] + 1 \in 0 .. MaxTurns
    BY <1>0, <2>1, DailyAssumption DEF DailyTypes
  <2>3. DailyTypes'
    BY <1>0, <2>1, <2>2 DEF DailyTypes
  <2>4. \A d \in Daily!Day : turns[d] <= turns'[d] /\ turns[d] \in Nat /\ turns'[d] \in Nat
    BY <1>0, <2>1, <2>2 DEF DailyTypes
  <2>5. \A d \in Daily!Day : pages[d].n \in Nat
    BY <1>0 DEF DailyTypes, DayPage
  <2>6. \A r \in Runs : run[r].n \in Nat /\ run[r].day \in Daily!Day
    BY <1>0 DEF DailyTypes, DayRun
  <2>7. \A d \in Daily!Day : pages[d].n <= turns'[d]
    BY <2>4, <2>5 DEF DailyInv
  <2>8. \A r \in Runs : Reporting(r) => run[r].n <= turns'[run[r].day]
    BY <2>4, <2>6 DEF DailyInv
  <2> QED
    BY <2>1, <2>3, <2>7, <2>8 DEF DailyInv, Reporting, Daily!ReportedIsPublished
<1>2. CASE Daily!Midnight
  <2>1. today' \in Daily!Day /\ UNCHANGED <<turns, folder, pages, run, reported, raced>>
    BY <1>0, <1>2, DailyAssumption DEF Daily!Midnight, DailyTypes, Daily!Day
  <2> QED
    BY <1>0, <2>1 DEF DailyInv, DailyTypes, Reporting, Daily!ReportedIsPublished
<1>3. ASSUME NEW r \in Runs, NEW day \in {Daily!Chosen} \cup 1 .. today, Daily!Start(r, day)
      PROVE  DailyInv'
  <2>1. day \in 1 .. today
    BY ChosenDay
  <2>2. day \in Daily!Day
    BY <1>0, <2>1, DailyAssumption DEF DailyTypes, Daily!Day
  <2> QED
    BY <1>3, <2>2, DailyStart
<1>4. ASSUME NEW r \in Runs, Daily!EnsureFolder(r) PROVE DailyInv'
  <2> DEFINE on == [run[r] EXCEPT !.pc = "lookup"]
  <2>1. on \in DayRun /\ on.day = run[r].day /\ on.n = run[r].n
    BY <1>0 DEF DailyTypes, DayRun
  <2>2. /\ run' = [run EXCEPT ![r] = Daily!Idle] \/ run' = [run EXCEPT ![r] = on]
        /\ folder' \in BOOLEAN /\ Reporting(r) /\ UNCHANGED <<today, turns, pages, reported, raced>>
    BY <1>4 DEF Daily!EnsureFolder, Reporting
  <2> HIDE DEF on
  <2> QED
    BY <2>1, <2>2, DailyGoes, DailyConstants
<1>5. ASSUME NEW r \in Runs, Daily!Lookup(r) PROVE DailyInv'
  <2>1. PICK found \in {0, pages[run[r].day].version} :
          run' = [run EXCEPT ![r].pc = "publish", ![r].found = found]
    BY <1>5 DEF Daily!Lookup
  <2> DEFINE on == [run[r] EXCEPT !.pc = "publish", !.found = found]
  <2>2. found \in 0 .. MaxVersion
    BY <1>0, DailyConstants DEF DailyTypes, DayRun, DayPage
  <2>3. on \in DayRun /\ on.day = run[r].day /\ on.n = run[r].n
    BY <1>0, <2>2 DEF DailyTypes, DayRun
  <2>4. /\ run' = [run EXCEPT ![r] = on] /\ folder' \in BOOLEAN /\ Reporting(r)
        /\ UNCHANGED <<today, turns, pages, reported, raced>>
    BY <1>0, <1>5, <2>1 DEF Daily!Lookup, Reporting, DailyTypes
  <2> HIDE DEF on
  <2> QED
    BY <2>3, <2>4, DailyGoes
<1>6. ASSUME NEW r \in Runs, Daily!Fails(r) PROVE DailyInv'
  BY <1>0, <1>6, DailyGoes, DailyConstants DEF Daily!Fails, DailyTypes
<1>7. CASE UNCHANGED Daily!vars
  BY <1>0, <1>7 DEF Daily!vars, DailyInv, DailyTypes, Reporting, Daily!ReportedIsPublished
<1> QED
  BY <1>1, <1>2, <1>3, <1>4, <1>5, <1>6, <1>7, DailyPublish DEF Daily!Next

LEMMA DailyInductive == Daily!Spec => []DailyInv
  BY DailyInit, DailyStep, PTL DEF Daily!Spec

\* daily_report.py: a run that said it published is in the page of its day and stays
\* there, whatever lookups failed, unless two runs were about the day at once.
THEOREM PublishedStays == Daily!Spec => []ReportedIsPublished
<1>1. DailyInv => ReportedIsPublished
  BY DEF DailyInv, ReportedIsPublished
<1> QED
  BY <1>1, DailyInductive, PTL

(***************************************************************************)
(* The copies of a release and the morning brief: what is proved of the    *)
(* two modules holds of their instances here.  CloneProved and             *)
(* TriageProved are the same specifications, read through the modules that *)
(* hold the proofs.                                                        *)
(***************************************************************************)
CloneProved == INSTANCE CloneRelease_proofs
TriageProved == INSTANCE MorningTriage_proofs WITH told <- sourcesTold

LEMMA SameDocs ==
  /\ CloneProved!Ref = Clone!Ref /\ CloneProved!Doc = Clone!Doc
  /\ CloneProved!Core = Clone!Core /\ CloneProved!Custom = Clone!Custom
  /\ CloneProved!Kinds = Clone!Kinds /\ CloneProved!Workloads = Clone!Workloads
  /\ CloneProved!Renderable
<1>1. /\ CloneProved!Ref = Clone!Ref /\ CloneProved!Doc = Clone!Doc
      /\ CloneProved!Core = Clone!Core /\ CloneProved!Custom = Clone!Custom
      /\ CloneProved!Kinds = Clone!Kinds /\ CloneProved!Workloads = Clone!Workloads
  BY DEF Clone!Core, CloneProved!Core, Clone!Rbac, CloneProved!Rbac, Clone!Custom,
     CloneProved!Custom, Clone!Kinds, CloneProved!Kinds, Clone!Unnamed, CloneProved!Unnamed,
     Clone!Ref, CloneProved!Ref, Clone!Doc, CloneProved!Doc, Clone!Workloads,
     CloneProved!Workloads, Clone!Places, CloneProved!Places
<1> QED
  BY <1>1, CloneAssumption
  DEF Clone!Renderable, CloneProved!Renderable

LEMMA SameClone == Clone!Spec => CloneProved!Spec
<1>1. ASSUME NEW ds, NEW toOne PROVE Clone!Fetch(ds, toOne) => CloneProved!Fetch(ds, toOne)
  BY DEF Clone!Fetch, CloneProved!Fetch, Clone!Ends, CloneProved!Ends
<1>2. ASSUME NEW known PROVE Clone!Sanitize(known) => CloneProved!Sanitize(known)
  BY DEF Clone!Sanitize, CloneProved!Sanitize, Clone!Kept, CloneProved!Kept, Clone!Cleaned,
     CloneProved!Cleaned, Clone!Stripped, CloneProved!Stripped, Clone!Scalable,
     CloneProved!Scalable, Clone!SecretRefs, CloneProved!SecretRefs, Clone!Used,
     CloneProved!Used, Clone!Workloads, CloneProved!Workloads, Clone!Rbac, CloneProved!Rbac,
     Clone!Custom, CloneProved!Custom
<1>3. Clone!EnsureNamespace => CloneProved!EnsureNamespace
  BY DEF Clone!EnsureNamespace, CloneProved!EnsureNamespace
<1>4. Clone!ApplyStubs => CloneProved!ApplyStubs
  BY DEF Clone!ApplyStubs, CloneProved!ApplyStubs, Clone!Stubs, CloneProved!Stubs,
     Clone!Unnamed, CloneProved!Unnamed
<1>5. Clone!LoadImages => CloneProved!LoadImages
  BY DEF Clone!LoadImages, CloneProved!LoadImages
<1>6. Clone!ApplyManifest => CloneProved!ApplyManifest
  BY DEF Clone!ApplyManifest, CloneProved!ApplyManifest, Clone!Applied, CloneProved!Applied
<1>7. Clone!PodsStatus => CloneProved!PodsStatus
  BY DEF Clone!PodsStatus, CloneProved!PodsStatus, Clone!Ends, CloneProved!Ends
<1>8. Clone!Raises => CloneProved!Raises
  BY DEF Clone!Raises, CloneProved!Raises, Clone!Applied, CloneProved!Applied, Clone!Ends,
     CloneProved!Ends
<1>9. ASSUME NEW kind, NEW name
      PROVE  Clone!RemoveResource(kind, name) => CloneProved!RemoveResource(kind, name)
  BY SameDocs DEF Clone!RemoveResource, CloneProved!RemoveResource
<1>10. Clone!RemoveNamespace => CloneProved!RemoveNamespace
  BY DEF Clone!RemoveNamespace, CloneProved!RemoveNamespace
<1>11. Clone!Next => CloneProved!Next
  BY SameDocs, <1>1, <1>2, <1>3, <1>4, <1>5, <1>6, <1>7, <1>8, <1>9, <1>10
  DEF Clone!Next, CloneProved!Next
<1>12. Clone!Init => CloneProved!Init
  BY DEF Clone!Init, CloneProved!Init
<1>13. [Clone!Next]_Clone!vars => [CloneProved!Next]_CloneProved!vars
  BY <1>11 DEF Clone!vars, CloneProved!vars
<1> QED
  BY <1>12, <1>13, PTL DEF Clone!Spec, CloneProved!Spec

\* manifest_sanitizer.py, among the tools: whatever is cloned, and wherever a clone
\* fails or is cut off, the sandbox holds no access rights, no copied secret and no
\* AWS annotation of a document, and nothing only a cloud can run in the kinds the
\* sanitizer knows; custom kinds keep what their specification says.
THEOREM CopiesAreClean == Clone!Spec => []SandboxIsClean
<1>1. CloneProved!Spec => []CloneProved!SandboxIsClean
  BY SameDocs, CloneProved!SandboxStaysClean
<1>2. CloneProved!SandboxIsClean => SandboxIsClean
  BY SameDocs DEF SandboxIsClean, Clone!SandboxIsClean, CloneProved!SandboxIsClean,
     Clone!Rbac, CloneProved!Rbac, Clone!Scalable, CloneProved!Scalable
<1> QED
  BY <1>1, <1>2, SameClone, PTL

\* sandbox_ops.py, among the tools: a workload in the sandbox finds the secrets its
\* environment and its secret volumes refer to, as long as no apply of stubs failed
\* and the secret was not removed; projected volumes and custom kinds get none.
THEOREM CopiesFindTheirSecrets == Clone!Spec => []RefsResolve
<1>1. CloneProved!Spec => []CloneProved!RefsResolve
  BY SameDocs, CloneProved!SecretsComeFirst
<1>2. CloneProved!RefsResolve => RefsResolve
  BY SameDocs DEF RefsResolve, Clone!RefsResolve, CloneProved!RefsResolve, Clone!Unnamed,
     CloneProved!Unnamed, Clone!Used, CloneProved!Used
<1> QED
  BY <1>1, <1>2, SameClone, PTL

LEMMA SameData ==
  /\ Triage!Source = TriageProved!Source /\ Triage!Deps = TriageProved!Deps
  /\ Triage!Content = TriageProved!Content /\ Triage!Empty = TriageProved!Empty
  /\ Triage!Reports = TriageProved!Reports /\ Triage!NoChanges = TriageProved!NoChanges
  /\ \A content : Triage!Present(content) = TriageProved!Present(content)
  /\ \A s : Triage!Contents(s) = TriageProved!Contents(s)
<1>1. /\ Triage!Absent = TriageProved!Absent /\ Triage!Source = TriageProved!Source
  BY DEF Triage!Absent, TriageProved!Absent, Triage!Source, TriageProved!Source
<1>2. Triage!Deps = TriageProved!Deps
  BY <1>1 DEF Triage!Deps, TriageProved!Deps
<1>3. Triage!Content = TriageProved!Content /\ Triage!Empty = TriageProved!Empty
  BY <1>1, <1>2 DEF Triage!Content, TriageProved!Content, Triage!Empty, TriageProved!Empty
<1>4. Triage!Reports = TriageProved!Reports /\ Triage!NoChanges = TriageProved!NoChanges
  BY <1>1, <1>2 DEF Triage!Reports, TriageProved!Reports, Triage!NoChanges,
     TriageProved!NoChanges, Triage!Nothing, TriageProved!Nothing
<1>5. \A content : Triage!Present(content) = TriageProved!Present(content)
  BY <1>1, <1>2 DEF Triage!Present, TriageProved!Present
<1>6. \A s : Triage!Contents(s) = TriageProved!Contents(s)
  BY <1>3, <1>5 DEF Triage!Contents, TriageProved!Contents
<1> QED
  BY <1>1, <1>2, <1>3, <1>4, <1>5, <1>6

LEMMA SameCut ==
  /\ \A hidden : Triage!Cut(hidden) <=> TriageProved!Cut(hidden)
  /\ \A s, hidden : Triage!Shown(s, hidden) = TriageProved!Shown(s, hidden)
<1>1. ASSUME NEW S PROVE Triage!Cardinality(S) = TriageProved!Cardinality(S)
  BY Zenon DEF Triage!Cardinality, TriageProved!Cardinality
<1> QED
  BY <1>1, SameData DEF Triage!Cut, TriageProved!Cut, Triage!Shown, TriageProved!Shown

LEMMA SameTriage == Triage!Spec => TriageProved!Spec
<1>1. Triage!Unsaid = TriageProved!Unsaid
  BY SameData DEF Triage!Unsaid, TriageProved!Unsaid
<1>2. \A content, report : Triage!Patched(content, report) = TriageProved!Patched(content, report)
  BY SameData DEF Triage!Patched, TriageProved!Patched
<1>3. \A prev, cur : Triage!Diff(prev, cur) = TriageProved!Diff(prev, cur)
  BY SameData DEF Triage!Diff, TriageProved!Diff
<1>4. Triage!Ends => TriageProved!Ends
  BY SameData DEF Triage!Ends, TriageProved!Ends
<1>5. ASSUME NEW d PROVE Triage!Start(d) => TriageProved!Start(d)
  BY SameData DEF Triage!Start, TriageProved!Start
<1>6. Triage!Scan => TriageProved!Scan
  BY SameData, <1>3 DEF Triage!Scan, TriageProved!Scan
<1>7. Triage!ScanFails => TriageProved!ScanFails
  BY SameData DEF Triage!ScanFails, TriageProved!ScanFails
<1>8. Triage!Deliver => TriageProved!Deliver
  BY SameData, SameCut, <1>2, <1>4 DEF Triage!Deliver, TriageProved!Deliver
<1>9. Triage!NotDelivered => TriageProved!NotDelivered
  BY <1>1, <1>4 DEF Triage!NotDelivered, TriageProved!NotDelivered
<1>10. Triage!Crash => TriageProved!Crash
  BY SameData, <1>1, <1>4 DEF Triage!Crash, TriageProved!Crash
<1>11. [Triage!Next]_Triage!vars => [TriageProved!Next]_TriageProved!vars
  BY <1>5, <1>6, <1>7, <1>8, <1>9, <1>10
  DEF Triage!Next, TriageProved!Next, Triage!vars, TriageProved!vars
<1>12. Triage!Init => TriageProved!Init
  BY SameData DEF Triage!Init, TriageProved!Init
<1> QED
  BY <1>11, <1>12, PTL DEF Triage!Spec, TriageProved!Spec

\* morning_triage.py, among the tools: between runs an entry of the snapshot is as
\* the delivered reports have it, unless its last change was not delivered, was cut
\* from the message, or came when the snapshot was empty.
THEOREM BriefsAddUp == Triage!Spec => []ReportsAddUp
<1>1. TriageProved!ReportsAddUp => ReportsAddUp
  BY SameData DEF ReportsAddUp, Triage!ReportsAddUp, TriageProved!ReportsAddUp
<1> QED
  BY <1>1, TriageProved!DeliveredReportsAddUp, SameTriage, PTL

(***************************************************************************)
(* All of them: the specification that the runs check lets each of the     *)
(* seven do what its own module says, so what was proved of one holds.     *)
(***************************************************************************)
LEMMA EachStep ==
  ASSUME [MCNext]_MCVars
  PROVE  /\ [Trino!Next]_(Trino!vars) /\ [Clone!Next]_(Clone!vars) /\ [Next]_vars
         /\ [Read!Next]_(Read!vars) /\ [Probe!Next]_(Probe!vars)
         /\ [Triage!Next]_(Triage!vars) /\ [Daily!Next]_(Daily!vars)
<1>1. CASE UNCHANGED MCVars
  BY <1>1 DEF MCVars, Trino!vars, Clone!vars, vars, Read!vars, Probe!vars, Triage!vars, Daily!vars,
     trinoVars, cloneVars, sandboxVars, readVars, probeVars, triageVars, dailyVars
<1>2. CASE MCNext
  BY <1>2 DEF MCNext, Trino!vars, Clone!vars, vars, Read!vars, Probe!vars, Triage!vars, Daily!vars,
     trinoVars, cloneVars, sandboxVars, readVars, probeVars, triageVars, dailyVars
<1> QED
  BY <1>1, <1>2

LEMMA EachInit ==
  ASSUME MCInit
  PROVE  /\ Trino!Init /\ Clone!Init /\ Read!Init /\ Triage!Init /\ Daily!Init
         /\ IndInv /\ RestInv /\ ProbeInv
<1>1. ASSUME focus = "sandbox" PROVE IndInv /\ RestInv
  BY <1>1, InitInv, RestInit DEF MCInit
<1>2. ASSUME focus # "sandbox" PROVE IndInv /\ RestInv
  <2>1. /\ dns = [h \in Host |-> {}] /\ policy = Policy(TRUE, {}, {}, dns)
        /\ real = {} /\ containers = {} /\ strix = {} /\ moved = {} /\ trail = {} /\ failed = {}
        /\ call = [c \in Calls |-> Fresh]
    BY <1>2 DEF MCInit
  <2>2. policy = [interlock |-> TRUE, allow |-> Local, deny |-> Metadata]
    BY <2>1 DEF Policy
  <2>3. CallInv
    BY <2>1 DEF CallInv, Fresh, Target
  <2>4. DnsInv
    <3>1. [h \in Host |-> {}] \in [Host -> SUBSET Addr]
      OBVIOUS
    <3> QED
      BY <2>1, <3>1 DEF DnsInv
  <2>5. PolicyInv
    <3>1. policy.deny = Metadata
      BY <2>2
    <3> QED
      BY <2>1, <3>1 DEF PolicyInv
  <2>6. StrixInv /\ ContainerInv
    BY <2>1 DEF StrixInv, ContainerInv, At, Fresh
  <2>7. RestInv
    <3>1. policy \in [interlock : BOOLEAN, allow : SUBSET (Host \cup Addr),
                     deny : SUBSET (Host \cup Addr)]
      BY <2>2, PolicyAssumption
    <3> QED
      BY <2>1, <3>1 DEF RestInv
  <2> QED
    BY <2>3, <2>4, <2>5, <2>6, <2>7 DEF IndInv
<1>3. ProbeInv
  <2>1. CASE focus = "probe"
    BY <2>1, ProbeInit DEF MCInit
  <2>2. CASE focus # "probe"
    <3>1. /\ allow = {} /\ webDns = [h \in WebHost |-> {}] /\ page = Probe!NoPage
          /\ pinned = {} /\ pageMoved = FALSE /\ chain = <<>> /\ outcome = "none"
      BY <2>2 DEF MCInit
    <3>2. webDns \in [WebHost -> Probe!AtMostOne]
      BY <3>1 DEF Probe!AtMostOne
    <3> QED
      BY <3>1, <3>2, NoHops DEF ProbeInv
  <2> QED
    BY <2>1, <2>2
<1> QED
  BY <1>1, <1>2, <1>3 DEF MCInit

LEMMA EachIsRun ==
  MCSpec => /\ Trino!Spec /\ Clone!Spec /\ Read!Spec /\ Triage!Spec /\ Daily!Spec
            /\ [](IndInv /\ RestInv) /\ []ProbeInv
<1>1. IndInv /\ RestInv /\ [Next]_vars => (IndInv /\ RestInv)'
  BY InvStep, RestStep
<1>2. ProbeInv /\ [Probe!Next]_(Probe!vars) => ProbeInv'
  BY ProbeStep
<1> QED
  BY <1>1, <1>2, EachInit, EachStep, PTL
  DEF MCSpec, Trino!Spec, Clone!Spec, Read!Spec, Triage!Spec, Daily!Spec

\* The seven modules: queries, clones, calls, reports and their records keep their
\* form, whatever services, clusters, names and schedules do.
THEOREM TypesCorrect == MCSpec => []TypesOK
<1>1. Clone!Spec => []Clone!TypeOK
  <2>1. CloneProved!Spec => []CloneProved!TypeOK
    BY SameDocs, CloneAssumption, CloneProved!TypeCorrect
  <2>2. CloneProved!TypeOK => Clone!TypeOK
    BY SameDocs DEF Clone!TypeOK, CloneProved!TypeOK
  <2> QED
    BY <2>1, <2>2, SameClone, PTL
<1>2. Triage!Spec => []Triage!TypeOK
  <2>1. TriageProved!Spec => []TriageProved!TypeOK
    BY TriageAssumption, TriageProved!TypeCorrect
  <2>2. TriageProved!TypeOK => Triage!TypeOK
    BY SameData DEF Triage!TypeOK, TriageProved!TypeOK
  <2> QED
    BY <2>1, <2>2, SameTriage, PTL
<1>3. TrinoInv => Trino!TypeOK
  BY DEF TrinoInv, Trino!TypeOK, TrinoTool, TrinoClient, TrinoEngine, TrinoAnswer
<1>4. ReadInv => Read!TypeOK
  BY DEF ReadInv, Read!TypeOK
<1>5. ProbeInv => Probe!TypeOK
  <2>1. ProbeInv => \A i \in DOMAIN chain : chain[i] \in HopMade
    BY DEF ProbeInv
  <2> QED
    BY <2>1 DEF ProbeInv, HopMade, Probe!TypeOK
<1>6. DailyInv => Daily!TypeOK
  BY DEF DailyInv, DailyTypes, DayPage, DayRun, Daily!TypeOK
<1>7. /\ Trino!TypeOK /\ Clone!TypeOK /\ TypeOK /\ Read!TypeOK
      /\ Probe!TypeOK /\ Triage!TypeOK /\ Daily!TypeOK
      => TypesOK
  BY DEF TypesOK
<1> QED
  BY <1>1, <1>2, <1>3, <1>4, <1>5, <1>6, <1>7, EachIsRun, TypeOf, TrinoInductive,
     ReadInductive, DailyInductive, PTL
=============================================================================
