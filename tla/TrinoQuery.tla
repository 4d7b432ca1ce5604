----------------------------- MODULE TrinoQuery -----------------------------
(***************************************************************************)
(* The Trino tools (tools/trino_reader.py).                                *)
(*                                                                         *)
(* A query is a POST and then polls of the address the engine gives for    *)
(* the next page, up to a number of rows; what is left is cancelled.  Most *)
(* tools are one query; trino_table_profile asks for the columns first and *)
(* trino_freshness asks two questions about every table of a schema.       *)
(* Nothing limits the number of polls.                                     *)
(***************************************************************************)
EXTENDS Integers

CONSTANTS
  MaxRows,        \* bound: rows a query may have
  Limits          \* values of max_rows

VARIABLES
  tool,           \* the tool that runs, and its stage
  todo,           \* trino_freshness: tables it has still to report
  query,          \* the query that runs, seen from the client
  engine,         \* and the query that was posted last, seen from the engine
  answer          \* what the model was told

vars == <<tool, todo, query, engine, answer>>

Idle == [name |-> "none", stage |-> "none"]
NoQuery == [on |-> FALSE, posted |-> FALSE, max |-> 0, rows |-> 0]
NoEngine == [st |-> "none", rows |-> 0, sent |-> 0, lost |-> FALSE]

TypeOK ==
  /\ tool \in [name : {"none", "run", "table_profile", "freshness"},
               stage : {"none", "only", "tables", "describe", "aggregate", "latest"}]
  /\ todo \in 0 .. MaxRows
  /\ query \in [on : BOOLEAN, posted : BOOLEAN, max : Limits \cup {0}, rows : 0 .. MaxRows]
  /\ engine \in [st : {"none", "running", "finished", "failed", "cancelled"},
                 rows : 0 .. MaxRows, sent : 0 .. MaxRows, lost : BOOLEAN]
  /\ answer \in {"none", "rows", "refused", "error", "raised"}

Init ==
  /\ tool = Idle
  /\ todo = 0
  /\ query = NoQuery
  /\ engine = NoEngine
  /\ answer = "none"

(***************************************************************************)
(* A call, and the query of its stage.                                     *)
(***************************************************************************)
\* Names that are no identifiers raise out of the tool; assert_readonly_sql
\* refuses SQL that is not a query before anything is sent.
Call(name, stage, max) ==
  /\ tool = Idle
  /\ todo' = 0
  /\ engine' = NoEngine
  /\ \/ /\ tool' = [name |-> name, stage |-> stage]
        /\ query' = [NoQuery EXCEPT !.on = TRUE, !.max = max]
        /\ answer' = "none"
     \/ /\ answer' \in {"raised"} \cup (IF name = "run" THEN {"refused"} ELSE {})
        /\ UNCHANGED <<tool, query>>

Returns(what) == tool' = Idle /\ query' = NoQuery /\ answer' = what

Stage(stage, max) ==
  /\ tool' = [tool EXCEPT !.stage = stage]
  /\ query' = [NoQuery EXCEPT !.on = TRUE, !.max = max]
  /\ UNCHANGED answer

Largest == CHOOSE m \in Limits : \A n \in Limits : n <= m

\* The report stays at the table it is at.
ReportsAgain == Stage("describe", Largest) /\ UNCHANGED todo

\* The report looks for a table after the last one.
ReportsOneMore ==
  /\ todo' = todo - 1
  /\ IF todo = 0 THEN Returns("rows") ELSE Stage("describe", Largest)

\* One line of the freshness report, and the next table.
Reported ==
  /\ todo' = todo - 1
  /\ IF todo = 1 THEN Returns("rows") ELSE Stage("describe", Largest)

\* How the query of a stage ended: "ok", "policy" (TrinoQueryError: refused,
\* failed on the engine, an HTTP error) or "error" (everything else).
Fails(how) ==
  /\ how # "ok"
  /\ Returns(IF how = "policy" THEN "refused" ELSE "error")
  /\ UNCHANGED todo

Raises == Returns("raised") /\ UNCHANGED todo

RunEnds(how) ==
  \/ Fails(how)
  \/ how = "ok" /\ Returns("rows") /\ UNCHANGED todo

TableProfileEnds(how, rows) ==
  \/ Fails(how)
  \/ /\ how = "ok" /\ tool.stage = "describe" /\ rows > 0
     /\ \/ Raises
        \/ Stage("aggregate", 1) /\ UNCHANGED todo
  \/ /\ how = "ok" /\ (tool.stage = "aggregate" \/ rows = 0)
     /\ Returns("rows") /\ UNCHANGED todo

\* A table whose columns or newest value cannot be read has a line that says
\* so; a table or a column whose name is no identifier ends the whole report.
FreshnessEnds(how, rows) ==
  \/ tool.stage = "tables" /\ Fails(how)
  \/ /\ tool.stage = "tables" /\ how = "ok"
     /\ todo' = rows
     /\ IF rows = 0 THEN Returns("rows") ELSE Stage("describe", Largest)
  \/ /\ tool.stage = "describe"
     /\ \/ Reported
        \/ how = "ok" /\ Stage("latest", 1) /\ UNCHANGED todo
        \/ Raises
  \/ tool.stage = "latest" /\ Reported

Ends(how, rows) ==
  CASE tool.name = "run" -> RunEnds(how)
    [] tool.name = "table_profile" -> TableProfileEnds(how, rows)
    [] OTHER -> FreshnessEnds(how, rows)

(***************************************************************************)
(* query(): one action per answer to the POST or to a poll.                *)
(***************************************************************************)
\* The engine takes the query when it is posted.
Running == IF query.posted THEN {engine}
           ELSE [st : {"running"}, rows : 0 .. MaxRows, sent : {0}, lost : {FALSE}]

Capped(n) == IF n > query.max THEN query.max ELSE n

\* A page with the address of the next one.
Page ==
  /\ query.on
  /\ \E e \in Running : \E k \in 0 .. e.rows - e.sent :
       /\ Capped(query.rows + k) < query.max
       /\ engine' = [e EXCEPT !.sent = @ + k]
       /\ query' = [query EXCEPT !.posted = TRUE, !.rows = Capped(@ + k)]
  /\ UNCHANGED <<tool, todo, answer>>

\* A full page, and the rest is left to the engine.
FullPageOnly ==
  /\ query.on
  /\ \E e \in Running : \E k \in 0 .. e.rows - e.sent :
       /\ Capped(query.rows + k) >= query.max
       /\ engine' = [e EXCEPT !.sent = @ + k]
       /\ Ends("ok", Capped(query.rows + k))

\* A page that fills the result: the rest is cancelled, as far as the engine
\* can be reached.
FullPage ==
  /\ query.on
  /\ \E e \in Running : \E k \in 0 .. e.rows - e.sent : \E lost \in BOOLEAN :
       /\ Capped(query.rows + k) >= query.max
       /\ engine' = [e EXCEPT !.sent = @ + k, !.lost = lost,
                              !.st = IF lost THEN "running" ELSE "cancelled"]
       /\ Ends("ok", Capped(query.rows + k))

LastPage ==
  /\ query.on
  /\ \E e \in Running :
       /\ engine' = [e EXCEPT !.sent = e.rows, !.st = "finished"]
       /\ Ends("ok", Capped(query.rows + e.rows - e.sent))

\* The engine reports that the query failed.
QueryFails == query.on /\ (\E e \in Running : engine' = [e EXCEPT !.st = "failed"]) /\ Ends("policy", 0)

\* An HTTP error (TrinoQueryError) or no answer at all; the engine may have
\* taken the query before.
RequestFails ==
  /\ query.on
  /\ \E e \in Running \cup {IF query.posted THEN engine ELSE NoEngine} : engine' = [e EXCEPT !.lost = TRUE]
  /\ \E how \in {"policy", "error"} : Ends(how, 0)

Next ==
  \/ \E max \in Limits : Call("run", "only", max)
  \/ Call("table_profile", "describe", Largest)
  \/ Call("freshness", "tables", Largest)
  \/ Page \/ FullPage \/ LastPage \/ QueryFails \/ RequestFails

\* The engine comes to the end of a query that is asked for again and again.
EngineAnswers == FullPage \/ LastPage \/ QueryFails \/ RequestFails
Fairness == WF_vars(EngineAnswers)

Spec == Init /\ [][Next]_vars /\ Fairness

(***************************************************************************)
(* Properties.                                                             *)
(***************************************************************************)
\* trino_reader.py cancels what it does not read: no query is left running on
\* the engine by a call that ended, but for one whose poll or whose cancellation
\* did not get through.
NothingLeftRunning == tool = Idle /\ engine.st = "running" => engine.lost

\* Every call is answered, if the engine ends its queries.
CallReturns == (tool # Idle) ~> (tool = Idle)
=============================================================================
