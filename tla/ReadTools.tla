------------------------------ MODULE ReadTools ------------------------------
(***************************************************************************)
(* The tools that read: tools/k8s_read.py, multicluster.py, jira_reader.py,*)
(* confluence_reader.py, fisheye_reader.py, source_reader.py and           *)
(* web_search.py, behind verb_validator.py and guarded_client.py.          *)
(*                                                                         *)
(* Every family wraps its tools in the same way and none of them quite     *)
(* alike: what a wrapper does with a refusal, with the error of its own    *)
(* service and with any other exception is a table here (Ends).  A tool is *)
(* the requests it sends, and what it does when one of them fails.         *)
(***************************************************************************)
EXTENDS Integers, Sequences

VARIABLES
  call,             \* the call that runs: tool, and how many requests it has made
  parts,            \* requests whose data is in the answer to be
  told,             \* requests whose failure is in the answer to be
  answer,           \* what the model gets
  record            \* what the audit log gets

vars == <<call, parts, told, answer, record>>

(***************************************************************************)
(* The requests of every tool, and what happens when one fails: "must"     *)
(* ends the call, "absent" takes a 404 for nothing, "again" asks for the   *)
(* log of the instance before, "skip" leaves out what the service refuses, *)
(* "each" puts the error in the place of the data, "text" gives what the   *)
(* remote command said, and "pipe" loses it in a pipe to head.  Most tools *)
(* are one request that must succeed.                                      *)
(***************************************************************************)
PodReads ==
  {"k8s_list_namespaces", "k8s_list_pods", "k8s_get_pod", "k8s_get_pod_logs", "k8s_list_events",
   "k8s_list_deployments", "k8s_get_deployment", "k8s_rollout_history", "k8s_list_services",
   "k8s_get_service"}

WorkloadReads ==
  {"k8s_list_statefulsets", "k8s_list_daemonsets", "k8s_list_jobs", "k8s_list_cronjobs",
   "k8s_list_ingresses", "k8s_list_pvcs", "k8s_list_endpoints", "k8s_list_replicasets"}

PolicyReads ==
  {"k8s_list_hpas", "k8s_list_pdbs", "k8s_list_networkpolicies", "k8s_list_serviceaccounts",
   "k8s_list_role_bindings", "k8s_list_cluster_role_bindings", "k8s_get_role"}

ClusterReads ==
  {"k8s_list_pvs", "k8s_list_resourcequotas", "k8s_get_node", "k8s_list_crds", "k8s_list_custom",
   "k8s_list_configmaps", "k8s_list_nodes"}

InventoryReads ==
  {"k8s_oss_inventory", "k8s_top_pods", "k8s_top_nodes", "k8s_cluster_info", "k8s_ping"}

\* The bindings of a namespace come with its roles, its quotas with its limit
\* ranges, and the inventory is of one namespace here: the namespaces, and its
\* three lists.
K8sSeveral ==
  [k8s_get_pod |-> <<"must", "must">>, k8s_get_pod_logs |-> <<"again">>,
   k8s_get_service |-> <<"must", "absent">>, k8s_list_role_bindings |-> <<"must", "must">>,
   k8s_list_resourcequotas |-> <<"must", "must">>,
   k8s_oss_inventory |-> <<"must", "skip", "skip", "skip">>,
   k8s_cluster_info |-> <<"must", "must", "must">>]

\* Two contexts.
ContextReads ==
  [k8s_list_contexts |-> <<>>, k8s_compare |-> <<"each", "each">>, k8s_read_at |-> <<"each">>]

JiraReads == [jira_get_issue |-> <<"must", "must">>, jira_search |-> <<"must">>]
ConfluenceReads == {"confluence_get_page", "confluence_search"}
FisheyeReads == [fisheye_get_review |-> <<"must", "must", "must">>]

SourceReads ==
  [src_list_dir |-> <<"pipe">>, src_read_file |-> <<"text">>, src_search |-> <<"pipe">>,
   src_find_files |-> <<"pipe">>, src_repo_log |-> <<"text">>]

WebReads == {"web_search", "web_fetch"}

K8sReads == PodReads \cup WorkloadReads \cup PolicyReads \cup ClusterReads \cup InventoryReads
AtlassianReads == DOMAIN JiraReads \cup ConfluenceReads \cup DOMAIN FisheyeReads

Tools == K8sReads \cup DOMAIN ContextReads \cup AtlassianReads \cup DOMAIN SourceReads \cup WebReads

Requests ==
  [tool \in Tools |->
     CASE tool \in DOMAIN K8sSeveral -> K8sSeveral[tool]
       [] tool \in DOMAIN ContextReads -> ContextReads[tool]
       [] tool \in DOMAIN JiraReads -> JiraReads[tool]
       [] tool \in DOMAIN FisheyeReads -> FisheyeReads[tool]
       [] tool \in DOMAIN SourceReads -> SourceReads[tool]
       [] OTHER -> <<"must">>]

Family(tool) ==
  CASE tool \in DOMAIN ContextReads -> "contexts"
    [] tool \in AtlassianReads -> "atlassian"
    [] tool \in DOMAIN SourceReads -> "source"
    [] tool \in WebReads -> "web"
    [] OTHER -> "k8s"

None == "none"
NoCall == [tool |-> None, made |-> 0]

TypeOK ==
  /\ call.tool \in Tools \cup {None} /\ call.made \in 0 .. 4
  /\ parts \cup told \subseteq 1 .. 4
  /\ answer \in {None, "data", "error", "refused"}
  /\ record \in {None, "allowed", "refused"}

Init == call = NoCall /\ parts = {} /\ told = {} /\ answer = None /\ record = None

(***************************************************************************)
(* The wrappers.                                                           *)
(***************************************************************************)
\* How a call ends: "verdict" is a refusal of the validator, "guard" one of
\* the transport, "service" the service's own error, "other" any other
\* exception, "data" the end of the tool.

\* The error of a Kubernetes call is its result, and recorded like one.
K8sRecord(how) == IF how \in {"verdict", "guard"} THEN "refused" ELSE "allowed"
ContextsRecord(how) == IF how = "verdict" THEN "refused" ELSE "allowed"

\* An error nobody expected goes without a record.
AtlassianRecord(how) ==
  CASE how = "data" -> "allowed"
    [] how = "other" -> None
    [] OTHER -> "refused"

SourceRecord(how) == IF how \in {"verdict", "service"} THEN "refused" ELSE "allowed"

\* Only what succeeds is recorded.
WebRecord(how) == IF how = "data" THEN "allowed" ELSE None

\* The wrapper of one family for all.
RecordAlike(family, how) == AtlassianRecord(how)

Record(family, how) ==
  CASE family = "k8s" -> K8sRecord(how)
    [] family = "contexts" -> ContextsRecord(how)
    [] family = "atlassian" -> AtlassianRecord(how)
    [] family = "source" -> SourceRecord(how)
    [] family = "web" -> WebRecord(how)

Answer(how) ==
  CASE how = "data" -> "data"
    [] how \in {"verdict", "guard"} -> "refused"
    [] OTHER -> "error"

Ends(how) ==
  /\ answer' = Answer(how)
  /\ record' = Record(Family(call.tool), how)
  /\ UNCHANGED <<call, parts, told>>

\* validate_tool_call: an argument it does not know or whose form is wrong.
Refused(tool) == answer' = "refused" /\ record' = Record(Family(tool), "verdict")

\* The tool itself, for a call that makes no sense to it: no issue key, a
\* pattern, a missing namespace, an address that is not public.
TurnedDown(tool) ==
  /\ tool \in {"k8s_compare", "k8s_read_at", "jira_get_issue", "confluence_get_page",
              "fisheye_get_review", "web_fetch"} \cup DOMAIN SourceReads
  /\ answer' = "error"
  /\ record' = Record(Family(tool), "service")

Call(tool) ==
  /\ call.tool = None \/ answer # None
  /\ call' = [tool |-> tool, made |-> 0]
  /\ parts' = {} /\ told' = {}
  /\ \/ answer' = None /\ record' = None
     \/ Refused(tool)
     \/ TurnedDown(tool)

Running == call.tool # None /\ answer = None
Request == Requests[call.tool][call.made + 1]
Pending == Running /\ call.made < Len(Requests[call.tool])

Asked == call' = [call EXCEPT !.made = @ + 1] /\ UNCHANGED <<answer, record>>
Got == Asked /\ parts' = parts \cup {call.made + 1} /\ UNCHANGED told
Says == Asked /\ told' = told \cup {call.made + 1} /\ UNCHANGED parts
LeavesOut == Asked /\ UNCHANGED <<parts, told>>

\* What fails is left out, whichever tool asked.
SkipsWhatFails == Pending /\ LeavesOut

(***************************************************************************)
(* A request and its outcome.                                              *)
(***************************************************************************)
Succeeds == Pending /\ Got

\* The service answers with an error of its own (ApiException, JiraError, ...).
ServiceFails ==
  /\ Pending
  /\ CASE Request = "skip" -> LeavesOut
       [] Request = "pipe" -> LeavesOut \/ Says
       [] Request \in {"each", "text"} -> Says
       [] OTHER -> Ends("service")

\* A 404 for the endpoints of a service: an empty list is what there is.
NotFound == Pending /\ Request = "absent" /\ Got

\* A 400 for the log of a container that has not started: the log of the
\* instance before is asked for, and its failure ends the call.
LogOfTheInstanceBefore ==
  /\ Pending /\ Request = "again"
  /\ Got \/ Ends("service") \/ Ends("other")

\* No answer at all, a time-out, or an answer that cannot be read.
Breaks == Pending /\ (IF Request = "each" THEN Says ELSE Ends("other"))

\* check_request_allowed: what is not a GET, or goes to a forbidden path, is
\* not sent.  The comparison of clusters takes it for an error of one of them.
GuardRefuses ==
  /\ Pending /\ Family(call.tool) \in {"k8s", "contexts"}
  /\ IF Request = "each" THEN Says ELSE Ends("guard")

\* The answer is put together, which may fail on data of an unknown shape.
Finish ==
  /\ Running /\ ~Pending
  /\ \/ Ends("data")
     \/ Family(call.tool) \in {"k8s", "atlassian"} /\ Ends("other")

Next ==
  \/ \E tool \in Tools : Call(tool)
  \/ Succeeds \/ ServiceFails \/ NotFound \/ LogOfTheInstanceBefore \/ Breaks
  \/ GuardRefuses \/ Finish

Spec == Init /\ [][Next]_vars

(***************************************************************************)
(* Properties.                                                             *)
(***************************************************************************)
\* An answer with data has the data of every request, or says which of them
\* failed: half of an issue or of a review is never given for the whole.  The
\* lists of the inventory of images (k8s_read.py:648) and remote commands in a
\* pipe (source_reader.py:79) are the exceptions.
NothingIsLeftOut ==
  answer = "data" =>
    \A i \in 1 .. Len(Requests[call.tool]) :
      i \in parts \cup told \/ Requests[call.tool][i] \in {"skip", "pipe"}

\* The audit log agrees with what was done: what is recorded as refused gave
\* no data, and a call that gave data or asked a service is recorded, but for
\* the exceptions that the Atlassian wrappers and failures that the web
\* wrapper answer without a record.
TrailAgrees ==
  answer # None =>
    /\ record = "refused" => answer # "data"
    /\ answer = "data" => record = "allowed"
    /\ record = None => Family(call.tool) \in {"atlassian", "web"} /\ answer # "data"
=============================================================================
