-------------------------- MODULE MCInspectorGraph --------------------------
(***************************************************************************)
(* The instances of InspectorGraph that TLC checks.                        *)
(***************************************************************************)
EXTENDS InspectorGraph

\* Two runs of one thread: enough to tell a kept result from a refused call.
MCThreadOutcomes == {"refused", "data"}

\* One run: every way the executor, the trace, the audit log and the
\* formatter can treat a call differently.
MCRunOutcomes == {"refused", "malformed", "blocked", "failed_log", "data"}
=============================================================================
