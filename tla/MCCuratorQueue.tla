--------------------------- MODULE MCCuratorQueue ---------------------------
(***************************************************************************)
(* The instances of CuratorQueue that TLC checks.                          *)
(***************************************************************************)
EXTENDS CuratorQueue

CONSTANTS loop, button, cron

\* The web server's background thread and its endpoint.
MCServerWorkers == {loop, button}
MCOneProcess == [w \in MCServerWorkers |-> "server"]

\* The background thread and the cron job.
MCTwoWorkers == {loop, cron}
MCTwoProcesses == [w \in MCTwoWorkers |-> IF w = cron THEN "cron" ELSE "server"]
=============================================================================
