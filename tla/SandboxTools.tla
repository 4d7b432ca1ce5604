---------------------------- MODULE SandboxTools ----------------------------
(***************************************************************************)
(* The two tools that run something on this machine                        *)
(* (sandbox/bash_exec.py, sandbox/security_tools.py).                      *)
(*                                                                         *)
(* sandbox_bash runs a command in a container of its own and removes it.   *)
(* sandbox_pentest_strix starts a program against a target that a policy   *)
(* allows; the policy is put together once, when the tools are made, with  *)
(* the addresses its denied names have then.  Names may move later, also   *)
(* between the check of a target and the moment strix, which is given the  *)
(* name, resolves it again.  Calls of one turn run in threads, so they     *)
(* overlap.                                                                *)
(***************************************************************************)
EXTENDS Integers

CONSTANTS
  Calls,            \* bound: calls of the tools
  Host, Addr,       \* names and addresses a target may have
  Metadata,         \* addresses no setting allows (_DEFAULT_DENY_CIDRS)
  Local,            \* addresses allowed by default (_DEFAULT_ALLOW_CIDRS)
  Allowances        \* values of STRIX_ALLOWED_TARGETS, {} for none

\* Lists of the policy hold names and addresses.
ASSUME PolicyAssumption ==
  /\ Metadata \cup Local \subseteq Addr
  /\ \A allow \in Allowances : allow \subseteq Host \cup Addr

VARIABLES
  policy,           \* StrixPolicy, and the interlock of the real cluster
  dns,              \* the addresses of the names now; {} is a failure
  real,             \* history: the denied names, and their addresses when the tools were made
  call,             \* step, tool and target of every call, and the addresses strix found
  containers,       \* containers on the machine, by the call that made them
  strix,            \* calls for which a strix process was started
  moved,            \* history: calls whose target's name has moved since it was checked
  trail,            \* audit records: <<call, allowed>>
  failed            \* calls during which docker failed

vars == <<policy, dns, real, call, containers, strix, moved, trail, failed>>

\* What _as_local_path and _split_target make of a target: a directory, inside
\* the tool's own or not, or a host with a good or a bad scheme, shape or port.
Target == [kind : {"inside", "outside"}] \cup [kind : {"web", "odd"}, host : Host \cup Addr]

Fresh == [pc |-> "new", tool |-> "none", target |-> [kind |-> "outside"], reached |-> {}]

TypeOK ==
  /\ policy \in [interlock : BOOLEAN, allow : SUBSET (Host \cup Addr), deny : SUBSET (Host \cup Addr)]
  /\ dns \in [Host -> SUBSET Addr]
  /\ call \in [Calls -> [pc : {"new", "wait", "remove", "check", "prepare", "done"},
                         tool : {"none", "bash", "strix"}, target : Target, reached : SUBSET Addr]]
  /\ UNION {containers, failed, strix, moved} \subseteq Calls
  /\ trail \subseteq Calls \X BOOLEAN

\* build_strix_policy: the setting replaces the default list; denied are the
\* metadata addresses, the names of the real systems and their addresses.
NamesOnly(interlock, allow, deny, now) ==
  [interlock |-> interlock, allow |-> IF allow = {} THEN Local ELSE allow, deny |-> Metadata \cup deny]

Policy(interlock, allow, deny, now) ==
  [interlock |-> interlock, allow |-> IF allow = {} THEN Local ELSE allow,
   deny |-> Metadata \cup deny \cup UNION {now[h] : h \in deny}]

Addresses(h) == IF h \in Addr THEN {h} ELSE dns[h]
AtMostOne == {{}} \cup {{a} : a \in Addr}

Init ==
  /\ dns \in [Host -> AtMostOne]
  /\ \E interlock \in BOOLEAN, allow \in Allowances, deny \in SUBSET Host :
       /\ policy = Policy(interlock, allow, deny, dns)
       /\ real = deny \cup UNION {dns[h] : h \in deny}
  /\ call = [c \in Calls |-> Fresh]
  /\ containers = {} /\ strix = {} /\ moved = {} /\ trail = {} /\ failed = {}

\* Calls with a target that passed the check and was not attacked yet.
Cleared(h) == {c \in Calls : /\ call[c].pc = "prepare" /\ call[c].target.kind = "web"
                             /\ call[c].target.host = h}

NameMoves(h, as) ==
  /\ \E c \in Calls : call[c].pc # "done"
  /\ as # dns[h]
  /\ dns' = [dns EXCEPT ![h] = as]
  /\ moved' = moved \cup Cleared(h)
  /\ UNCHANGED <<policy, real, call, containers, strix, trail, failed>>

At(c, pc) == call[c].pc = pc
Goto(c, pc) == call' = [call EXCEPT ![c].pc = pc]
Record(c, allowed) == trail' = trail \cup {<<c, allowed>>}

(***************************************************************************)
(* sandbox_bash.                                                           *)
(***************************************************************************)
\* BashSandbox.run up to the container.  What is no command is refused, and so
\* is a call whose docker fails, before or after the container was made.
BashStart(c) ==
  /\ At(c, "new")
  /\ \/ /\ call' = [call EXCEPT ![c].pc = "wait", ![c].tool = "bash"]
        /\ containers' = containers \cup {c}
        /\ UNCHANGED <<trail, failed>>
     \/ /\ call' = [call EXCEPT ![c].pc = "done", ![c].tool = "bash"]
        /\ Record(c, FALSE)
        /\ \/ UNCHANGED <<containers, failed>>
           \/ containers' \in {containers, containers \cup {c}} /\ failed' = failed \cup {c}
  /\ UNCHANGED <<policy, dns, real, strix, moved>>

\* container.wait and its logs; a failure goes by the removal and out of the tool.
BashWaits(c) ==
  /\ At(c, "wait")
  /\ \E raises \in BOOLEAN :
       call' = [call EXCEPT ![c].pc = "remove", ![c].tool = IF raises THEN "none" ELSE @]
  /\ UNCHANGED <<policy, dns, real, containers, strix, moved, trail, failed>>

Finishes(c) ==
  /\ IF call[c].tool = "none" THEN UNCHANGED trail ELSE Record(c, TRUE)
  /\ Goto(c, "done")
  /\ UNCHANGED <<policy, dns, real, strix, moved>>

\* Nothing is removed when wait has raised.
RemovesWhatEnded(c) ==
  /\ At(c, "remove")
  /\ containers' = IF call[c].tool = "none" THEN containers ELSE containers \ {c}
  /\ UNCHANGED failed
  /\ Finishes(c)

\* The finally clause, whose own failure is swallowed, and the record.
BashRemoves(c) ==
  /\ At(c, "remove")
  /\ \/ containers' = containers \ {c} /\ UNCHANGED failed
     \/ UNCHANGED containers /\ failed' = failed \cup {c}
  /\ Finishes(c)

(***************************************************************************)
(* sandbox_pentest_strix.                                                  *)
(***************************************************************************)
\* _authorize_strix_target: a directory of the tool's own, or a web address
\* not denied by name, on the allow list, with addresses none of them denied.
Authorized(t) ==
  \/ t.kind = "inside"
  \/ /\ t.kind = "web"
     /\ t.host \notin policy.deny
     /\ t.host \in policy.allow
     /\ Addresses(t.host) # {}
     /\ Addresses(t.host) \cap policy.deny = {}

\* The interlock comes before the target.  What passes both goes on, unless
\* the program is not installed: that is not recorded.
StrixStart(c, t) ==
  /\ At(c, "new")
  /\ IF policy.interlock \/ ~Authorized(t)
       THEN /\ call' = [call EXCEPT ![c].pc = "done", ![c].tool = "strix"]
            /\ Record(c, FALSE)
       ELSE /\ \E pc \in {"prepare", "done"} :
                 call' = [call EXCEPT ![c] = [pc |-> pc, tool |-> "strix", target |-> t, reached |-> {}]]
            /\ UNCHANGED trail
  /\ UNCHANGED <<policy, dns, real, containers, strix, moved, failed>>

\* Its home and its environment, then the process, which is given the target as
\* it was named and resolves it itself; one that cannot be started or does not end
\* in time is recorded as refused.
StrixRuns(c) ==
  /\ At(c, "prepare")
  /\ \/ /\ strix' = strix \cup {c}
        /\ \E ended \in BOOLEAN : Record(c, ended)
        /\ call' = [call EXCEPT ![c].pc = "done", ![c].reached =
                     IF call[c].target.kind = "web" THEN Addresses(call[c].target.host) ELSE {}]
     \/ UNCHANGED strix /\ Record(c, FALSE) /\ Goto(c, "done")
  /\ UNCHANGED <<policy, dns, real, containers, moved, failed>>

Next ==
  \/ \E h \in Host, as \in AtMostOne : NameMoves(h, as)
  \/ \E c \in Calls : \/ BashStart(c) \/ BashWaits(c) \/ BashRemoves(c)
                      \/ \E t \in Target : StrixStart(c, t)
                      \/ StrixRuns(c)

Spec == Init /\ [][Next]_vars

(***************************************************************************)
(* Properties.                                                             *)
(***************************************************************************)
\* bash_exec.py, the finally clause: a container outlives its call only if
\* docker failed to make it or to remove it, whatever happened to the wait.
ContainersAreRemoved == \A c \in containers : At(c, "done") => c \in failed

\* security_tools.py, "deny always wins": strix is never given the name or the
\* address of a real system; and what it finds behind a name is no address such a
\* system had when the tools were made, though another name had moved to it before
\* the check.  Only a name that moves after its check escapes (the DNS TOCTOU
\* among the module's residual risks).
DenyWins ==
  \A c \in strix : call[c].target.kind = "web" =>
    /\ call[c].target.host \notin real \cup Metadata
    /\ call[c].reached \cap (real \cup Metadata) # {} => c \in moved
=============================================================================
