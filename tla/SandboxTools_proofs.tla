------------------------ MODULE SandboxTools_proofs ------------------------
(***************************************************************************)
(* What is proved of the two tools that run something, for every number of *)
(* calls, every network, and every setting of the policy.                  *)
(***************************************************************************)
EXTENDS SandboxTools, TLAPS

\* A call is where it is, and knows its target.
CallInv ==
  call \in [Calls -> [pc : {"new", "wait", "remove", "check", "prepare", "done"},
                      tool : {"none", "bash", "strix"}, target : Target, reached : SUBSET Addr]]

\* The policy was made with the names and addresses of the real systems.
PolicyInv == real \cup Metadata \subseteq policy.deny

\* The name of the target is not denied; neither is an address of it, unless the
\* name has moved since the check.
NotDenied(c, addresses) ==
  call[c].target.kind = "web" =>
    /\ call[c].target.host \notin policy.deny
    /\ c \in moved \/ addresses \cap policy.deny = {}

\* That holds of the addresses now until the process is started, and of those it
\* found afterwards.
StrixInv ==
  /\ \A c \in Calls : At(c, "prepare") => NotDenied(c, Addresses(call[c].target.host))
  /\ strix \subseteq Calls
  /\ \A c \in strix : At(c, "done") /\ NotDenied(c, call[c].reached)

\* A container belongs to a call that waits for it, removes it, or has failed to.
ContainerInv ==
  /\ containers \subseteq Calls
  /\ \A c \in containers :
       \/ At(c, "wait") \/ At(c, "remove")
       \/ At(c, "done") /\ c \in failed

\* Names have addresses of the network.
DnsInv == dns \in [Host -> SUBSET Addr]

IndInv == CallInv /\ DnsInv /\ PolicyInv /\ StrixInv /\ ContainerInv

LEMMA InitInv == Init => IndInv
<1> SUFFICES ASSUME Init PROVE IndInv
  OBVIOUS
<1>1. CallInv
  BY DEF Init, CallInv, Fresh, Target
<1>2. PolicyInv
  BY DEF Init, PolicyInv, Policy
<1>3. StrixInv /\ ContainerInv
  BY DEF Init, StrixInv, ContainerInv, At, Fresh
<1>4. DnsInv
  BY DEF Init, DnsInv, AtMostOne
<1> QED
  BY <1>1, <1>2, <1>3, <1>4 DEF IndInv

\* What _authorize_strix_target lets through is denied under none of its names.
LEMMA AddressesCleared ==
  ASSUME NEW t \in Target, Authorized(t), t.kind = "web"
  PROVE  t.host \notin policy.deny /\ Addresses(t.host) \cap policy.deny = {}
  BY DEF Authorized, Target

\* A call that goes on keeps its tool and its target, and so do the others.
LEMMA GotoCall ==
  ASSUME CallInv, NEW c \in Calls, NEW p \in {"wait", "remove", "prepare", "done"}, Goto(c, p)
  PROVE  /\ CallInv'
         /\ \A d \in Calls : call'[d] = IF d = c THEN [call[c] EXCEPT !.pc = p] ELSE call[d]
         /\ \A d \in Calls : call'[d].target = call[d].target /\ call'[d].reached = call[d].reached
         /\ \A d \in Calls : call'[d].pc = IF d = c THEN p ELSE call[d].pc
  BY DEF CallInv, Goto

LEMMA NameMovesStep ==
  ASSUME IndInv, NEW h \in Host, NEW as \in AtMostOne, NameMoves(h, as)
  PROVE  IndInv'
<1> USE DEF IndInv
<1>1. DnsInv'
  BY DEF DnsInv, NameMoves, AtMostOne
<1>2. UNCHANGED <<policy, real, call, containers, strix, trail, failed>>
  BY DEF NameMoves
<1>3. ASSUME NEW c \in Calls, At(c, "prepare")
      PROVE  NotDenied(c, Addresses(call[c].target.host))'
  <2>1. NotDenied(c, Addresses(call[c].target.host))
    BY <1>3 DEF StrixInv
  <2>2. CASE call[c].target.kind = "web" /\ call[c].target.host = h
    <3>1. c \in moved'
      BY <1>3, <2>2 DEF NameMoves, Cleared, At
    <3> QED
      BY <1>2, <2>1, <2>2, <3>1 DEF NotDenied
  <2>3. CASE call[c].target.kind = "web" /\ call[c].target.host # h
    <3>1. call[c].target.host \in Host \cup Addr
      BY <2>3 DEF CallInv, Target
    <3>2. Addresses(call[c].target.host)' = Addresses(call[c].target.host)
      BY <1>2, <2>3, <3>1 DEF Addresses, NameMoves, DnsInv
    <3>3. c \in moved => c \in moved'
      BY DEF NameMoves
    <3> QED
      BY <1>2, <2>1, <3>2, <3>3 DEF NotDenied
  <2> QED
    BY <1>2, <2>2, <2>3 DEF NotDenied
<1>4. \A c \in strix : NotDenied(c, call[c].reached) => NotDenied(c, call[c].reached)'
  BY <1>2 DEF NotDenied, NameMoves
<1> QED
  BY <1>1, <1>2, <1>3, <1>4 DEF CallInv, PolicyInv, StrixInv, ContainerInv, At

LEMMA BashStartStep ==
  ASSUME IndInv, NEW c \in Calls, BashStart(c)
  PROVE  IndInv'
<1> USE DEF IndInv
<1>1. UNCHANGED <<policy, dns, real, strix, moved>> /\ call[c].pc = "new"
  BY DEF BashStart, At
<1>2. PICK p \in {"wait", "done"} : call' = [call EXCEPT ![c].pc = p, ![c].tool = "bash"]
  BY DEF BashStart
<1>3. /\ CallInv'
      /\ \A d \in Calls : call'[d].target = call[d].target /\ call'[d].reached = call[d].reached
      /\ \A d \in Calls : call'[d].pc = IF d = c THEN p ELSE call[d].pc
  BY <1>2 DEF CallInv
<1>4. StrixInv' /\ PolicyInv' /\ DnsInv'
  BY <1>1, <1>3 DEF StrixInv, PolicyInv, DnsInv, At, NotDenied, Addresses
<1>5. c \notin containers
  BY <1>1 DEF ContainerInv, At
<1>6. ContainerInv'
  <2>1. CASE /\ call' = [call EXCEPT ![c].pc = "wait", ![c].tool = "bash"]
             /\ containers' = containers \cup {c} /\ failed' = failed
    <3>1. call'[c].pc = "wait"
      BY <2>1 DEF CallInv
    <3> QED
      BY <2>1, <3>1, <1>3, <1>5 DEF ContainerInv, At
  <2>2. CASE /\ call' = [call EXCEPT ![c].pc = "done", ![c].tool = "bash"]
             /\ \/ containers' = containers /\ failed' = failed
                \/ containers' \in {containers, containers \cup {c}} /\ failed' = failed \cup {c}
    <3>1. call'[c].pc = "done"
      BY <2>2 DEF CallInv
    <3> QED
      BY <2>2, <3>1, <1>3, <1>5 DEF ContainerInv, At
  <2> QED
    BY <2>1, <2>2 DEF BashStart
<1> QED
  BY <1>3, <1>4, <1>6

LEMMA BashWaitsStep ==
  ASSUME IndInv, NEW c \in Calls, BashWaits(c)
  PROVE  IndInv'
<1> USE DEF IndInv
<1>1. UNCHANGED <<policy, dns, real, containers, strix, moved, failed>> /\ call[c].pc = "wait"
  BY DEF BashWaits, At
<1>2. PICK raises \in BOOLEAN :
        call' = [call EXCEPT ![c].pc = "remove", ![c].tool = IF raises THEN "none" ELSE @]
  BY DEF BashWaits
<1>3. /\ CallInv'
      /\ \A d \in Calls : call'[d].target = call[d].target /\ call'[d].reached = call[d].reached
      /\ \A d \in Calls : call'[d].pc = IF d = c THEN "remove" ELSE call[d].pc
  BY <1>2 DEF CallInv
<1> QED
  BY <1>1, <1>3 DEF StrixInv, PolicyInv, DnsInv, ContainerInv, At, NotDenied, Addresses

LEMMA BashRemovesStep ==
  ASSUME IndInv, NEW c \in Calls, BashRemoves(c)
  PROVE  IndInv'
<1> USE DEF IndInv
<1>1. UNCHANGED <<policy, dns, real, strix, moved>> /\ call[c].pc = "remove" /\ Goto(c, "done")
  BY DEF BashRemoves, Finishes, At
<1>2. /\ CallInv'
      /\ \A d \in Calls : call'[d].target = call[d].target /\ call'[d].reached = call[d].reached
      /\ \A d \in Calls : call'[d].pc = IF d = c THEN "done" ELSE call[d].pc
  BY <1>1, GotoCall
<1>3. StrixInv' /\ PolicyInv' /\ DnsInv'
  BY <1>1, <1>2 DEF StrixInv, PolicyInv, DnsInv, At, NotDenied, Addresses
<1>4. ContainerInv'
  BY <1>2 DEF ContainerInv, BashRemoves, At
<1> QED
  BY <1>2, <1>3, <1>4

LEMMA StrixStartStep ==
  ASSUME IndInv, NEW c \in Calls, NEW t \in Target, StrixStart(c, t)
  PROVE  IndInv'
<1> USE DEF IndInv
<1>1. UNCHANGED <<policy, dns, real, containers, strix, moved, failed>> /\ call[c].pc = "new"
  BY DEF StrixStart, At
<1>2. c \notin containers /\ c \notin strix
  BY <1>1 DEF ContainerInv, StrixInv, At
<1>3. CASE policy.interlock \/ ~Authorized(t)
  <2>1. call' = [call EXCEPT ![c].pc = "done", ![c].tool = "strix"]
    BY <1>3 DEF StrixStart
  <2>2. /\ CallInv'
        /\ \A d \in Calls : call'[d].target = call[d].target /\ call'[d].reached = call[d].reached
        /\ \A d \in Calls : call'[d].pc = IF d = c THEN "done" ELSE call[d].pc
    BY <2>1 DEF CallInv
  <2> QED
    BY <1>1, <1>2, <2>2 DEF PolicyInv, DnsInv, StrixInv, ContainerInv, At, NotDenied, Addresses
<1>4. CASE ~(policy.interlock \/ ~Authorized(t))
  <2>1. PICK pc \in {"prepare", "done"} :
          call' = [call EXCEPT ![c] = [pc |-> pc, tool |-> "strix", target |-> t, reached |-> {}]]
    BY <1>4 DEF StrixStart
  <2>2. CallInv'
    BY <2>1 DEF CallInv
  <2>3. /\ call'[c].pc = pc /\ call'[c].target = t
        /\ \A d \in Calls : d # c => call'[d] = call[d]
    BY <2>1 DEF CallInv
  <2>4. NotDenied(c, Addresses(call[c].target.host))'
    BY <1>1, <1>4, <2>3, AddressesCleared DEF NotDenied, Addresses
  <2>5. \A d \in Calls : d # c =>
          /\ NotDenied(d, Addresses(call[d].target.host)) => NotDenied(d, Addresses(call[d].target.host))'
          /\ NotDenied(d, call[d].reached) => NotDenied(d, call[d].reached)'
    BY <1>1, <2>3 DEF NotDenied, Addresses
  <2> QED
    BY <1>1, <1>2, <2>2, <2>3, <2>4, <2>5 DEF PolicyInv, DnsInv, StrixInv, ContainerInv, At
<1> QED
  BY <1>3, <1>4

LEMMA StrixRunsStep ==
  ASSUME IndInv, NEW c \in Calls, StrixRuns(c)
  PROVE  IndInv'
<1> USE DEF IndInv
<1>1. UNCHANGED <<policy, dns, real, containers, moved, failed>> /\ call[c].pc = "prepare"
  BY DEF StrixRuns, At
<1> DEFINE found == IF call[c].target.kind = "web" THEN Addresses(call[c].target.host) ELSE {}
<1>2. NotDenied(c, Addresses(call[c].target.host)) /\ c \notin strix
  BY <1>1 DEF StrixInv, At
<1>3. CASE strix' = strix \cup {c} /\ call' = [call EXCEPT ![c].pc = "done", ![c].reached = found]
  <2>1. found \in SUBSET Addr
    <3>1. call[c].target.kind = "web" => call[c].target.host \in Host \cup Addr
      BY DEF CallInv, Target
    <3> QED
      BY <3>1 DEF Addresses, DnsInv
  <2>2. call[c].target.kind = "web" => found = Addresses(call[c].target.host)
    OBVIOUS
  <2> HIDE DEF found
  <2>3. /\ CallInv'
        /\ \A d \in Calls : call'[d].target = call[d].target
        /\ \A d \in Calls : call'[d].reached = IF d = c THEN found ELSE call[d].reached
        /\ \A d \in Calls : call'[d].pc = IF d = c THEN "done" ELSE call[d].pc
    BY <1>3, <2>1 DEF CallInv
  <2>4. NotDenied(c, call[c].reached)'
    BY <1>1, <1>2, <2>2, <2>3 DEF NotDenied
  <2>5. \A d \in Calls : d # c =>
          /\ NotDenied(d, Addresses(call[d].target.host)) => NotDenied(d, Addresses(call[d].target.host))'
          /\ NotDenied(d, call[d].reached) => NotDenied(d, call[d].reached)'
    BY <1>1, <2>3 DEF NotDenied, Addresses
  <2>6. strix' = strix \cup {c}
    BY <1>3
  <2>7. StrixInv'
    BY <1>1, <1>2, <2>3, <2>4, <2>5, <2>6 DEF StrixInv, At
  <2>8. ContainerInv'
    BY <1>1, <2>3 DEF ContainerInv, At
  <2> QED
    BY <1>1, <2>3, <2>7, <2>8 DEF PolicyInv, DnsInv
<1>4. CASE strix' = strix /\ Goto(c, "done")
  <2>1. /\ CallInv'
        /\ \A d \in Calls : call'[d].target = call[d].target /\ call'[d].reached = call[d].reached
        /\ \A d \in Calls : call'[d].pc = IF d = c THEN "done" ELSE call[d].pc
    BY <1>4, GotoCall
  <2> QED
    BY <1>1, <1>2, <1>4, <2>1 DEF PolicyInv, DnsInv, StrixInv, ContainerInv, At, NotDenied, Addresses
<1> QED
  BY <1>3, <1>4 DEF StrixRuns

LEMMA InvStep == IndInv /\ [Next]_vars => IndInv'
<1> SUFFICES ASSUME IndInv, [Next]_vars PROVE IndInv'
  OBVIOUS
<1>1. CASE UNCHANGED vars
  BY <1>1 DEF vars, IndInv, CallInv, DnsInv, PolicyInv, StrixInv, ContainerInv, At, NotDenied, Addresses
<1>2. CASE Next
  BY <1>2, NameMovesStep, BashStartStep, BashWaitsStep, BashRemovesStep, StrixStartStep,
     StrixRunsStep DEF Next
<1> QED
  BY <1>1, <1>2

THEOREM Invariance == Spec => []IndInv
<1> QED
  BY InitInv, InvStep, PTL DEF Spec

\* bash_exec.py, the finally clause: a container outlives its call only if docker
\* failed to make it or to remove it, for every number of calls that overlap.
THEOREM NoContainerIsLeft == Spec => []ContainersAreRemoved
<1>1. IndInv => ContainersAreRemoved
  BY DEF IndInv, ContainerInv, ContainersAreRemoved, At
<1> QED
  BY <1>1, Invariance, PTL

\* security_tools.py, the deny list: for every network, every way names move, and
\* every allow list, strix is never given what is denied, and finds an address that
\* is denied only behind a name that has moved since it was checked.
THEOREM NeverAgainstRealSystems == Spec => []DenyWins
<1>1. IndInv => DenyWins
  BY DEF IndInv, PolicyInv, StrixInv, DenyWins, NotDenied
<1> QED
  BY <1>1, Invariance, PTL

\* What the other invariants do not say of the types.
RestInv ==
  /\ policy \in [interlock : BOOLEAN, allow : SUBSET (Host \cup Addr), deny : SUBSET (Host \cup Addr)]
  /\ trail \subseteq Calls \X BOOLEAN /\ failed \cup moved \subseteq Calls

LEMMA RestInit == Init => RestInv
<1> SUFFICES ASSUME Init PROVE RestInv
  OBVIOUS
<1>1. PICK interlock \in BOOLEAN, allow \in Allowances, deny \in SUBSET Host :
        policy = Policy(interlock, allow, deny, dns)
  BY DEF Init
<1>2. UNION {dns[h] : h \in deny} \subseteq Addr
  BY DEF Init, AtMostOne
<1>3. allow \subseteq Host \cup Addr
  BY PolicyAssumption
<1>4. policy \in [interlock : BOOLEAN, allow : SUBSET (Host \cup Addr), deny : SUBSET (Host \cup Addr)]
  BY <1>1, <1>2, <1>3, PolicyAssumption DEF Policy
<1> QED
  BY <1>4 DEF Init, RestInv

LEMMA RecordType ==
  ASSUME trail \subseteq Calls \X BOOLEAN, NEW c \in Calls, NEW b \in BOOLEAN, Record(c, b)
  PROVE  trail' \subseteq Calls \X BOOLEAN
<1>1. <<c, b>> \in Calls \X BOOLEAN
  OBVIOUS
<1> QED
  BY <1>1 DEF Record

LEMMA RestStep == RestInv /\ [Next]_vars => RestInv'
<1> SUFFICES ASSUME RestInv, [Next]_vars PROVE RestInv'
  OBVIOUS
<1> USE DEF RestInv
<1>1. ASSUME NEW h \in Host, NEW as \in AtMostOne, NameMoves(h, as) PROVE RestInv'
  BY <1>1 DEF NameMoves, Cleared
<1>2. ASSUME NEW c \in Calls, BashStart(c) \/ BashWaits(c) \/ BashRemoves(c) PROVE RestInv'
  BY <1>2, RecordType DEF BashStart, BashWaits, BashRemoves, Finishes
<1>3. ASSUME NEW c \in Calls, NEW t \in Target, StrixStart(c, t) PROVE RestInv'
  BY <1>3, RecordType DEF StrixStart
<1>4. ASSUME NEW c \in Calls, StrixRuns(c) PROVE RestInv'
  BY <1>4, RecordType DEF StrixRuns
<1>5. CASE UNCHANGED vars
  BY <1>5 DEF vars
<1> QED
  BY <1>1, <1>2, <1>3, <1>4, <1>5 DEF Next

LEMMA TypeOf == RestInv /\ IndInv => TypeOK
  BY DEF RestInv, IndInv, CallInv, DnsInv, StrixInv, ContainerInv, TypeOK

\* bash_exec.py, security_tools.py: calls, containers and records keep their form
\* whatever docker, the network and the target do.
THEOREM TypeCorrect == Spec => []TypeOK
  BY RestInit, RestStep, Invariance, TypeOf, PTL DEF Spec
=============================================================================
