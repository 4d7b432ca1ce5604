------------------------------ MODULE WebProbe ------------------------------
(***************************************************************************)
(* The web testing tools (tools/web_test.py): one page, with redirects     *)
(* followed by hand so that every hop is authorised before it is asked.    *)
(*                                                                         *)
(* Where a page redirects to is up to the servers, and a name may move to  *)
(* another address at any time.  The name is resolved twice for a hop:     *)
(* once to authorise it, and again by httpx when the request is made; the  *)
(* addresses of the first only go into the answer.                         *)
(***************************************************************************)
EXTENDS Integers, Sequences

CONSTANTS
  Host, Addr,       \* names and addresses of the web
  DenyCidrs,        \* addresses that are never asked
  MaxRedirects

VARIABLES
  allow,            \* the white list; {} for none
  dns,              \* addresses of the names now; {} is a failure
  page,             \* the page that is asked for next, and whether the tool runs
  pinned,           \* its addresses when it was authorised; {} before that
  moved,            \* history: its name has moved since
  chain,            \* the hops asked for: page, its addresses then, and moved
  outcome           \* what the call was answered and recorded

vars == <<allow, dns, page, pinned, moved, chain, outcome>>

\* A page: a name or an address, with a form the tool takes or not (scheme,
\* user information, characters, port).
Page == [host : Host \cup Addr, form : BOOLEAN]
NoPage == [host |-> "none", form |-> FALSE]
AtMostOne == {{}} \cup {{a} : a \in Addr}

Addresses(h) == IF h \in Addr THEN {h} ELSE dns[h]

TypeOK ==
  /\ allow \subseteq Host \cup Addr
  /\ dns \in [Host -> AtMostOne]
  /\ page \in Page \cup {NoPage}
  /\ pinned \subseteq Addr /\ moved \in BOOLEAN
  /\ \A i \in DOMAIN chain : chain[i] \in [page : Page, ips : SUBSET Addr, moved : BOOLEAN]
  /\ outcome \in {"none", "page", "refused", "error"}

Init ==
  /\ allow \in {{}, Host, Addr}
  /\ dns \in [Host -> AtMostOne]
  /\ page = NoPage /\ pinned = {} /\ moved = FALSE /\ chain = <<>> /\ outcome = "none"

Moves(h, as) ==
  /\ page # NoPage /\ as # dns[h]
  /\ dns' = [dns EXCEPT ![h] = as]
  /\ moved' = (moved \/ (pinned # {} /\ page.host = h))
  /\ UNCHANGED <<allow, page, pinned, chain, outcome>>

\* web_probe, web_security_scan and web_links differ in the report only.
Call(p) ==
  /\ page = NoPage
  /\ page' = p /\ chain' = <<>> /\ outcome' = "none"
  /\ UNCHANGED <<allow, dns, pinned, moved>>

\* What was found, or that nothing was, goes back.
Returns(what) == page' = NoPage /\ outcome' = what

\* The first page only is authorised.
AuthorizedFirst(p) ==
  \/ chain # <<>>
  \/ p.form /\ Addresses(p.host) # {} /\ Addresses(p.host) \cap DenyCidrs = {}

\* _authorize_web_target.
Authorized(p) ==
  /\ p.form
  /\ allow # {} => p.host \in allow
  /\ Addresses(p.host) # {}
  /\ Addresses(p.host) \cap DenyCidrs = {}

\* _fetch, the first half of a hop: the page is authorised.
Authorize ==
  /\ page # NoPage /\ pinned = {} /\ Len(chain) <= MaxRedirects /\ Authorized(page)
  /\ pinned' = Addresses(page.host)
  /\ UNCHANGED <<allow, dns, page, moved, chain, outcome>>

\* The second half: the name is resolved again and asked, for the page, a
\* redirect, or no answer.
Request ==
  /\ pinned # {}
  /\ \/ /\ Addresses(page.host) # {}
        /\ chain' = Append(chain, [page |-> page, ips |-> Addresses(page.host), moved |-> moved])
        /\ \/ Returns("page")
           \/ Returns("error")
           \/ page' \in Page /\ UNCHANGED outcome
     \/ Returns("error") /\ UNCHANGED chain
  /\ pinned' = {} /\ moved' = FALSE
  /\ UNCHANGED <<allow, dns>>

\* A page that is not authorised, or one redirect too many.
Refused ==
  /\ page # NoPage /\ pinned = {}
  /\ Len(chain) > MaxRedirects \/ ~Authorized(page)
  /\ Returns("refused")
  /\ UNCHANGED <<allow, dns, pinned, moved, chain>>

Next ==
  \/ \E h \in Host, as \in AtMostOne : Moves(h, as)
  \/ \E p \in Page : Call(p)
  \/ Authorize \/ Request \/ Refused

Spec == Init /\ [][Next]_vars

\* web_test.py, "every hop": however servers redirect, no page is asked for that
\* the tool does not take or that is off the white list, a call asks for its first
\* page and at most MaxRedirects others, and a hop goes to a denied address only
\* if its name moved there after it was authorised (it is resolved again).
EveryHopIsAuthorized ==
  /\ Len(chain) <= MaxRedirects + 1
  /\ \A i \in DOMAIN chain :
       /\ chain[i].page.form
       /\ allow # {} => chain[i].page.host \in allow
       /\ chain[i].ips \cap DenyCidrs # {} => chain[i].moved
=============================================================================
