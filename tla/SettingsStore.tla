--------------------------- MODULE SettingsStore ---------------------------
(***************************************************************************)
(* The settings menu (settings_store.py): PUT /api/settings reads .env,    *)
(* replaces the lines of the requested keys and writes the whole file.     *)
(*                                                                         *)
(* The handlers run in the server's threads without a lock, and write_text *)
(* empties the file before it writes.  The server may be killed at any     *)
(* moment (the desktop shell does so to restart it).                       *)
(***************************************************************************)
EXTENDS FiniteSets

CONSTANTS
  Key,            \* keys of the catalog
  Secret,         \* those whose value is never sent to the browser
  Value,          \* values that may be set
  Blank,          \* the empty value; in the file: no line for the key
  Requests        \* PUT requests that may be under way together

VARIABLES
  env,            \* value of each key in the file
  others,         \* comments and other keys are in the file
  request,        \* each request: where it is, what it asks, what it will write
  torn            \* the file was read or left while it was empty

vars == <<env, others, request, torn>>

Entry == Value \cup {Blank}
NoLines == [k \in Key |-> Blank]
Idle == [pc |-> "idle", asked |-> NoLines, keys |-> {}, lines |-> NoLines,
         rest |-> FALSE, stale |-> FALSE]

TypeOK ==
  /\ env \in [Key -> Entry]
  /\ {others, torn} \subseteq BOOLEAN
  /\ request \in [Requests -> [pc : {"idle", "asked", "lines", "opened"}, asked : [Key -> Entry],
                               keys : SUBSET Key, lines : [Key -> Entry],
                               rest : BOOLEAN, stale : BOOLEAN]]

Init ==
  /\ env = NoLines
  /\ others = TRUE
  /\ request = [r \in Requests |-> Idle]
  /\ torn = FALSE

\* The keys a request changes: a blank secret means "as it is", and clearing a
\* key wins over setting it.
ToWrite(updates, clears) == {k \in DOMAIN updates : k \notin Secret \/ updates[k] # Blank} \cup clears

\* apply_updates: a request with a key outside the catalog or a control
\* character in a value is refused as a whole, one that changes nothing ends.
Put(r) ==
  /\ request[r].pc = "idle"
  /\ \E set, clears \in SUBSET Key : \E updates \in [set -> Entry] :
       /\ ToWrite(updates, clears) # {}
       /\ request' = [request EXCEPT
            ![r] = [Idle EXCEPT !.pc = "asked", !.keys = ToWrite(updates, clears),
                      !.asked = [k \in Key |-> IF k \in set \ clears THEN updates[k] ELSE Blank]]]
  /\ UNCHANGED <<env, others, torn>>

\* The file as it is now, with the lines of the request's keys replaced.
LinesAsked(r) == [k \in Key |-> IF k \in request[r].keys THEN request[r].asked[k] ELSE Blank]
Replaced(r) == [k \in Key |-> IF k \in request[r].keys THEN request[r].asked[k] ELSE env[k]]

Opened == {q \in Requests : request[q].pc = "opened"}

ReadLines(r) ==
  /\ request[r].pc = "asked"
  /\ request' = [request EXCEPT ![r].pc = "lines", ![r].lines = Replaced(r), ![r].rest = others]
  /\ torn' = (torn \/ Opened # {})
  /\ UNCHANGED <<env, others>>

\* The others that hold lines of an older file.
Outdated(r) ==
  [q \in Requests |-> IF q # r /\ request[q].pc \in {"lines", "opened"}
                      THEN [request[q] EXCEPT !.stale = TRUE] ELSE request[q]]

OpenFile(r) ==
  /\ request[r].pc = "lines"
  /\ env' = NoLines
  /\ others' = FALSE
  /\ request' = [Outdated(r) EXCEPT ![r].pc = "opened"]
  /\ UNCHANGED torn

\* Writes the lines of the catalog only.
WriteCatalog(r) ==
  /\ request[r].pc = "opened"
  /\ env' = request[r].lines
  /\ request' = [Outdated(r) EXCEPT ![r] = Idle]
  /\ UNCHANGED <<others, torn>>

WriteLines(r) ==
  /\ request[r].pc = "opened"
  /\ env' = request[r].lines
  /\ others' = request[r].rest
  /\ request' = [Outdated(r) EXCEPT ![r] = Idle]
  /\ UNCHANGED torn

Crash ==
  /\ \E r \in Requests : request[r].pc # "idle"
  /\ request' = [r \in Requests |-> Idle]
  /\ torn' = (torn \/ Opened # {})
  /\ UNCHANGED <<env, others>>

Next == (\E r \in Requests : Put(r) \/ ReadLines(r) \/ OpenFile(r) \/ WriteLines(r)) \/ Crash

Spec == Init /\ [][Next]_vars

(***************************************************************************)
(* Properties.                                                             *)
(***************************************************************************)
\* settings_store.py "comments and other keys are kept": requests that overlap
\* may undo each other's keys, but the rest of the file is lost only when it was
\* read, or its writer killed, between opening and writing.
RestIsKept == torn \/ Opened # {} \/ others

\* A save changes the keys it was asked to change and no other: a key that was
\* saved stays, unless another request wrote the file between this one's read
\* and its write.
OnlyAsAsked ==
  [][\A r \in Requests :
       request[r].pc = "lines" /\ request'[r].pc = "opened" /\ ~request[r].stale /\ ~torn
         => \A k \in Key \ request[r].keys : request[r].lines[k] = env[k]]_vars
=============================================================================
