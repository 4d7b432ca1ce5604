------------------------ MODULE InspectorGraph_proofs ------------------------
(***************************************************************************)
(* What is proved of the conversation loop, for every budget, batch size,  *)
(* number of runs and set of outcomes.                                     *)
(***************************************************************************)
EXTENDS InspectorGraph, SequenceTheorems, WellFoundedInduction, TLAPS

(***************************************************************************)
(* The messages and what is computed from them.                            *)
(***************************************************************************)

LEMMA HumanMessageType ==
  ASSUME NEW r \in Nat
  PROVE  /\ HumanMessage(r) \in Message
         /\ HumanMessage(r).role = "human"
         /\ HumanMessage(r).calls = <<>>
         /\ HumanMessage(r).run = r
<1>1. <<>> \in Seq(Nat)
  OBVIOUS
<1> QED
  BY <1>1 DEF HumanMessage, Message

LEMMA AIMessageType ==
  ASSUME NEW r \in Nat, NEW ids \in Seq(Nat), NEW text \in {"empty", "text"}
  PROVE  AIMessage(r, ids, text) \in Message
  BY DEF AIMessage, Message

LEMMA ToolMessageType ==
  ASSUME NEW r \in Nat, NEW id \in Nat, NEW text \in Outcome
  PROVE  ToolMessage(r, id, text) \in Message
<1>1. <<>> \in Seq(Nat)
  OBVIOUS
<1>2. text \in {"empty", "text", "cancelled"} \union Outcome
  OBVIOUS
<1> QED
  BY <1>1, <1>2, Zenon DEF ToolMessage, Message

LEMMA MessageFields ==
  ASSUME NEW m \in Message
  PROVE  /\ m.role \in {"human", "ai", "tool"}
         /\ m.run \in Nat
         /\ m.calls \in Seq(Nat)
         /\ m.answers \in Nat
         /\ m.content \in {"empty", "text", "cancelled"} \union Outcome
  BY Zenon DEF Message

LEMMA LastMessageType ==
  ASSUME messages \in Seq(Message), messages # <<>>
  PROVE  /\ LastMessage \in Message
         /\ LastMessage.calls \in Seq(Nat)
         /\ Len(LastMessage.calls) \in Nat
<1>1. Len(messages) \in 1..Len(messages)
  BY EmptySeq
<1>2. LastMessage \in Message
  BY <1>1, ElementOfSeq DEF LastMessage
<1>3. LastMessage.calls \in Seq(Nat)
  BY <1>2, MessageFields
<1> QED
  BY <1>2, <1>3

\* A non-empty set of positions of a sequence has a last one.
LEMMA LastPosition ==
  ASSUME NEW n \in Nat, NEW S \in SUBSET (1..n), S # {}
  PROVE  \E i \in S : \A j \in S : j <= i
<1> DEFINE D == {n - i : i \in S}
<1>1. D \in SUBSET Nat
  OBVIOUS
<1>2. D # {}
  <2>1. PICK i \in S : TRUE
    OBVIOUS
  <2>2. n - i \in D
    BY <2>1
  <2> QED
    BY <2>2
<1>3. PICK d \in D : \A e \in D : ~(<<e, d>> \in OpToRel(<, Nat))
  BY <1>1, <1>2, NatLessThanWellFounded, WFMin, Zenon
<1>4. \A e \in D : d <= e
  <2> SUFFICES ASSUME NEW e \in D, e < d PROVE FALSE
    BY <1>1
  <2>1. e \in Nat /\ d \in Nat
    BY <1>1
  <2> HIDE DEF D
  <2>2. <<e, d>> \in OpToRel(<, Nat)
    BY <2>1 DEF OpToRel
  <2> QED
    BY <1>3, <2>2
<1>5. PICK i \in S : d = n - i
  OBVIOUS
<1>6. \A j \in S : j <= i
  <2> TAKE j \in S
  <2>1. n - j \in D
    OBVIOUS
  <2>2. d <= n - j
    BY <1>4, <2>1
  <2> HIDE DEF D
  <2> QED
    BY <1>5, <2>2
<1> QED
  BY <1>6

LEMMA FinalAnswerType ==
  ASSUME NEW msgs \in Seq(Message), NEW r \in Nat
  PROVE  FinalAnswer(msgs, r) \in Answer
<1> DEFINE own == Plain(msgs)
           last == CHOOSE i \in own : \A j \in own : j <= i
<1>1. own \in SUBSET (1..Len(msgs))
  BY DEF Plain
<1>2. own # {} => last \in own
  BY <1>1, LastPosition, Len(msgs) \in Nat
<1>3. own # {} => msgs[last].run \in Nat
  BY <1>1, <1>2, ElementOfSeq, MessageFields
<1> QED
  BY <1>3 DEF FinalAnswer, Answer

LEMMA RouteType ==
  ASSUME NEW reply, NEW trace
  PROVE  RouteAfterPlanner(reply, trace) \in {"executor", "wiki_writer"}
  BY DEF RouteAfterPlanner

\* The ids of the calls of a new reply.
LEMMA FreshIds ==
  ASSUME NEW p \in Nat, NEW k \in Nat
  PROVE  /\ [i \in 1..k |-> p + i] \in Seq(Nat)
         /\ Len([i \in 1..k |-> p + i]) = k
         /\ k = 0 <=> [i \in 1..k |-> p + i] = <<>>
         /\ ToSet([i \in 1..k |-> p + i]) \subseteq (p + 1)..(p + k)
<1> DEFINE ids == [i \in 1..k |-> p + i]
<1>1. \A i \in 1..k : p + i \in Nat
  OBVIOUS
<1>2. ids \in Seq(Nat)
  BY <1>1
<1>3. DOMAIN ids = 1..k
  OBVIOUS
<1>4. \A i \in 1..k : ids[i] = p + i
  OBVIOUS
<1> HIDE DEF ids
<1>5. Len(ids) = k
  BY <1>2, <1>3, LenProperties
<1>6. k = 0 <=> ids = <<>>
  BY <1>2, <1>5, EmptySeq
<1>7. \A i \in 1..k : ids[i] \in (p + 1)..(p + k)
  BY <1>4
<1>8. ToSet(ids) \subseteq (p + 1)..(p + k)
  BY <1>3, <1>7 DEF ToSet
<1> QED
  BY <1>2, <1>5, <1>6, <1>8 DEF ids

\* What one reply of the model is.
LEMMA ReplyType ==
  ASSUME NEW r \in Nat, NEW ids \in Seq(Nat), NEW text \in {"empty", "text"}
  PROVE  /\ AIMessage(r, ids, text) \in Message
         /\ AIMessage(r, ids, text).role = "ai"
         /\ AIMessage(r, ids, text).run = r
         /\ AIMessage(r, ids, text).calls = ids
         /\ AIMessage(r, ids, text).content = text
<1>1. AIMessage(r, ids, text) \in Message
  BY AIMessageType
<1> QED
  BY <1>1 DEF AIMessage

\* What a compaction leaves of the history.
LEMMA CompactedMessages ==
  /\ HumanMessage(0) \in Message /\ HumanMessage(0).role # "tool"
  /\ HumanMessage(0).calls = <<>> /\ HumanMessage(0).run = 0
  /\ AIMessage(0, <<>>, "text") \in Message /\ AIMessage(0, <<>>, "text").role # "tool"
  /\ AIMessage(0, <<>>, "text").calls = <<>> /\ AIMessage(0, <<>>, "text").run = 0
<1>1. <<>> \in Seq(Nat)
  OBVIOUS
<1> QED
  BY <1>1 DEF HumanMessage, AIMessage, Message

\* What the executor returns for a whole batch.
LEMMA BatchType ==
  ASSUME TypeOK, messages # <<>>, Len(batch) = Len(LastMessage.calls)
  PROVE  /\ TraceOf(LastMessage.calls) \in Seq(TraceEntry)
         /\ Len(TraceOf(LastMessage.calls)) = Len(batch)
         /\ \A i \in 1..Len(batch) : /\ batch[i] \in Outcomes
                                     /\ LastMessage.calls[i] \in Nat
         /\ [i \in 1..Len(batch) |-> ToolMessage(run, LastMessage.calls[i], batch[i])]
              \in Seq(Message)
<1>1. LastMessage.calls \in Seq(Nat) /\ Len(batch) \in Nat /\ run \in Nat
  BY LastMessageType, GraphAssumption DEF TypeOK
<1>2. \A i \in 1..Len(batch) : batch[i] \in Outcomes /\ LastMessage.calls[i] \in Nat
  BY <1>1, ElementOfSeq DEF TypeOK
<1>3. \A i \in 1..Len(batch) :
         ToolMessage(run, LastMessage.calls[i], batch[i]) \in Message
  BY <1>1, <1>2, ToolMessageType, GraphAssumption
<1>4. [i \in 1..Len(batch) |-> ToolMessage(run, LastMessage.calls[i], batch[i])]
        \in Seq(Message)
  BY <1>1, <1>3
<1>5. \A i \in 1..Len(batch) :
         [id |-> LastMessage.calls[i], allowed |-> TraceAllowed(batch[i]),
          error |-> TraceError(batch[i])] \in TraceEntry
  BY <1>2 DEF TraceEntry, TraceAllowed, TraceError
<1>6. /\ TraceOf(LastMessage.calls) \in Seq(TraceEntry)
      /\ Len(TraceOf(LastMessage.calls)) = Len(batch)
  BY <1>1, <1>5 DEF TraceOf
<1> QED
  BY <1>2, <1>4, <1>6

(***************************************************************************)
(* Flattening, by induction over the length: a property of all numbers is  *)
(* shown by looking at the least one that lacks it.                        *)
(***************************************************************************)

\* A set of numbers has a least one.
LEMMA LeastNumber ==
  ASSUME NEW T \in SUBSET Nat, T # {}
  PROVE  \E n \in T : \A m \in T : n <= m
<1>1. PICK n \in T : \A m \in T : ~(<<m, n>> \in OpToRel(<, Nat))
  BY NatLessThanWellFounded, WFMin, Zenon
<1>2. \A m \in T : n <= m
  <2> SUFFICES ASSUME NEW m \in T, m < n PROVE FALSE
    OBVIOUS
  <2>1. <<m, n>> \in OpToRel(<, Nat)
    BY DEF OpToRel
  <2> QED
    BY <1>1, <2>1
<1> QED
  BY <1>2

\* What the recursion inside FlattenSeq asks of a function.
Flattens(f, s, n) ==
  f = [i \in 1..n |-> IF i = 1 THEN s[i] ELSE f[i-1] \o s[i]]

LEMMA FlattensUnique ==
  ASSUME NEW s, NEW n \in Nat, NEW m \in Nat, n <= m, NEW f, NEW g,
         Flattens(f, s, n), Flattens(g, s, m)
  PROVE  \A i \in 1..n : f[i] = g[i]
<1> DEFINE Bad == {i \in 1..n : f[i] # g[i]}
<1> SUFFICES ASSUME Bad # {} PROVE FALSE
  OBVIOUS
<1>0. Bad \in SUBSET Nat
  OBVIOUS
<1> HIDE DEF Bad
<1>1. PICK i \in Bad : \A j \in Bad : i <= j
  BY <1>0, LeastNumber
<1> USE DEF Bad
<1>2. i \in 1..n /\ i \in 1..m /\ f[i] # g[i]
  BY <1>1
<1>3. /\ f[i] = IF i = 1 THEN s[i] ELSE f[i-1] \o s[i]
      /\ g[i] = IF i = 1 THEN s[i] ELSE g[i-1] \o s[i]
  BY <1>2, Zenon DEF Flattens
<1>4. CASE i = 1
  BY <1>2, <1>3, <1>4
<1>5. CASE i # 1
  <2>1. i - 1 \in 1..n /\ ~(i <= i - 1)
    BY <1>2, <1>5
  <2>2. f[i-1] = g[i-1]
    BY <1>1, <2>1
  <2> QED
    BY <1>2, <1>3, <1>5, <2>2
<1> QED
  BY <1>4, <1>5

LEMMA FlattensExtends ==
  ASSUME NEW s, NEW n \in Nat \ {0}, NEW f, Flattens(f, s, n)
  PROVE  \E g : Flattens(g, s, n + 1) /\ g[n + 1] = f[n] \o s[n + 1]
<1> DEFINE g == [i \in 1..(n + 1) |-> IF i <= n THEN f[i] ELSE f[n] \o s[n + 1]]
<1>1. \A i \in 1..n : f[i] = IF i = 1 THEN s[i] ELSE f[i-1] \o s[i]
  BY Zenon DEF Flattens
<1>2. \A i \in 1..n : g[i] = f[i]
  OBVIOUS
<1>3. g[n + 1] = f[n] \o s[n + 1]
  <2>1. n + 1 \in 1..(n + 1) /\ ~(n + 1 <= n)
    OBVIOUS
  <2> QED
    BY <2>1
<1>4. \A i \in 1..(n + 1) : g[i] = IF i = 1 THEN s[i] ELSE g[i-1] \o s[i]
  <2> SUFFICES ASSUME NEW i \in 1..(n + 1)
               PROVE  g[i] = IF i = 1 THEN s[i] ELSE g[i-1] \o s[i]
    OBVIOUS
  <2> HIDE DEF g
  <2>1. CASE i = n + 1
    <3>1. i - 1 = n /\ i # 1 /\ n \in 1..n
      BY <2>1
    <3> QED
      BY <1>2, <1>3, <2>1, <3>1
  <2>2. CASE i \in 2..n
    <3>1. i - 1 \in 1..n
      BY <2>2
    <3> QED
      BY <1>1, <1>2, <2>2, <3>1
  <2>3. CASE i = 1
    BY <1>1, <1>2, <2>3
  <2> QED
    BY <2>1, <2>2, <2>3
<1>5. g = [i \in 1..(n + 1) |-> g[i]]
  OBVIOUS
<1> HIDE DEF g
<1>6. Flattens(g, s, n + 1)
  BY <1>4, <1>5, Zenon DEF Flattens
<1> QED
  BY <1>3, <1>6

LEMMA FlattensExists ==
  ASSUME NEW s, NEW n \in Nat
  PROVE  \E f : Flattens(f, s, n)
<1> DEFINE Bad == {k \in Nat : ~\E f : Flattens(f, s, k)}
<1> SUFFICES ASSUME Bad # {} PROVE FALSE
  OBVIOUS
<1>1. PICK k \in Bad : \A j \in Bad : k <= j
  BY LeastNumber
<1>2. CASE k = 0
  <2> DEFINE f == [i \in 1..0 |-> s[i]]
  <2>1. Flattens(f, s, 0)
    BY DEF Flattens
  <2> HIDE DEF f
  <2> QED
    BY <1>1, <1>2, <2>1
<1>3. CASE k = 1
  <2> DEFINE f == [i \in 1..1 |-> s[i]]
  <2>1. Flattens(f, s, 1)
    BY DEF Flattens
  <2> HIDE DEF f
  <2> QED
    BY <1>1, <1>3, <2>1
<1>4. CASE k > 1
  <2>1. k - 1 \in Nat \ {0} /\ (k - 1) + 1 = k /\ ~(k <= k - 1)
    BY <1>1, <1>4
  <2>2. \E f : Flattens(f, s, k - 1)
    BY <1>1, <2>1
  <2>3. \E g : Flattens(g, s, (k - 1) + 1)
    BY <2>1, <2>2, FlattensExtends
  <2> QED
    BY <1>1, <2>1, <2>3
<1> QED
  BY <1>1, <1>2, <1>3, <1>4

\* The last value of any such function is the flattened sequence.
LEMMA FlattenIs ==
  ASSUME NEW s, NEW n \in Nat \ {0}, Len(s) = n, NEW f, Flattens(f, s, n)
  PROVE  FlattenSeq(s) = f[n]
<1> DEFINE g == CHOOSE g : Flattens(g, s, n)
<1>1. Flattens(g, s, n)
  BY FlattensExists
<1>2. FlattenSeq(s) = g[n]
  BY DEF FlattenSeq, Flattens
<1> HIDE DEF g
<1> QED
  BY <1>1, <1>2, FlattensUnique

LEMMA FlattenEmpty == FlattenSeq(<<>>) = <<>>
  BY DEF FlattenSeq

LEMMA FlattenType ==
  ASSUME NEW S, NEW s \in Seq(Seq(S))
  PROVE  FlattenSeq(s) \in Seq(S)
<1>1. CASE s = <<>>
  BY <1>1, FlattenEmpty, EmptySeq
<1>2. CASE s # <<>>
  <2> DEFINE n == Len(s)
  <2>1. n \in Nat \ {0} /\ \A i \in 1..n : s[i] \in Seq(S)
    BY <1>2, EmptySeq, ElementOfSeq
  <2> HIDE DEF n
  <2>2. PICK f : Flattens(f, s, n)
    BY <2>1, FlattensExists
  <2>3. \A i \in 1..n : f[i] = IF i = 1 THEN s[i] ELSE f[i-1] \o s[i]
    BY <2>2, Zenon DEF Flattens
  <2> DEFINE Bad == {i \in 1..n : f[i] \notin Seq(S)}
  <2>4. Bad \in SUBSET Nat
    BY <2>1
  <2>5. Bad = {}
    <3> SUFFICES ASSUME Bad # {} PROVE FALSE
      OBVIOUS
    <3> HIDE DEF Bad
    <3>1. PICK i \in Bad : \A j \in Bad : i <= j
      BY <2>4, LeastNumber
    <3> USE DEF Bad
    <3>2. CASE i = 1
      BY <2>1, <2>3, <3>1, <3>2
    <3>3. CASE i # 1
      <4>1. i \in 1..n /\ i - 1 \in 1..n /\ ~(i <= i - 1)
        BY <2>1, <3>1, <3>3
      <4>2. f[i-1] \in Seq(S)
        BY <3>1, <4>1
      <4>3. f[i-1] \o s[i] \in Seq(S)
        BY <2>1, <4>1, <4>2, ConcatProperties
      <4> QED
        BY <2>3, <3>1, <3>3, <4>1, <4>3
    <3> QED
      BY <3>2, <3>3
  <2>6. f[n] \in Seq(S)
    BY <2>1, <2>5
  <2>7. FlattenSeq(s) = f[n]
    BY <2>1, <2>2, FlattenIs DEF n
  <2> QED
    BY <2>6, <2>7
<1> QED
  BY <1>1, <1>2

LEMMA FlattenAppend ==
  ASSUME NEW S, NEW s \in Seq(Seq(S)), NEW x \in Seq(S)
  PROVE  FlattenSeq(Append(s, x)) = FlattenSeq(s) \o x
<1> DEFINE n == Len(s)
           t == Append(s, x)
<1>1. /\ t \in Seq(Seq(S)) /\ Len(t) = n + 1 /\ n \in Nat
      /\ t[n + 1] = x /\ \A i \in 1..n : t[i] = s[i]
  BY AppendProperties, LenProperties
<1>2. CASE n = 0
  <2>1. s = <<>>
    BY <1>2, EmptySeq
  <2> DEFINE f == [i \in 1..1 |-> t[i]]
  <2>2. Flattens(f, t, 1) /\ f[1] = x
    BY <1>1, <1>2 DEF Flattens
  <2> HIDE DEF f
  <2>3. Len(t) = 1
    BY <1>1, <1>2
  <2> HIDE DEF t
  <2>4. FlattenSeq(t) = x
    <3>1. 1 \in Nat \ {0}
      OBVIOUS
    <3>2. FlattenSeq(t) = f[1]
      BY <2>2, <2>3, <3>1, FlattenIs, Zenon
    <3> QED
      BY <2>2, <3>2
  <2> QED
    BY <2>1, <2>4, FlattenEmpty, ConcatEmptySeq DEF t
<1>3. CASE n # 0
  <2> HIDE DEF n, t
  <2>1. PICK f : Flattens(f, s, n)
    BY <1>1, FlattensExists
  <2>2. FlattenSeq(s) = f[n]
    BY <1>1, <1>3, <2>1, FlattenIs DEF n
  <2>3. Flattens(f, t, n)
    <3>1. [i \in 1..n |-> IF i = 1 THEN s[i] ELSE f[i-1] \o s[i]]
            = [i \in 1..n |-> IF i = 1 THEN t[i] ELSE f[i-1] \o t[i]]
      BY <1>1
    <3> QED
      BY <2>1, <3>1 DEF Flattens
  <2>4. PICK g : Flattens(g, t, n + 1) /\ g[n + 1] = f[n] \o t[n + 1]
    BY <1>1, <1>3, <2>3, FlattensExtends
  <2>5. FlattenSeq(t) = g[n + 1]
    BY <1>1, <2>4, FlattenIs
  <2> QED
    BY <1>1, <2>2, <2>4, <2>5 DEF t
<1> QED
  BY <1>2, <1>3

\* Flattening after a tail of singletons adds the tail.
LEMMA FlattenSingles ==
  ASSUME NEW S, NEW s \in Seq(Seq(S)), NEW e \in Seq(S)
  PROVE  FlattenSeq(s \o [i \in 1..Len(e) |-> <<e[i]>>]) = FlattenSeq(s) \o e
<1> DEFINE Part(k) == [i \in 1..k |-> e[i]]
           Singles(k) == [i \in 1..k |-> <<e[i]>>]
           Bad == {k \in 0..Len(e) :
                     FlattenSeq(s \o Singles(k)) # FlattenSeq(s) \o Part(k)}
<1>0. Len(e) \in Nat /\ \A i \in 1..Len(e) : e[i] \in S
  BY ElementOfSeq
<1>1. \A k \in 0..Len(e) : Part(k) \in Seq(S) /\ Singles(k) \in Seq(Seq(S))
  BY <1>0
<1>2. \A k \in 0..Len(e) : k < Len(e) =>
        /\ Part(k + 1) = Append(Part(k), e[k + 1])
        /\ Singles(k + 1) = Append(Singles(k), <<e[k + 1]>>)
  BY <1>0, <1>1
<1>3. Part(0) = <<>> /\ Singles(0) = <<>> /\ Part(Len(e)) = e
  BY <1>0
<1>4. FlattenSeq(s) \in Seq(S)
  BY FlattenType
<1> HIDE DEF Part, Singles
<1>5. Bad = {}
  <2> SUFFICES ASSUME Bad # {} PROVE FALSE
    OBVIOUS
  <2>1. Bad \in SUBSET Nat
    OBVIOUS
  <2>2. PICK k \in Bad : \A j \in Bad : k <= j
    BY <2>1, LeastNumber
  <2>3. CASE k = 0
    <3>1. s \o Singles(0) = s /\ FlattenSeq(s) \o Part(0) = FlattenSeq(s)
      BY <1>3, <1>4, ConcatEmptySeq
    <3> QED
      BY <2>2, <2>3, <3>1
  <2>4. CASE k # 0
    <3> DEFINE j == k - 1
    <3>1. j \in 0..Len(e) /\ j < Len(e) /\ j + 1 = k /\ ~(k <= j) /\ k \in 1..Len(e)
      BY <1>0, <2>2, <2>4
    <3> HIDE DEF j
    <3>2. FlattenSeq(s \o Singles(j)) = FlattenSeq(s) \o Part(j)
      BY <2>2, <3>1
    <3> HIDE DEF Bad
    <3> DEFINE p == Part(j)
               q == Singles(j)
               x == e[k]
    <3>3. p \in Seq(S) /\ q \in Seq(Seq(S)) /\ x \in S /\ <<x>> \in Seq(S)
      BY <1>0, <1>1, <3>1
    <3>4. Part(k) = Append(p, x) /\ Singles(k) = Append(q, <<x>>)
      BY <1>2, <3>1
    <3> HIDE DEF p, q, x
    <3>5. s \o Append(q, <<x>>) = Append(s \o q, <<x>>) /\ s \o q \in Seq(Seq(S))
      BY <3>3
    <3>6. FlattenSeq(Append(s \o q, <<x>>)) = FlattenSeq(s \o q) \o <<x>>
      BY <3>3, <3>5, FlattenAppend
    <3>7. (FlattenSeq(s) \o p) \o <<x>> = FlattenSeq(s) \o Append(p, x)
      <4>1. <<x>> \in Seq(S) /\ Append(p, x) = p \o <<x>>
        BY <3>3
      <4> QED
        BY <1>4, <3>3, <4>1, ConcatAssociative
    <3>8. FlattenSeq(s \o Singles(k)) = FlattenSeq(s) \o Part(k)
      BY <3>2, <3>4, <3>5, <3>6, <3>7 DEF p, q
    <3> QED
      BY <2>2, <3>8 DEF Bad
  <2> QED
    BY <2>3, <2>4
<1>6. FlattenSeq(s \o Singles(Len(e))) = FlattenSeq(s) \o Part(Len(e))
  BY <1>0, <1>5
<1> QED
  BY <1>3, <1>6 DEF Singles

\* Flattening empty sequences gives nothing.
LEMMA FlattenNothing ==
  ASSUME NEW n \in Nat
  PROVE  FlattenSeq([i \in 1..n |-> <<>>]) = <<>>
<1> DEFINE f == [i \in 1..n |-> <<>>]
<1>1. CASE n = 0
  <2>1. f = <<>>
    BY <1>1
  <2> QED
    BY <2>1, FlattenEmpty
<1>2. CASE n # 0
  <2>1. <<>> \o <<>> = <<>>
    OBVIOUS
  <2>2. f = [i \in 1..n |-> IF i = 1 THEN f[i] ELSE f[i-1] \o f[i]]
    BY <2>1
  <2>3. Len(f) = n /\ f[n] = <<>>
    BY <1>2
  <2>4. Flattens(f, f, n)
    BY <2>2, Zenon DEF Flattens
  <2> HIDE DEF f
  <2>5. FlattenSeq(f) = f[n]
    BY <1>2, <2>3, <2>4, FlattenIs
  <2> QED
    BY <2>3, <2>5 DEF f
<1> QED
  BY <1>1, <1>2

(***************************************************************************)
(* The cancellations.                                                      *)
(***************************************************************************)

\* The message that stands in for an unanswered call.
LEMMA CancellationType ==
  ASSUME NEW r \in Nat, NEW id \in Nat
  PROVE  LET t == ToolMessage(r, id, "cancelled")
         IN t \in Message /\ t.role = "tool" /\ t.calls = <<>> /\ t.answers = id
<1>1. <<>> \in Seq(Nat)
  OBVIOUS
<1> QED
  BY <1>1 DEF ToolMessage, Message

LEMMA CallsOf ==
  ASSUME NEW m \in Message
  PROVE  /\ Len(m.calls) \in Nat /\ DOMAIN m.calls = 1..Len(m.calls)
         /\ \A k \in 1..Len(m.calls) : m.calls[k] \in Nat /\ m.calls[k] \in ToSet(m.calls)
         /\ \A c \in ToSet(m.calls) : \E k \in 1..Len(m.calls) : m.calls[k] = c
<1>1. m.calls \in Seq(Nat)
  BY MessageFields
<1>2. Len(m.calls) \in Nat /\ DOMAIN m.calls = 1..Len(m.calls)
  BY <1>1, LenProperties
<1> QED
  BY <1>1, <1>2, ElementOfSeq DEF ToSet

\* The cancellations of one message.
LEMMA CancelsType ==
  ASSUME NEW m \in Message, NEW A
  PROVE  Cancels(m, A) \in Seq(Message)
<1> DEFINE n == Len(m.calls)
           c(k) == IF m.calls[k] \in A THEN <<>>
                   ELSE <<ToolMessage(m.run, m.calls[k], "cancelled")>>
<1>1. n \in Nat /\ DOMAIN m.calls = 1..n /\ m.run \in Nat
  BY CallsOf, MessageFields
<1>2. \A k \in 1..n : c(k) \in Seq(Message)
  BY <1>1, CallsOf, CancellationType
<1>3. [k \in 1..n |-> c(k)] \in Seq(Seq(Message))
  BY <1>1, <1>2
<1> QED
  BY <1>1, <1>3, FlattenType DEF Cancels

LEMMA CancelsNothing ==
  ASSUME NEW m \in Message, NEW A, ToSet(m.calls) \subseteq A
  PROVE  Cancels(m, A) = <<>>
<1> DEFINE n == Len(m.calls)
<1>1. n \in Nat /\ DOMAIN m.calls = 1..n /\ \A k \in 1..n : m.calls[k] \in A
  BY CallsOf
<1>2. [k \in DOMAIN m.calls |-> IF m.calls[k] \in A THEN <<>>
                                ELSE <<ToolMessage(m.run, m.calls[k], "cancelled")>>]
        = [k \in 1..n |-> <<>>]
  BY <1>1
<1> QED
  BY <1>1, <1>2, FlattenNothing DEF Cancels

LEMMA CancelsAll ==
  ASSUME NEW m \in Message, NEW A, ToSet(m.calls) \intersect A = {}
  PROVE  Cancels(m, A)
           = [k \in 1..Len(m.calls) |-> ToolMessage(m.run, m.calls[k], "cancelled")]
<1> DEFINE n == Len(m.calls)
           e == [k \in 1..n |-> ToolMessage(m.run, m.calls[k], "cancelled")]
<1>1. n \in Nat /\ DOMAIN m.calls = 1..n /\ \A k \in 1..n : m.calls[k] \notin A
  BY CallsOf
<1>2. \A k \in 1..n : ToolMessage(m.run, m.calls[k], "cancelled") \in Message
  BY <1>1, CallsOf, CancellationType, MessageFields
<1>3. e \in Seq(Message) /\ Len(e) = n
  BY <1>1, <1>2
<1>4. [k \in DOMAIN m.calls |-> IF m.calls[k] \in A THEN <<>>
                                ELSE <<ToolMessage(m.run, m.calls[k], "cancelled")>>]
        = [k \in 1..n |-> <<e[k]>>]
  BY <1>1
<1> HIDE DEF e
<1> DEFINE q == [k \in 1..n |-> <<e[k]>>]
<1>5. q \in Seq(Seq(Message))
  BY <1>1, <1>3, ElementOfSeq
<1>6. <<>> \o q = q /\ FlattenSeq(<<>>) \o e = e /\ <<>> \in Seq(Seq(Message))
  BY <1>3, <1>5, FlattenEmpty, ConcatEmptySeq, EmptySeq
<1>7. FlattenSeq(<<>> \o q) = FlattenSeq(<<>>) \o e
  BY <1>3, <1>6, FlattenSingles
<1> QED
  BY <1>4, <1>6, <1>7 DEF Cancels, e

LEMMA CancelsAgree ==
  ASSUME NEW m \in Message, NEW A, NEW B, ToSet(m.calls) \intersect B = {}
  PROVE  Cancels(m, A \union B) = Cancels(m, A)
<1>1. \A k \in DOMAIN m.calls : m.calls[k] \in A \union B <=> m.calls[k] \in A
  BY CallsOf
<1> QED
  BY <1>1 DEF Cancels

(***************************************************************************)
(* The sanitized history, message by message.                              *)
(***************************************************************************)
Chunks(msgs, A) == [i \in DOMAIN msgs |-> <<msgs[i]>> \o Cancels(msgs[i], A)]

LEMMA ChunksType ==
  ASSUME NEW msgs \in Seq(Message), NEW A
  PROVE  /\ Chunks(msgs, A) \in Seq(Seq(Message))
         /\ Len(Chunks(msgs, A)) = Len(msgs)
         /\ \A i \in 1..Len(msgs) : Chunks(msgs, A)[i] = <<msgs[i]>> \o Cancels(msgs[i], A)
<1>1. Len(msgs) \in Nat /\ DOMAIN msgs = 1..Len(msgs)
  BY LenProperties
<1>2. \A i \in 1..Len(msgs) : <<msgs[i]>> \o Cancels(msgs[i], A) \in Seq(Message)
  <2> TAKE i \in 1..Len(msgs)
  <2>1. msgs[i] \in Message
    BY ElementOfSeq
  <2>2. Cancels(msgs[i], A) \in Seq(Message) /\ <<msgs[i]>> \in Seq(Message)
    BY <2>1, CancelsType
  <2> QED
    BY <2>2, ConcatProperties
<1> QED
  BY <1>1, <1>2 DEF Chunks

LEMMA SanitizeType ==
  ASSUME NEW msgs \in Seq(Message)
  PROVE  SanitizeHistory(msgs) \in Seq(Message)
  BY ChunksType, FlattenType DEF SanitizeHistory, Chunks

LEMMA ChunksAppend ==
  ASSUME NEW msgs \in Seq(Message), NEW m \in Message, NEW A
  PROVE  Chunks(Append(msgs, m), A) = Append(Chunks(msgs, A), <<m>> \o Cancels(m, A))
<1> DEFINE x == <<m>> \o Cancels(m, A)
           c == Chunks(msgs, A)
           d == Chunks(Append(msgs, m), A)
<1>1. x \in Seq(Message)
  BY CancelsType, ConcatProperties
<1>2. c \in Seq(Seq(Message)) /\ Len(c) = Len(msgs) /\ Len(msgs) \in Nat
  BY ChunksType, LenProperties
<1>3. /\ Append(msgs, m) \in Seq(Message) /\ Len(Append(msgs, m)) = Len(msgs) + 1
      /\ Append(msgs, m)[Len(msgs) + 1] = m
      /\ \A i \in 1..Len(msgs) : Append(msgs, m)[i] = msgs[i]
  BY AppendProperties
<1>4. /\ d \in Seq(Seq(Message)) /\ Len(d) = Len(msgs) + 1
      /\ \A i \in 1..(Len(msgs) + 1) :
           d[i] = <<Append(msgs, m)[i]>> \o Cancels(Append(msgs, m)[i], A)
  BY <1>3, ChunksType
<1>5. /\ Append(c, x) \in Seq(Seq(Message)) /\ Len(Append(c, x)) = Len(msgs) + 1
      /\ Append(c, x)[Len(msgs) + 1] = x
      /\ \A i \in 1..Len(msgs) : Append(c, x)[i] = c[i]
  BY <1>1, <1>2, AppendProperties
<1>6. \A i \in 1..Len(msgs) : c[i] = <<msgs[i]>> \o Cancels(msgs[i], A)
  BY ChunksType
<1>7. \A i \in 1..(Len(msgs) + 1) : d[i] = Append(c, x)[i]
  <2> TAKE i \in 1..(Len(msgs) + 1)
  <2>1. CASE i = Len(msgs) + 1
    BY <1>3, <1>4, <1>5, <2>1
  <2>2. CASE i \in 1..Len(msgs)
    <3> HIDE DEF c, d, x
    <3> QED
      BY <1>2, <1>3, <1>4, <1>5, <1>6, <2>2
  <2> QED
    BY <1>2, <2>1, <2>2
<1> HIDE DEF c, d, x
<1>8. d = Append(c, x)
  BY <1>4, <1>5, <1>7, SeqEqual
<1> QED
  BY <1>8 DEF c, d, x

\* Messages that ask for nothing are their own chunks.
LEMMA ChunksConcat ==
  ASSUME NEW msgs \in Seq(Message), NEW t \in Seq(Message), NEW A,
         \A k \in 1..Len(t) : t[k].calls = <<>>
  PROVE  Chunks(msgs \o t, A) = Chunks(msgs, A) \o [i \in 1..Len(t) |-> <<t[i]>>]
<1> DEFINE c == Chunks(msgs, A)
           d == Chunks(msgs \o t, A)
           q == [i \in 1..Len(t) |-> <<t[i]>>]
<1>1. /\ Len(msgs) \in Nat /\ Len(t) \in Nat /\ \A i \in 1..Len(t) : t[i] \in Message
      /\ \A i \in 1..Len(msgs) : msgs[i] \in Message
  BY LenProperties, ElementOfSeq
<1>2. \A i \in 1..Len(t) : <<t[i]>> \o Cancels(t[i], A) = <<t[i]>>
  <2> TAKE i \in 1..Len(t)
  <2>1. ToSet(t[i].calls) = {}
    BY DEF ToSet
  <2>2. Cancels(t[i], A) = <<>>
    BY <1>1, <2>1, CancelsNothing
  <2>3. <<t[i]>> \in Seq(Message)
    BY <1>1
  <2> QED
    BY <2>2, <2>3, ConcatEmptySeq
<1>3. q \in Seq(Seq(Message)) /\ Len(q) = Len(t) /\ \A i \in 1..Len(t) : q[i] = <<t[i]>>
  BY <1>1
<1>4. /\ c \in Seq(Seq(Message)) /\ Len(c) = Len(msgs)
      /\ \A i \in 1..Len(msgs) : c[i] = <<msgs[i]>> \o Cancels(msgs[i], A)
  BY ChunksType
<1>5. /\ msgs \o t \in Seq(Message) /\ Len(msgs \o t) = Len(msgs) + Len(t)
      /\ \A i \in 1..(Len(msgs) + Len(t)) :
           (msgs \o t)[i] = IF i <= Len(msgs) THEN msgs[i] ELSE t[i - Len(msgs)]
  BY ConcatProperties
<1>6. /\ d \in Seq(Seq(Message)) /\ Len(d) = Len(msgs) + Len(t)
      /\ \A i \in 1..(Len(msgs) + Len(t)) :
           d[i] = <<(msgs \o t)[i]>> \o Cancels((msgs \o t)[i], A)
  BY <1>5, ChunksType
<1> HIDE DEF c, d, q
<1>7. /\ c \o q \in Seq(Seq(Message)) /\ Len(c \o q) = Len(msgs) + Len(t)
      /\ \A i \in 1..(Len(msgs) + Len(t)) :
           (c \o q)[i] = IF i <= Len(msgs) THEN c[i] ELSE q[i - Len(msgs)]
  BY <1>3, <1>4, ConcatProperties
<1>8. \A i \in 1..(Len(msgs) + Len(t)) : d[i] = (c \o q)[i]
  <2> TAKE i \in 1..(Len(msgs) + Len(t))
  <2>1. CASE i <= Len(msgs)
    <3>1. i \in 1..Len(msgs)
      BY <1>1, <2>1
    <3>2. (msgs \o t)[i] = msgs[i] /\ (c \o q)[i] = c[i]
      BY <1>5, <1>7, <2>1
    <3> QED
      BY <1>4, <1>6, <3>1, <3>2
  <2>2. CASE ~(i <= Len(msgs))
    <3>1. i - Len(msgs) \in 1..Len(t)
      BY <1>1, <2>2
    <3>2. (msgs \o t)[i] = t[i - Len(msgs)] /\ (c \o q)[i] = q[i - Len(msgs)]
      BY <1>5, <1>7, <2>2
    <3> QED
      BY <1>2, <1>3, <1>6, <3>1, <3>2
  <2> QED
    BY <2>1, <2>2
<1>9. d = c \o q
  BY <1>6, <1>7, <1>8, SeqEqual
<1> QED
  BY <1>9 DEF c, d, q

LEMMA ChunksAgree ==
  ASSUME NEW msgs \in Seq(Message), NEW A, NEW B,
         \A i \in 1..Len(msgs) : ToSet(msgs[i].calls) \intersect B = {}
  PROVE  Chunks(msgs, A \union B) = Chunks(msgs, A)
<1>1. \A i \in DOMAIN msgs : Cancels(msgs[i], A \union B) = Cancels(msgs[i], A)
  <2> TAKE i \in DOMAIN msgs
  <2>1. i \in 1..Len(msgs) /\ msgs[i] \in Message
    BY LenProperties, ElementOfSeq
  <2> QED
    BY <2>1, CancelsAgree
<1> QED
  BY <1>1 DEF Chunks
LEMMA AnsweredAppend ==
  ASSUME NEW msgs \in Seq(Message), NEW m \in Message, m.role # "tool"
  PROVE  Answered(Append(msgs, m)) = Answered(msgs)
<1>1. /\ DOMAIN msgs = 1..Len(msgs) /\ Len(msgs) \in Nat
      /\ DOMAIN Append(msgs, m) = 1..(Len(msgs) + 1)
      /\ Append(msgs, m)[Len(msgs) + 1] = m
      /\ \A i \in 1..Len(msgs) : Append(msgs, m)[i] = msgs[i]
  BY AppendProperties, LenProperties
<1>2. {j \in DOMAIN Append(msgs, m) : Append(msgs, m)[j].role = "tool"}
        = {j \in DOMAIN msgs : msgs[j].role = "tool"}
  BY <1>1
<1> QED
  BY <1>1, <1>2 DEF Answered

LEMMA AnsweredConcat ==
  ASSUME NEW msgs \in Seq(Message), NEW t \in Seq(Message)
  PROVE  Answered(msgs \o t) = Answered(msgs) \union Answered(t)
<1> DEFINE h == msgs \o t
<1>1. /\ DOMAIN msgs = 1..Len(msgs) /\ Len(msgs) \in Nat
      /\ DOMAIN t = 1..Len(t) /\ Len(t) \in Nat
      /\ DOMAIN h = 1..(Len(msgs) + Len(t))
      /\ \A i \in 1..Len(msgs) : h[i] = msgs[i]
      /\ \A i \in (Len(msgs) + 1)..(Len(msgs) + Len(t)) : h[i] = t[i - Len(msgs)]
  BY ConcatProperties, LenProperties
<1>2. \A k \in 1..Len(t) : k + Len(msgs) \in DOMAIN h /\ h[k + Len(msgs)] = t[k]
  BY <1>1
<1> HIDE DEF h
<1>3. Answered(h) \subseteq Answered(msgs) \union Answered(t)
  <2> SUFFICES ASSUME NEW j \in DOMAIN h, h[j].role = "tool"
               PROVE  h[j].answers \in Answered(msgs) \union Answered(t)
    BY DEF Answered
  <2>1. CASE j \in 1..Len(msgs)
    BY <1>1, <2>1 DEF Answered
  <2>2. CASE j \notin 1..Len(msgs)
    <3>1. j - Len(msgs) \in DOMAIN t /\ h[j] = t[j - Len(msgs)]
      BY <1>1, <2>2
    <3> QED
      BY <3>1 DEF Answered
  <2> QED
    BY <2>1, <2>2
<1>4. Answered(msgs) \subseteq Answered(h)
  BY <1>1 DEF Answered
<1>5. Answered(t) \subseteq Answered(h)
  <2> SUFFICES ASSUME NEW k \in DOMAIN t, t[k].role = "tool"
               PROVE  t[k].answers \in Answered(h)
    BY DEF Answered
  <2> QED
    BY <1>1, <1>2 DEF Answered
<1> QED
  BY <1>3, <1>4, <1>5 DEF h

\* One more message.
LEMMA SanitizeAppend ==
  ASSUME NEW msgs \in Seq(Message), NEW m \in Message, m.role # "tool"
  PROVE  SanitizeHistory(Append(msgs, m))
           = SanitizeHistory(msgs) \o (<<m>> \o Cancels(m, Answered(msgs)))
<1>1. Answered(Append(msgs, m)) = Answered(msgs)
  BY AnsweredAppend
<1>2. Chunks(Append(msgs, m), Answered(msgs))
        = Append(Chunks(msgs, Answered(msgs)), <<m>> \o Cancels(m, Answered(msgs)))
  BY ChunksAppend
<1>3. /\ Chunks(msgs, Answered(msgs)) \in Seq(Seq(Message))
      /\ <<m>> \o Cancels(m, Answered(msgs)) \in Seq(Message)
  BY ChunksType, CancelsType, ConcatProperties
<1> QED
  BY <1>1, <1>2, <1>3, FlattenAppend DEF SanitizeHistory, Chunks

\* One more reply, with the answers to all its calls.
LEMMA SanitizeBatch ==
  ASSUME NEW msgs \in Seq(Message), NEW m \in Message, m.role # "tool",
         NEW t \in Seq(Message), Len(t) = Len(m.calls),
         \A k \in 1..Len(t) : /\ t[k].role = "tool" /\ t[k].calls = <<>>
                              /\ t[k].answers = m.calls[k],
         \A i \in 1..Len(msgs) : ToSet(msgs[i].calls) \intersect ToSet(m.calls) = {}
  PROVE  SanitizeHistory(Append(msgs, m) \o t) = SanitizeHistory(msgs) \o (<<m>> \o t)
<1> DEFINE h == Append(msgs, m)
           A == Answered(msgs)
           B == A \union ToSet(m.calls)
           q == [i \in 1..Len(t) |-> <<t[i]>>]
<1>1. Answered(t) = ToSet(m.calls)
  <2>1. DOMAIN t = 1..Len(t) /\ DOMAIN m.calls = 1..Len(t)
    BY CallsOf, LenProperties
  <2>2. {j \in DOMAIN t : t[j].role = "tool"} = 1..Len(t)
    BY <2>1
  <2>3. {t[i].answers : i \in 1..Len(t)} = {m.calls[i] : i \in 1..Len(t)}
    OBVIOUS
  <2> QED
    BY <2>1, <2>2, <2>3 DEF Answered, ToSet
<1>2. h \in Seq(Message) /\ Answered(h \o t) = B
  <2>1. h \in Seq(Message)
    BY AppendProperties
  <2> HIDE DEF h
  <2>2. Answered(h \o t) = Answered(h) \union Answered(t)
    BY <2>1, AnsweredConcat
  <2>3. Answered(h) = A
    BY AnsweredAppend DEF h
  <2> QED
    BY <1>1, <2>1, <2>2, <2>3
<1>3. Chunks(h \o t, B) = Chunks(h, B) \o q
  BY <1>2, ChunksConcat
<1>4. Chunks(h, B) = Append(Chunks(msgs, A), <<m>>)
  <2>1. Chunks(msgs, B) = Chunks(msgs, A)
    BY ChunksAgree
  <2>2. Cancels(m, B) = <<>> /\ <<m>> \o <<>> = <<m>>
    BY CancelsNothing
  <2> HIDE DEF A, B
  <2>3. Chunks(h, B) = Append(Chunks(msgs, B), <<m>> \o Cancels(m, B))
    BY ChunksAppend
  <2> QED
    BY <2>1, <2>2, <2>3
<1>5. /\ Chunks(msgs, A) \in Seq(Seq(Message)) /\ Chunks(h, B) \in Seq(Seq(Message))
      /\ <<m>> \in Seq(Message)
  <2> HIDE DEF h, A, B
  <2> QED
    BY <1>2, ChunksType
<1>6. SanitizeHistory(h \o t) = FlattenSeq(Chunks(h, B) \o q)
  BY <1>2, <1>3 DEF SanitizeHistory, Chunks
<1>7. SanitizeHistory(msgs) = FlattenSeq(Chunks(msgs, A))
  BY DEF SanitizeHistory, Chunks
<1> HIDE DEF h, A, B
<1>8. FlattenSeq(Chunks(h, B) \o q) = FlattenSeq(Chunks(h, B)) \o t
  BY <1>5, FlattenSingles
<1>9. FlattenSeq(Chunks(h, B)) = FlattenSeq(Chunks(msgs, A)) \o <<m>>
  BY <1>4, <1>5, FlattenAppend
<1>10. (SanitizeHistory(msgs) \o <<m>>) \o t = SanitizeHistory(msgs) \o (<<m>> \o t)
  BY <1>5, SanitizeType, ConcatAssociative
<1> QED
  BY <1>6, <1>7, <1>8, <1>9, <1>10 DEF h

(***************************************************************************)
(* Valid histories.                                                        *)
(***************************************************************************)

\* The positions of a history to which a message and its answers are added.
Block(h, m, t, g, n, l) ==
  /\ g = h \o (<<m>> \o t) /\ n = Len(h) /\ l = Len(t)
  /\ n \in Nat /\ l \in Nat
  /\ g \in Seq(Message) /\ Len(g) = n + 1 + l /\ DOMAIN g = 1..(n + 1 + l)
  /\ \A i \in 1..n : g[i] = h[i]
  /\ g[n + 1] = m
  /\ \A k \in 1..l : g[n + 1 + k] = t[k]

LEMMA BlockPositions ==
  ASSUME NEW h \in Seq(Message), NEW m \in Message, NEW t \in Seq(Message)
  PROVE  \E g, n, l : Block(h, m, t, g, n, l)
<1>0. PICK g, n, l : g = h \o (<<m>> \o t) /\ n = Len(h) /\ l = Len(t)
  OBVIOUS
<1>1. n \in Nat /\ l \in Nat /\ <<m>> \in Seq(Message) /\ Len(<<m>>) = 1 /\ <<m>>[1] = m
  BY <1>0, LenProperties
<1> DEFINE b == <<m>> \o t
<1>2. /\ b \in Seq(Message) /\ Len(b) = 1 + l
      /\ \A k \in 1..(1 + l) : b[k] = IF k <= 1 THEN <<m>>[k] ELSE t[k - 1]
  <2> DEFINE a == <<m>>
  <2>1. a \in Seq(Message) /\ Len(a) = 1
    BY <1>1
  <2> HIDE DEF a
  <2>2. /\ a \o t \in Seq(Message) /\ Len(a \o t) = Len(a) + Len(t)
        /\ \A k \in 1..(Len(a) + Len(t)) :
             (a \o t)[k] = IF k <= Len(a) THEN a[k] ELSE t[k - Len(a)]
    BY <2>1, ConcatProperties
  <2> QED
    BY <1>0, <2>1, <2>2 DEF a
<1>3. b[1] = m
  BY <1>1, <1>2
<1>4. \A k \in 1..l : b[1 + k] = t[k]
  <2> TAKE k \in 1..l
  <2>1. 1 + k \in 1..(1 + l) /\ ~(1 + k <= 1) /\ (1 + k) - 1 = k
    BY <1>1
  <2> HIDE DEF b
  <2> QED
    BY <1>2, <2>1
<1> HIDE DEF b
<1>5. /\ h \o b \in Seq(Message) /\ Len(h \o b) = Len(h) + Len(b)
      /\ \A i \in 1..(Len(h) + Len(b)) :
           (h \o b)[i] = IF i <= Len(h) THEN h[i] ELSE b[i - Len(h)]
  BY <1>2, ConcatProperties
<1>6. g = h \o b
  BY <1>0 DEF b
<1>7. g \in Seq(Message) /\ Len(g) = n + 1 + l /\ DOMAIN g = 1..(n + 1 + l)
  <2>1. g \in Seq(Message) /\ Len(g) = n + 1 + l
    BY <1>0, <1>1, <1>2, <1>5, <1>6
  <2> QED
    BY <2>1, LenProperties
<1>8. \A i \in 1..(n + 1 + l) : g[i] = IF i <= n THEN h[i] ELSE b[i - n]
  BY <1>0, <1>1, <1>2, <1>5, <1>6
<1>9. \A i \in 1..n : g[i] = h[i]
  BY <1>1, <1>8
<1>10. g[n + 1] = m
  <2>1. n + 1 \in 1..(n + 1 + l) /\ ~(n + 1 <= n) /\ (n + 1) - n = 1
    BY <1>1
  <2> QED
    BY <1>3, <1>8, <2>1
<1>11. \A k \in 1..l : g[n + 1 + k] = t[k]
  <2> TAKE k \in 1..l
  <2>1. n + 1 + k \in 1..(n + 1 + l) /\ ~(n + 1 + k <= n) /\ (n + 1 + k) - n = 1 + k
    BY <1>1
  <2> QED
    BY <1>4, <1>8, <2>1
<1>12. Block(h, m, t, g, n, l)
  BY <1>0, <1>1, <1>7, <1>9, <1>10, <1>11 DEF Block
<1> QED
  BY <1>12

\* A valid history stays valid when a message and the answers to all its
\* calls follow.
LEMMA ValidBlock ==
  ASSUME NEW h \in Seq(Message), ValidHistory(h), NEW m \in Message, m.role # "tool",
         NEW t \in Seq(Message), Len(t) = Len(m.calls),
         \A k \in 1..Len(t) : t[k].calls = <<>> /\ t[k].answers = m.calls[k]
  PROVE  ValidHistory(h \o (<<m>> \o t))
<1>0. PICK g, n, l : Block(h, m, t, g, n, l)
  BY BlockPositions
<1>1. g = h \o (<<m>> \o t) /\ n = Len(h) /\ l = Len(t)
  BY <1>0 DEF Block
<1>2. n \in Nat /\ l \in Nat /\ Len(g) = n + 1 + l /\ DOMAIN g = 1..(n + 1 + l)
  BY <1>0 DEF Block
<1>3. \A i \in 1..n : g[i] = h[i]
  BY <1>0 DEF Block
<1>4. g[n + 1] = m
  BY <1>0 DEF Block
<1>5. \A k \in 1..l : g[n + 1 + k] = t[k]
  BY <1>0 DEF Block
<1>6. DOMAIN h = 1..n /\ \A i \in 1..n : h[i] \in Message
  BY <1>1, LenProperties, ElementOfSeq
<1>7. /\ l = Len(m.calls)
      /\ \A k \in 1..l : t[k].calls = <<>> /\ t[k].answers = m.calls[k]
  BY <1>1
<1>8. ASSUME NEW i \in 1..(n + 1 + l), i \notin 1..n, i # n + 1
      PROVE  \E k \in 1..l : i = n + 1 + k
  <2>1. PICK k : k = i - (n + 1)
    OBVIOUS
  <2>2. k \in 1..l /\ i = n + 1 + k
    BY <1>2, <1>8, <2>1
  <2> QED
    BY <2>2
<1>9. ASSUME NEW i \in DOMAIN g, g[i].calls # <<>>
      PROVE  /\ i + Len(g[i].calls) <= Len(g)
             /\ {g[i + k].answers : k \in 1..Len(g[i].calls)} = ToSet(g[i].calls)
  <2>1. CASE i \in 1..n
    <3>1. PICK c : c = Len(h[i].calls)
      OBVIOUS
    <3>2. g[i] = h[i] /\ c \in Nat
      BY <1>3, <1>6, <2>1, <3>1, CallsOf
    <3>3. i + c <= n /\ {h[i + k].answers : k \in 1..c} = ToSet(h[i].calls)
      BY <1>1, <1>6, <1>9, <2>1, <3>1, <3>2 DEF ValidHistory
    <3>4. \A k \in 1..c : i + k \in 1..n
      BY <1>2, <2>1, <3>2, <3>3
    <3>5. {g[i + k].answers : k \in 1..c} = {h[i + k].answers : k \in 1..c}
      BY <1>3, <3>4
    <3>6. Len(g[i].calls) = c /\ i + c <= Len(g)
      BY <1>2, <2>1, <3>1, <3>2, <3>3
    <3>7. {g[i + k].answers : k \in 1..c} = ToSet(g[i].calls)
      BY <3>2, <3>3, <3>5
    <3> QED
      BY <3>6, <3>7, Zenon
  <2>2. CASE i = n + 1
    <3>1. \A k \in 1..l : g[i + k].answers = m.calls[k]
      BY <1>5, <1>7, <2>2
    <3>2. {g[i + k].answers : k \in 1..l} = {m.calls[k] : k \in 1..l}
      BY <3>1
    <3>3. {m.calls[k] : k \in 1..l} = ToSet(m.calls)
      BY <1>7, CallsOf DEF ToSet
    <3>4. Len(g[i].calls) = l /\ i + l <= Len(g)
      BY <1>2, <1>4, <1>7, <2>2
    <3>5. {g[i + k].answers : k \in 1..l} = ToSet(g[i].calls)
      BY <1>4, <2>2, <3>2, <3>3
    <3> QED
      BY <3>4, <3>5, Zenon
  <2>3. CASE i \notin 1..n /\ i # n + 1
    <3>1. PICK k \in 1..l : i = n + 1 + k
      BY <1>2, <1>8, <2>3
    <3>2. g[i].calls = <<>>
      BY <1>5, <1>7, <3>1
    <3> QED
      BY <1>9, <3>2
  <2> QED
    BY <2>1, <2>2, <2>3
<1>10. ASSUME NEW j \in DOMAIN g, g[j].role = "tool"
       PROVE  \E i \in 1..(j - 1) : /\ Contains(g[i].calls, g[j].answers)
                                    /\ j - i <= Len(g[i].calls)
  <2>1. CASE j \in 1..n
    <3>1. g[j] = h[j]
      BY <1>3, <2>1
    <3>2. PICK i \in 1..(j - 1) : Contains(h[i].calls, h[j].answers) /\ j - i <= Len(h[i].calls)
      BY <1>6, <1>10, <2>1, <3>1 DEF ValidHistory
    <3>3. i \in 1..n
      BY <1>2, <2>1, <3>2
    <3>4. g[i] = h[i]
      BY <1>3, <3>3
    <3> QED
      BY <3>1, <3>2, <3>4
  <2>2. CASE j = n + 1
    BY <1>4, <1>10, <2>2
  <2>3. CASE j \notin 1..n /\ j # n + 1
    <3>1. PICK k \in 1..l : j = n + 1 + k
      BY <1>2, <1>8, <2>3
    <3>2. n + 1 \in 1..(j - 1) /\ j - (n + 1) <= l
      BY <1>2, <3>1
    <3>3. g[n + 1] = m /\ g[j].answers = m.calls[k]
      BY <1>4, <1>5, <1>7, <3>1
    <3>4. Contains(m.calls, m.calls[k])
      BY <1>7 DEF Contains
    <3> QED
      BY <1>7, <3>2, <3>3, <3>4
  <2> QED
    BY <2>1, <2>2, <2>3
<1>11. ValidHistory(g)
  BY <1>9, <1>10 DEF ValidHistory
<1> QED
  BY <1>1, <1>11

\* A reply none of whose calls is answered is followed by cancellations.
LEMMA SanitizedReply ==
  ASSUME NEW msgs \in Seq(Message), ValidHistory(SanitizeHistory(msgs)),
         NEW m \in Message, m.role # "tool",
         ToSet(m.calls) \intersect Answered(msgs) = {}
  PROVE  ValidHistory(SanitizeHistory(Append(msgs, m)))
<1> DEFINE n == Len(m.calls)
           c == [k \in 1..n |-> ToolMessage(m.run, m.calls[k], "cancelled")]
<1>1. n \in Nat /\ m.run \in Nat /\ \A k \in 1..n : m.calls[k] \in Nat
  BY CallsOf, MessageFields
<1>2. \A k \in 1..n : /\ ToolMessage(m.run, m.calls[k], "cancelled") \in Message
                      /\ ToolMessage(m.run, m.calls[k], "cancelled").calls = <<>>
                      /\ ToolMessage(m.run, m.calls[k], "cancelled").answers = m.calls[k]
  BY <1>1, CancellationType
<1>3. /\ c \in Seq(Message) /\ Len(c) = n
      /\ \A k \in 1..Len(c) : c[k].calls = <<>> /\ c[k].answers = m.calls[k]
  BY <1>1, <1>2
<1>4. Cancels(m, Answered(msgs)) = c
  BY CancelsAll
<1> HIDE DEF c
<1>5. SanitizeHistory(Append(msgs, m)) = SanitizeHistory(msgs) \o (<<m>> \o c)
  BY <1>4, SanitizeAppend
<1>6. SanitizeHistory(msgs) \in Seq(Message)
  BY SanitizeType
<1>7. ValidHistory(SanitizeHistory(msgs) \o (<<m>> \o c))
  BY <1>3, <1>6, ValidBlock
<1> QED
  BY <1>5, <1>7

\* A reply whose calls are all answered right away stays as it is.
LEMMA SanitizedBatch ==
  ASSUME NEW msgs \in Seq(Message), ValidHistory(SanitizeHistory(msgs)),
         NEW m \in Message, m.role # "tool",
         NEW t \in Seq(Message), Len(t) = Len(m.calls),
         \A k \in 1..Len(t) : /\ t[k].role = "tool" /\ t[k].calls = <<>>
                              /\ t[k].answers = m.calls[k],
         \A i \in 1..Len(msgs) : ToSet(msgs[i].calls) \intersect ToSet(m.calls) = {}
  PROVE  ValidHistory(SanitizeHistory(Append(msgs, m) \o t))
<1>1. SanitizeHistory(msgs) \in Seq(Message)
  BY SanitizeType
<1>2. ValidHistory(SanitizeHistory(msgs) \o (<<m>> \o t))
  BY <1>1, ValidBlock
<1> QED
  BY <1>2, SanitizeBatch

LEMMA HistorySplit ==
  ASSUME NEW msgs \in Seq(Message), msgs # <<>>
  PROVE  /\ Len(msgs) \in Nat \ {0} /\ DOMAIN msgs = 1..Len(msgs)
         /\ Front(msgs) \in Seq(Message) /\ Len(Front(msgs)) = Len(msgs) - 1
         /\ \A i \in 1..(Len(msgs) - 1) : Front(msgs)[i] = msgs[i]
         /\ msgs[Len(msgs)] \in Message
         /\ msgs = Append(Front(msgs), msgs[Len(msgs)])
<1>1. Len(msgs) \in Nat \ {0} /\ DOMAIN msgs = 1..Len(msgs)
  BY EmptySeq, LenProperties
<1>2. \A i \in 1..Len(msgs) : msgs[i] \in Message
  BY ElementOfSeq
<1>3. /\ Front(msgs) \in Seq(Message) /\ Len(Front(msgs)) = Len(msgs) - 1
      /\ \A i \in 1..(Len(msgs) - 1) : Front(msgs)[i] = msgs[i]
  BY <1>1, <1>2, SubSeqProperties DEF Front
<1> DEFINE f == Front(msgs)
           x == msgs[Len(msgs)]
<1>4. x \in Message
  BY <1>1, <1>2
<1> HIDE DEF f, x
<1>5. /\ Append(f, x) \in Seq(Message) /\ Len(Append(f, x)) = Len(msgs)
      /\ \A i \in 1..(Len(msgs) - 1) : Append(f, x)[i] = msgs[i]
      /\ Append(f, x)[Len(msgs)] = x
  <2>1. /\ f \in Seq(Message) /\ Len(f) = Len(msgs) - 1
        /\ \A i \in 1..(Len(msgs) - 1) : f[i] = msgs[i]
    BY <1>3 DEF f
  <2>2. /\ Append(f, x) \in Seq(Message) /\ Len(Append(f, x)) = Len(f) + 1
        /\ \A i \in 1..Len(f) : Append(f, x)[i] = f[i]
        /\ Append(f, x)[Len(f) + 1] = x
    BY <1>4, <2>1, AppendProperties
  <2>3. Len(f) + 1 = Len(msgs)
    BY <1>1, <2>1
  <2> QED
    BY <2>1, <2>2, <2>3
<1>6. \A i \in 1..Len(msgs) : msgs[i] = Append(f, x)[i]
  BY <1>1, <1>5 DEF x
<1>7. msgs = Append(f, x)
  BY <1>5, <1>6, SeqEqual
<1> QED
  BY <1>1, <1>3, <1>4, <1>7 DEF f, x

(***************************************************************************)
(* Type correctness.                                                       *)
(***************************************************************************)

LEMMA InitIndInv == Init => IndInv
<1> SUFFICES ASSUME Init PROVE IndInv
  OBVIOUS
<1>1. TypeOK
  BY GraphAssumption DEF Init, TypeOK, ActiveNodes, StoppedNodes, NoAnswer, Answer,
     Message, TraceEntry
<1>2. HistoryInv /\ ClosingInv
  BY DEF Init, HistoryInv, ClosingInv, ActiveNodes
<1>3. BudgetInv
  BY GraphAssumption DEF Init, BudgetInv
<1>4. RecordInv /\ RecordedOnce
  BY DEF Init, RecordInv, RecordedOnce
<1>5. ObtainedInv
  BY DEF Init, ObtainedInv, ActiveNodes
<1>6. RequestInv
  <2>1. messages = <<>> /\ DOMAIN messages = {} /\ node # "executor"
    BY DEF Init
  <2>2. Answered(messages) = {}
    BY <2>1 DEF Answered
  <2>3. SanitizeHistory(messages) = <<>>
    <3>1. [i \in DOMAIN messages |-> <<messages[i]>> \o Cancels(messages[i], Answered(messages))]
            = <<>>
      BY <2>1
    <3> QED
      BY <3>1, FlattenEmpty DEF SanitizeHistory
  <2>4. ValidHistory(<<>>)
    BY DEF ValidHistory
  <2> QED
    BY <2>1, <2>2, <2>3, <2>4 DEF RequestInv
<1> QED
  BY <1>1, <1>2, <1>3, <1>4, <1>5, <1>6 DEF IndInv

LEMMA TypeStep ==
  ASSUME IndInv, [Next]_vars
  PROVE  TypeOK'
<1> USE GraphAssumption DEF TypeOK, ActiveNodes, StoppedNodes, results
<1>0. TypeOK /\ HistoryInv
  BY DEF IndInv
<1>a. run \in Nat /\ planned \in Nat /\ steps \in Nat /\ usage \in Nat
  BY <1>0
<1>1. CASE Ask
  <2>1. run' \in 1..MaxRuns /\ run' \in Nat
    BY <1>0, <1>1 DEF Ask
  <2>2. messages' \in Seq(Message)
    BY <1>0, <1>1, <2>1, HumanMessageType, AppendProperties DEF Ask
  <2> QED
    BY <1>0, <1>1, <2>1, <2>2 DEF Ask
<1>2. CASE Compact
  <2>1. HumanMessage(0) \in Message /\ AIMessage(0, <<>>, "text") \in Message
    BY HumanMessageType, AIMessageType, EmptySeq
  <2>2. messages' \in Seq(Message)
    BY <1>2, <2>1 DEF Compact
  <2> QED
    BY <1>0, <1>2, <2>2 DEF Compact
<1>3. CASE WikiReader
  BY <1>0, <1>3 DEF WikiReader, TraceEntry
<1>4. CASE Planner
  <2>1. run \in 1..MaxRuns
    BY <1>0, <1>4 DEF Planner
  <2>2. /\ steps' \in Nat /\ usage' \in Nat
        /\ UNCHANGED <<run, batch, raw_results, observations, tool_trace, audit>>
        /\ UNCHANGED results
    BY <1>a, <1>4 DEF Planner
  <2>3. PICK k \in 0..MaxBatch, t \in {"empty", "text"} :
          /\ messages' = Append(messages, AIMessage(run, [i \in 1..k |-> planned + i], t))
          /\ planned' = planned + k
          /\ node' = RouteAfterPlanner(
                       AIMessage(run, [i \in 1..k |-> planned + i], t), tool_trace)
    BY <1>4, Zenon DEF Planner
  <2> DEFINE ids == [i \in 1..k |-> planned + i]
  <2> HIDE DEF TypeOK
  <2>4. ids \in Seq(Nat)
    BY <1>a, FreshIds
  <2>5. planned' \in Nat
    BY <1>a, <2>3
  <2> HIDE DEF ids
  <2>6. AIMessage(run, ids, t) \in Message
    BY <1>a, <2>4, ReplyType
  <2>7. messages' \in Seq(Message)
    BY <1>0, <2>3, <2>6, AppendProperties DEF ids, TypeOK
  <2>8. node' \in {"executor", "wiki_writer"}
    BY <2>3, RouteType
  <2> QED
    BY <1>0, <2>1, <2>2, <2>5, <2>7, <2>8 DEF TypeOK
<1>5. CASE ExecuteCall
  <2>1. PICK o \in Outcomes :
          /\ batch' = Append(batch, o)
          /\ audit' = IF Audited(o)
                      THEN audit \union {[id |-> LastMessage.calls[Len(batch) + 1],
                                          allowed |-> AuditAllowed(o)]}
                      ELSE audit
    BY <1>5 DEF ExecuteCall
  <2>2. LastMessage.calls[Len(batch) + 1] \in Nat
    <3>1. messages # <<>>
      BY <1>0, <1>5 DEF HistoryInv, ExecuteCall
    <3>2. LastMessage.calls \in Seq(Nat) /\ Len(batch) + 1 \in 1..Len(LastMessage.calls)
      BY <1>0, <1>5, <3>1, LastMessageType DEF ExecuteCall
    <3> QED
      BY <3>2, ElementOfSeq
  <2>3. AuditAllowed(o) \in BOOLEAN
    BY DEF AuditAllowed
  <2>4. audit' \in SUBSET [id : Nat, allowed : BOOLEAN]
    BY <1>0, <2>1, <2>2, <2>3
  <2>5. batch' \in Seq(Outcomes)
    BY <1>0, <2>1
  <2> QED
    BY <1>0, <1>5, <2>4, <2>5 DEF ExecuteCall
<1>6. CASE ExecutorReturns
  <2>1. messages # <<>>
    BY <1>0, <1>6 DEF HistoryInv, ExecutorReturns
  <2>2. messages' \in Seq(Message)
    BY <1>0, <1>6, <2>1, BatchType, ConcatProperties DEF ExecutorReturns
  <2>3. tool_trace' \in Seq(TraceEntry)
    BY <1>0, <1>6, <2>1, BatchType, ConcatProperties DEF ExecutorReturns
  <2>4. raw_results' \in SUBSET [id : Nat, outcome : Outcomes]
    BY <1>0, <1>6, <2>1, BatchType DEF ExecutorReturns
  <2> QED
    BY <1>0, <1>6, <2>2, <2>3, <2>4 DEF ExecutorReturns
<1>7. CASE Formatter
  <2>1. observations' \in SUBSET Nat
    BY <1>0, <1>7 DEF Formatter
  <2> QED
    BY <1>0, <1>7, <2>1 DEF Formatter
<1>8. CASE WikiWriter
  <2>1. run \in 1..MaxRuns /\ run \in Nat
    BY <1>0, <1>8 DEF WikiWriter
  <2>2. final_answer' \in Answer
    BY <1>0, <1>8, <2>1, FinalAnswerType DEF WikiWriter
  <2>3. reported' \in [1..MaxRuns -> Answer]
    BY <1>0, <1>8, <2>2 DEF WikiWriter
  <2>4. wiki' \in Seq(SUBSET Nat)
    BY <1>0, <1>8 DEF WikiWriter
  <2> QED
    BY <1>0, <1>8, <2>1, <2>2, <2>3, <2>4 DEF WikiWriter
<1>9. CASE Reflector
  <2>1. run \in 1..MaxRuns
    BY <1>0, <1>9 DEF Reflector
  <2>2. learned' \in SUBSET (1..MaxRuns)
    BY <1>0, <1>9, <2>1 DEF Reflector
  <2> QED
    BY <1>0, <1>9, <2>2 DEF Reflector
<1>10. CASE Abort
  <2>1. run \in 1..MaxRuns
    BY <1>0, <1>10 DEF Abort
  <2>2. CASE UNCHANGED <<wiki, session_page, learned>>
    BY <1>0, <1>10, <2>1, <2>2 DEF Abort
  <2>3. ASSUME NEW last \in observations,
               wiki' = Append(wiki, {id \in observations : id <= last}),
               session_page' \in {session_page, run}, UNCHANGED learned
        PROVE  TypeOK'
    <3>1. {id \in observations : id <= last} \in SUBSET Nat
      BY <1>0
    <3>2. wiki' \in Seq(SUBSET Nat)
      BY <1>0, <2>3, <3>1, AppendProperties
    <3> QED
      BY <1>0, <1>10, <2>1, <2>3, <3>2 DEF Abort
  <2>4. CASE learned' = learned \union {run} /\ UNCHANGED <<wiki, session_page>>
    BY <1>0, <1>10, <2>1, <2>4 DEF Abort
  <2> QED
    BY <1>10, <2>2, <2>3, <2>4 DEF Abort
<1>11. CASE UNCHANGED vars
  BY <1>0, <1>11 DEF vars
<1> QED
  BY <1>1, <1>2, <1>3, <1>4, <1>5, <1>6, <1>7, <1>8, <1>9, <1>10, <1>11
     DEF Next, Step

(***************************************************************************)
(* The history and the budget.                                             *)
(***************************************************************************)

\* What Append leaves at the end of the history.
LEMMA AppendedMessage ==
  ASSUME messages \in Seq(Message), NEW m \in Message, messages' = Append(messages, m)
  PROVE  messages' # <<>> /\ LastMessage' = m
<1>1. Len(messages') = Len(messages) + 1 /\ messages'[Len(messages) + 1] = m
  BY AppendProperties
<1>2. messages' # <<>>
  BY AppendProperties
<1> QED
  BY <1>1, <1>2 DEF LastMessage

\* The planner's step: the reply is the last message, and the conditional
\* edge looks at it and at the trace.
LEMMA PlannerReply ==
  ASSUME TypeOK, Planner
  PROVE  \E k \in 0..MaxBatch :
           /\ messages' # <<>>
           /\ messages' = Append(messages, LastMessage')
           /\ LastMessage' \in Message
           /\ LastMessage'.role = "ai"
           /\ LastMessage'.run = run
           /\ LastMessage'.content \in {"empty", "text"}
           /\ Len(LastMessage'.calls) = k
           /\ k = 0 <=> LastMessage'.calls = <<>>
           /\ ToSet(LastMessage'.calls) \subseteq (planned + 1)..(planned + k)
           /\ planned' = planned + k
           /\ node' = RouteAfterPlanner(LastMessage', tool_trace)
<1>1. PICK k \in 0..MaxBatch, t \in {"empty", "text"} :
        /\ messages' = Append(messages, AIMessage(run, [i \in 1..k |-> planned + i], t))
        /\ planned' = planned + k
        /\ node' = RouteAfterPlanner(
                     AIMessage(run, [i \in 1..k |-> planned + i], t), tool_trace)
  BY Zenon DEF Planner
<1> DEFINE ids == [i \in 1..k |-> planned + i]
<1>2. run \in Nat /\ planned \in Nat /\ k \in Nat /\ messages \in Seq(Message)
  BY GraphAssumption DEF TypeOK
<1>3. /\ ids \in Seq(Nat)
      /\ Len(ids) = k
      /\ k = 0 <=> ids = <<>>
      /\ ToSet(ids) \subseteq (planned + 1)..(planned + k)
  BY <1>2, FreshIds
<1> HIDE DEF ids
<1> DEFINE reply == AIMessage(run, ids, t)
<1>4. /\ reply \in Message /\ reply.role = "ai" /\ reply.run = run
      /\ reply.content = t /\ reply.calls = ids
  BY <1>2, <1>3, ReplyType
<1>5. /\ messages' = Append(messages, reply)
      /\ node' = RouteAfterPlanner(reply, tool_trace)
  BY <1>1 DEF ids
<1> HIDE DEF reply
<1>6. messages' # <<>> /\ LastMessage' = reply
  BY <1>2, <1>4, <1>5, AppendedMessage
<1> QED
  BY <1>1, <1>3, <1>4, <1>5, <1>6

LEMMA HistoryStep ==
  ASSUME IndInv, [Next]_vars
  PROVE  HistoryInv'
<1> USE DEF HistoryInv, ActiveNodes, StoppedNodes
<1>0. TypeOK /\ HistoryInv
  BY DEF IndInv
<1>a. messages \in Seq(Message) /\ run \in Nat /\ MaxBatch \in Nat \ {0}
  BY <1>0, GraphAssumption DEF TypeOK
<1>1. CASE Ask
  <2>1. run' \in Nat
    BY <1>a, <1>1 DEF Ask
  <2>2. messages' # <<>>
    BY <1>a, <1>1, <2>1, HumanMessageType, AppendedMessage DEF Ask
  <2> QED
    BY <1>0, <1>1, <2>2 DEF Ask
<1>2. CASE Compact
  BY <1>0, <1>2 DEF Compact
<1>3. CASE WikiReader
  BY <1>0, <1>3 DEF WikiReader, LastMessage
<1>4. CASE Planner
  <2>1. batch = <<>>
    BY <1>0, <1>4 DEF Planner
  <2>2. PICK k \in 0..MaxBatch :
          /\ messages' # <<>>
          /\ Len(LastMessage'.calls) = k
          /\ k = 0 <=> LastMessage'.calls = <<>>
          /\ node' = RouteAfterPlanner(LastMessage', tool_trace)
    BY <1>0, <1>4, PlannerReply
  <2>3. node' = "executor" => Len(LastMessage'.calls) \in 1..MaxBatch
    BY <1>a, <2>2 DEF RouteAfterPlanner
  <2>4. batch' = <<>> /\ Len(batch') = 0
    BY <1>4, <2>1 DEF Planner
  <2> QED
    BY <1>a, <2>2, <2>3, <2>4
<1>5. CASE ExecuteCall
  <2>1. Len(batch') = Len(batch) + 1 /\ Len(batch) \in Nat
    BY <1>0, <1>5, GraphAssumption DEF ExecuteCall, TypeOK
  <2>2. UNCHANGED <<node, messages>> /\ LastMessage' = LastMessage
    BY <1>5 DEF ExecuteCall, LastMessage
  <2>3. Len(batch) < Len(LastMessage.calls) /\ node = "executor"
    BY <1>5 DEF ExecuteCall
  <2> QED
    BY <1>0, <2>1, <2>2, <2>3
<1>6. CASE ExecutorReturns
  <2>1. messages' # <<>>
    <3>1. messages # <<>>
      BY <1>0, <1>6 DEF ExecutorReturns
    <3>2. [i \in 1..Len(batch) |-> ToolMessage(run, LastMessage.calls[i], batch[i])]
            \in Seq(Message)
      BY <1>0, <1>6, <3>1, BatchType DEF ExecutorReturns
    <3> QED
      BY <1>a, <1>6, <3>1, <3>2, ConcatEqualIffEmpty DEF ExecutorReturns
  <2> QED
    BY <1>6, <2>1 DEF ExecutorReturns
<1>7. CASE Formatter
  BY <1>0, <1>7 DEF Formatter
<1>8. CASE WikiWriter
  BY <1>0, <1>8 DEF WikiWriter
<1>9. CASE Reflector
  BY <1>0, <1>9 DEF Reflector
<1>10. CASE Abort
  BY <1>0, <1>10 DEF Abort
<1>11. CASE UNCHANGED vars
  BY <1>0, <1>11 DEF vars, LastMessage
<1> QED
  BY <1>1, <1>2, <1>3, <1>4, <1>5, <1>6, <1>7, <1>8, <1>9, <1>10, <1>11
     DEF Next, Step

LEMMA BudgetStep ==
  ASSUME IndInv, [Next]_vars
  PROVE  BudgetInv'
<1> USE DEF BudgetInv
<1>0. TypeOK /\ HistoryInv /\ BudgetInv
  BY DEF IndInv
<1>a. /\ steps \in Nat /\ usage \in Nat /\ Len(tool_trace) \in Nat
      /\ MaxToolCalls \in Nat \ {0} /\ MaxBatch \in Nat \ {0}
  BY <1>0, GraphAssumption DEF TypeOK
<1>1. CASE Ask
  BY <1>0, <1>1 DEF Ask
<1>2. CASE Compact
  BY <1>0, <1>2 DEF Compact, StoppedNodes
<1>3. CASE WikiReader
  BY <1>0, <1>a, <1>3 DEF WikiReader
<1>4. CASE Planner
  <2>1. /\ node = "planner" /\ usage' = usage + 1 /\ steps' = steps + 1
        /\ tool_trace' = tool_trace
    BY <1>4 DEF Planner
  <2>2. PICK k \in 0..MaxBatch : node' = RouteAfterPlanner(LastMessage', tool_trace)
    BY <1>0, <1>4, PlannerReply
  <2>3. CASE node' = "wiki_writer"
    BY <1>0, <1>a, <2>1, <2>3
  <2>4. CASE node' = "executor" /\ Len(tool_trace) < MaxToolCalls
    BY <1>0, <1>a, <2>1, <2>4
  <2>5. \/ node' = "wiki_writer"
        \/ node' = "executor" /\ ~(Len(tool_trace) >= MaxToolCalls)
    BY <2>2 DEF RouteAfterPlanner
  <2> QED
    BY <1>a, <2>3, <2>4, <2>5
<1>5. CASE ExecuteCall
  BY <1>0, <1>5 DEF ExecuteCall
<1>6. CASE ExecutorReturns
  <2>1. /\ node = "executor" /\ node' = "formatter" /\ steps' = steps + 1
        /\ usage' = usage
        /\ tool_trace' = tool_trace \o TraceOf(LastMessage.calls)
        /\ Len(batch) = Len(LastMessage.calls)
    BY <1>6 DEF ExecutorReturns
  <2>2. messages # <<>> /\ Len(batch) \in 1..MaxBatch
    BY <1>0, <2>1 DEF HistoryInv, ActiveNodes
  <2>3. Len(tool_trace') = Len(tool_trace) + Len(batch)
    <3>1. tool_trace \in Seq(TraceEntry)
      BY <1>0 DEF TypeOK
    <3>2. /\ TraceOf(LastMessage.calls) \in Seq(TraceEntry)
          /\ Len(TraceOf(LastMessage.calls)) = Len(batch)
      BY <1>0, <2>1, <2>2, BatchType
    <3>3. Len(tool_trace \o TraceOf(LastMessage.calls))
            = Len(tool_trace) + Len(TraceOf(LastMessage.calls))
      BY <3>1, <3>2, ConcatProperties, Zenon
    <3> QED
      BY <2>1, <3>2, <3>3, Zenon
  <2> QED
    BY <1>0, <1>a, <2>1, <2>2, <2>3
<1>7. CASE Formatter
  BY <1>0, <1>a, <1>7 DEF Formatter
<1>8. CASE WikiWriter
  BY <1>0, <1>a, <1>8 DEF WikiWriter
<1>9. CASE Reflector
  BY <1>0, <1>9 DEF Reflector
<1>10. CASE Abort
  BY <1>0, <1>10 DEF Abort
<1>11. CASE UNCHANGED vars
  BY <1>0, <1>11 DEF vars
<1> QED
  BY <1>1, <1>2, <1>3, <1>4, <1>5, <1>6, <1>7, <1>8, <1>9, <1>10, <1>11
     DEF Next, Step

(***************************************************************************)
(* The end of a run.                                                       *)
(***************************************************************************)

LEMMA ClosingStep ==
  ASSUME IndInv, [Next]_vars
  PROVE  ClosingInv'
<1> USE DEF ClosingInv
<1>0. TypeOK /\ ClosingInv
  BY DEF IndInv
<1>1. CASE Ask
  BY <1>1 DEF Ask
<1>2. CASE Compact
  BY <1>2 DEF Compact, StoppedNodes
<1>3. CASE WikiReader
  BY <1>3 DEF WikiReader
<1>4. CASE Planner
  <2>1. run' = run /\ tool_trace' = tool_trace
    BY <1>4 DEF Planner
  <2>2. PICK k \in 0..MaxBatch :
          /\ LastMessage'.role = "ai"
          /\ LastMessage'.run = run
          /\ LastMessage'.content \in {"empty", "text"}
          /\ node' = RouteAfterPlanner(LastMessage', tool_trace)
    BY <1>0, <1>4, PlannerReply
  <2>3. node' # "reflector"
    BY <2>2, RouteType
  <2>4. node' = "wiki_writer" /\ LastMessage'.calls # <<>> =>
          Len(tool_trace) >= MaxToolCalls
    BY <2>2 DEF RouteAfterPlanner
  <2> QED
    BY <2>1, <2>2, <2>3, <2>4
<1>5. CASE ExecuteCall
  BY <1>5 DEF ExecuteCall
<1>6. CASE ExecutorReturns
  BY <1>6 DEF ExecutorReturns
<1>7. CASE Formatter
  BY <1>7 DEF Formatter
<1>8. CASE WikiWriter
  <2>1. /\ node = "wiki_writer" /\ node' = "reflector"
        /\ UNCHANGED <<run, messages, tool_trace>> /\ LastMessage' = LastMessage
        /\ reported' = [reported EXCEPT ![run] = FinalAnswer(messages, run)]
    BY <1>8 DEF WikiWriter, LastMessage
  <2>2. run \in 1..MaxRuns /\ reported \in [1..MaxRuns -> Answer]
    BY <1>0, <2>1 DEF TypeOK, ActiveNodes
  <2>3. reported'[run] = FinalAnswer(messages, run)
    BY <2>1, <2>2
  <2>4. FinalAnswer(messages, run)' = FinalAnswer(messages, run)
    BY <2>1
  <2> QED
    BY <1>0, <2>1, <2>3, <2>4
<1>9. CASE Reflector
  BY <1>9 DEF Reflector
<1>10. CASE Abort
  BY <1>10 DEF Abort
<1>11. CASE UNCHANGED vars
  <2>1. /\ UNCHANGED <<node, run, messages, tool_trace, reported>>
        /\ LastMessage' = LastMessage
        /\ FinalAnswer(messages, run)' = FinalAnswer(messages, run)
    BY <1>11 DEF vars, LastMessage
  <2> QED
    BY <1>0, <2>1
<1> QED
  BY <1>1, <1>2, <1>3, <1>4, <1>5, <1>6, <1>7, <1>8, <1>9, <1>10, <1>11
     DEF Next, Step

(***************************************************************************)
(* What is recorded on the wiki.                                           *)
(***************************************************************************)

\* One more batch of observations on the wiki.
LEMMA AppendedBatch ==
  ASSUME wiki \in Seq(SUBSET Nat), NEW obs \in SUBSET Nat, wiki' = Append(wiki, obs)
  PROVE  /\ DOMAIN wiki' = DOMAIN wiki \union {Len(wiki) + 1}
         /\ DOMAIN wiki = 1..Len(wiki) /\ Len(wiki) \in Nat
         /\ wiki'[Len(wiki) + 1] = obs
         /\ \A i \in DOMAIN wiki : wiki'[i] = wiki[i]
<1>1. /\ DOMAIN wiki' = 1..(Len(wiki) + 1)
      /\ DOMAIN wiki = 1..Len(wiki) /\ Len(wiki) \in Nat
      /\ wiki'[Len(wiki) + 1] = obs
      /\ \A i \in 1..Len(wiki) : wiki'[i] = wiki[i]
  BY AppendProperties, LenProperties
<1>2. DOMAIN wiki' = DOMAIN wiki \union {Len(wiki) + 1}
  BY <1>1
<1> QED
  BY <1>1, <1>2

\* Recording ids that are not recorded yet keeps the batches disjoint.
LEMMA RecordFresh ==
  ASSUME wiki \in Seq(SUBSET Nat), NEW obs \in SUBSET Nat, wiki' = Append(wiki, obs),
         RecordedOnce, obs \intersect RecordedIds = {},
         planned' = planned, obs \subseteq 1..planned,
         \A i \in DOMAIN wiki : wiki[i] \subseteq 1..planned
  PROVE  /\ RecordedOnce'
         /\ \A i \in DOMAIN wiki' : wiki'[i] \subseteq 1..planned'
<1>1. /\ DOMAIN wiki' = DOMAIN wiki \union {Len(wiki) + 1}
      /\ Len(wiki) + 1 \notin DOMAIN wiki
      /\ wiki'[Len(wiki) + 1] = obs
      /\ \A i \in DOMAIN wiki : wiki'[i] = wiki[i]
  BY AppendedBatch
<1>2. \A i \in DOMAIN wiki : wiki[i] \intersect obs = {}
  BY Zenon DEF RecordedIds
<1>3. RecordedOnce'
  <2> SUFFICES ASSUME NEW i \in DOMAIN wiki', NEW j \in DOMAIN wiki', i # j
               PROVE  wiki'[i] \intersect wiki'[j] = {}
    BY DEF RecordedOnce
  <2>1. CASE i \in DOMAIN wiki /\ j \in DOMAIN wiki
    BY <1>1, <2>1 DEF RecordedOnce
  <2>2. CASE i = Len(wiki) + 1 \/ j = Len(wiki) + 1
    BY <1>1, <1>2, <2>2
  <2> QED
    BY <1>1, <2>1, <2>2
<1>4. \A i \in DOMAIN wiki' : wiki'[i] \subseteq 1..planned'
  BY <1>1
<1> QED
  BY <1>3, <1>4

LEMMA RecordStep ==
  ASSUME IndInv, [Next]_vars
  PROVE  RecordInv' /\ RecordedOnce'
<1> USE DEF RecordInv, RecordedOnce, RecordedIds
<1>0. TypeOK /\ HistoryInv /\ RecordInv /\ RecordedOnce
  BY DEF IndInv
<1>a. /\ planned \in Nat /\ wiki \in Seq(SUBSET Nat) /\ observations \in SUBSET Nat
      /\ messages \in Seq(Message)
  BY <1>0 DEF TypeOK
<1>1. CASE Ask
  BY <1>0, <1>1 DEF Ask, results
<1>2. CASE Compact
  BY <1>0, <1>2 DEF Compact, results, StoppedNodes
<1>3. CASE WikiReader
  BY <1>0, <1>3 DEF WikiReader, results
<1>4. CASE Planner
  <2>1. UNCHANGED <<wiki, observations>> /\ node = "planner"
    BY <1>4 DEF Planner, results
  <2>2. PICK k \in 0..MaxBatch :
          /\ ToSet(LastMessage'.calls) \subseteq (planned + 1)..(planned + k)
          /\ planned' = planned + k
          /\ node' = RouteAfterPlanner(LastMessage', tool_trace)
    BY <1>0, <1>4, PlannerReply
  <2>3. k \in Nat /\ 1..planned \subseteq 1..planned'
    BY <1>a, <2>2, GraphAssumption
  <2>4. node' \in {"executor", "wiki_writer"}
    BY <2>2, RouteType
  <2>5. RecordedIds' = RecordedIds /\ RecordedIds \subseteq 1..planned
    BY <1>0, <2>1
  <2> HIDE DEF RecordedIds
  <2>6. ToSet(LastMessage'.calls) \subseteq (1..planned') \ RecordedIds'
    BY <1>a, <2>2, <2>3, <2>5
  <2> QED
    BY <1>0, <2>1, <2>3, <2>4, <2>5, <2>6
<1>5. CASE ExecuteCall
  <2>1. /\ UNCHANGED <<node, planned, messages, raw_results, observations, wiki>>
        /\ LastMessage' = LastMessage
    BY <1>5 DEF ExecuteCall, results, LastMessage
  <2> QED
    BY <1>0, <2>1
<1>6. CASE ExecutorReturns
  <2>1. /\ UNCHANGED <<planned, observations, wiki>>
        /\ node = "executor" /\ node' = "formatter"
        /\ Len(batch) = Len(LastMessage.calls)
    BY <1>6 DEF ExecutorReturns, results
  <2>2. messages # <<>> /\ LastMessage.calls \in Seq(Nat)
    BY <1>0, <1>a, <2>1, LastMessageType DEF HistoryInv, ActiveNodes
  <2>3. \A i \in 1..Len(batch) : LastMessage.calls[i] \in ToSet(LastMessage.calls)
    BY <2>1, <2>2, LenProperties DEF ToSet
  <2>4. {r.id : r \in raw_results'} \subseteq ToSet(LastMessage.calls)
    BY <1>6, <2>3 DEF ExecutorReturns
  <2> QED
    BY <1>0, <2>1, <2>4
<1>7. CASE Formatter
  <2>1. /\ UNCHANGED <<planned, wiki>>
        /\ node = "formatter" /\ node' = "planner"
        /\ observations' \subseteq observations \union {r.id : r \in raw_results}
    BY <1>7 DEF Formatter, results
  <2> QED
    BY <1>0, <2>1
<1>8. CASE WikiWriter
  <2>1. /\ wiki' = Append(wiki, observations) /\ planned' = planned
        /\ node = "wiki_writer" /\ node' = "reflector"
    BY <1>8 DEF WikiWriter
  <2>2. /\ observations \intersect RecordedIds = {}
        /\ observations \subseteq 1..planned
        /\ \A i \in DOMAIN wiki : wiki[i] \subseteq 1..planned
    BY <1>0, <2>1
  <2> HIDE DEF RecordedIds, RecordedOnce
  <2> QED
    BY <1>0, <1>a, <2>1, <2>2, RecordFresh
<1>9. CASE Reflector
  BY <1>0, <1>9 DEF Reflector
<1>10. CASE Abort
  <2>1. planned' = planned /\ node' = "aborted"
    BY <1>10 DEF Abort
  <2>2. CASE UNCHANGED wiki
    BY <1>0, <2>1, <2>2
  <2>3. ASSUME node = "wiki_writer", NEW last \in observations,
               wiki' = Append(wiki, {id \in observations : id <= last})
        PROVE  RecordInv' /\ RecordedOnce'
    <3> DEFINE obs == {id \in observations : id <= last}
    <3>1. /\ observations \intersect RecordedIds = {}
          /\ observations \subseteq 1..planned
          /\ \A i \in DOMAIN wiki : wiki[i] \subseteq 1..planned
      BY <1>0, <2>3
    <3> HIDE DEF RecordedIds, RecordedOnce
    <3>2. obs \in SUBSET Nat /\ obs \intersect RecordedIds = {} /\ obs \subseteq 1..planned
      BY <1>a, <3>1
    <3>3. wiki' = Append(wiki, obs)
      BY <2>3
    <3> HIDE DEF obs
    <3>4. RecordedOnce' /\ \A i \in DOMAIN wiki' : wiki'[i] \subseteq 1..planned'
      BY <1>0, <1>a, <2>1, <3>1, <3>2, <3>3, RecordFresh
    <3> QED
      BY <2>1, <3>4
  <2> QED
    BY <1>10, <2>2, <2>3 DEF Abort
<1>11. CASE UNCHANGED vars
  <2>1. /\ UNCHANGED <<node, planned, messages, raw_results, observations, wiki>>
        /\ LastMessage' = LastMessage
    BY <1>11 DEF vars, LastMessage
  <2> QED
    BY <1>0, <2>1
<1> QED
  BY <1>1, <1>2, <1>3, <1>4, <1>5, <1>6, <1>7, <1>8, <1>9, <1>10, <1>11
     DEF Next, Step

(***************************************************************************)
(* The history that is sent to the model.                                  *)
(***************************************************************************)

\* A message that is no tool's, with calls of its own, if any.
LEMMA RequestAppend ==
  ASSUME TypeOK, RequestInv, NEW m \in Message, m.role # "tool",
         messages' = Append(messages, m), planned' \in Nat, planned <= planned',
         ToSet(m.calls) \subseteq (planned + 1)..planned'
  PROVE  /\ \A i \in DOMAIN messages' : ToSet(messages'[i].calls) \subseteq 1..planned'
         /\ Answered(messages') \subseteq 1..planned'
         /\ ValidHistory(SanitizeHistory(messages'))
         /\ ToSet(m.calls) \intersect Answered(messages') = {}
         /\ \A i \in 1..(Len(messages') - 1) :
              ToSet(messages'[i].calls) \intersect ToSet(m.calls) = {}
         /\ ValidHistory(SanitizeHistory(Front(messages')))
<1>1. planned \in Nat /\ messages \in Seq(Message)
  BY DEF TypeOK
<1>2. /\ DOMAIN messages = 1..Len(messages) /\ Len(messages) \in Nat
      /\ messages' \in Seq(Message) /\ Len(messages') = Len(messages) + 1
      /\ DOMAIN messages' = 1..(Len(messages) + 1)
      /\ messages'[Len(messages) + 1] = m
      /\ \A i \in 1..Len(messages) : messages'[i] = messages[i]
  BY <1>1, AppendProperties, LenProperties
<1>3. /\ \A i \in 1..Len(messages) : ToSet(messages[i].calls) \subseteq 1..planned
      /\ Answered(messages) \subseteq 1..planned
      /\ ValidHistory(SanitizeHistory(messages))
  BY <1>2 DEF RequestInv
<1>4. Answered(messages') = Answered(messages)
  BY <1>1, AnsweredAppend
<1>5. ToSet(m.calls) \intersect 1..planned = {} /\ 1..planned \subseteq 1..planned'
  BY <1>1
<1>6. \A i \in DOMAIN messages' : ToSet(messages'[i].calls) \subseteq 1..planned'
  <2> TAKE i \in DOMAIN messages'
  <2>1. CASE i \in 1..Len(messages)
    BY <1>2, <1>3, <1>5, <2>1
  <2>2. CASE i = Len(messages) + 1
    <3>1. (planned + 1)..planned' \subseteq 1..planned'
      BY <1>1
    <3> QED
      BY <1>2, <2>2, <3>1
  <2> QED
    BY <1>2, <2>1, <2>2
<1>7. ValidHistory(SanitizeHistory(messages'))
  BY <1>1, <1>3, <1>5, SanitizedReply
<1>8. Front(messages') = messages
  <2>1. messages' # <<>>
    BY <1>2, EmptySeq
  <2>2. /\ Front(messages') \in Seq(Message) /\ Len(Front(messages')) = Len(messages)
        /\ \A i \in 1..Len(messages) : Front(messages')[i] = messages'[i]
    <3> DEFINE msgs == messages'
    <3>1. msgs \in Seq(Message) /\ msgs # <<>> /\ Len(msgs) - 1 = Len(messages)
      BY <1>2, <2>1
    <3> HIDE DEF msgs
    <3>2. /\ Front(msgs) \in Seq(Message) /\ Len(Front(msgs)) = Len(msgs) - 1
          /\ \A i \in 1..(Len(msgs) - 1) : Front(msgs)[i] = msgs[i]
      BY <3>1, HistorySplit
    <3> QED
      BY <3>1, <3>2 DEF msgs
  <2> QED
    BY <1>1, <1>2, <2>2, SeqEqual
<1>9. \A i \in 1..(Len(messages') - 1) :
        ToSet(messages'[i].calls) \intersect ToSet(m.calls) = {}
  BY <1>2, <1>3, <1>5
<1> QED
  BY <1>3, <1>4, <1>5, <1>6, <1>7, <1>8, <1>9

LEMMA RequestStep ==
  ASSUME IndInv, [Next]_vars
  PROVE  RequestInv'
<1>0. TypeOK /\ HistoryInv /\ RequestInv
  BY DEF IndInv
<1>a. messages \in Seq(Message) /\ run \in Nat /\ planned \in Nat
  BY <1>0, GraphAssumption DEF TypeOK
<1>b. ASSUME UNCHANGED <<messages, planned>>, node' = "executor" => node = "executor"
      PROVE  RequestInv'
  <2>1. /\ LastMessage' = LastMessage /\ Answered(messages') = Answered(messages)
        /\ SanitizeHistory(messages') = SanitizeHistory(messages)
        /\ SanitizeHistory(Front(messages')) = SanitizeHistory(Front(messages))
    BY <1>b DEF LastMessage
  <2> QED
    BY <1>0, <1>b, <2>1 DEF RequestInv
<1>1. CASE Ask
  <2>1. /\ messages' = Append(messages, HumanMessage(run')) /\ planned' = planned
        /\ run' \in Nat /\ node' = "wiki_reader"
    BY <1>a, <1>1 DEF Ask
  <2>2. /\ HumanMessage(run') \in Message /\ HumanMessage(run').role # "tool"
        /\ ToSet(HumanMessage(run').calls) = {}
    BY <2>1, HumanMessageType DEF ToSet
  <2> DEFINE m == HumanMessage(run')
  <2> HIDE DEF m
  <2>3. m \in Message /\ m.role # "tool" /\ ToSet(m.calls) = {} /\ messages' = Append(messages, m)
    BY <2>1, <2>2 DEF m
  <2>4. /\ \A i \in DOMAIN messages' : ToSet(messages'[i].calls) \subseteq 1..planned'
        /\ Answered(messages') \subseteq 1..planned'
        /\ ValidHistory(SanitizeHistory(messages'))
    BY <1>0, <1>a, <2>1, <2>3, RequestAppend
  <2> QED
    BY <2>1, <2>4 DEF RequestInv
<1>2. CASE Compact
  <2> DEFINE h == HumanMessage(0)
             a == AIMessage(0, <<>>, "text")
  <2>1. /\ h \in Message /\ h.role # "tool" /\ h.calls = <<>>
        /\ a \in Message /\ a.role # "tool" /\ a.calls = <<>>
    BY CompactedMessages, Zenon
  <2>2. /\ messages' = <<h, a>> /\ node' = node /\ node # "executor" /\ planned' = planned
    BY <1>2 DEF Compact, StoppedNodes
  <2> HIDE DEF h, a
  <2>3. /\ <<h>> \in Seq(Message) /\ <<>> \in Seq(Message)
        /\ <<h>> = Append(<<>>, h) /\ messages' = Append(<<h>>, a)
    BY <2>1, <2>2
  <2>4. ToSet(h.calls) = {} /\ ToSet(a.calls) = {}
    BY <2>1 DEF ToSet
  <2>5. Answered(messages') = {}
    BY <2>1, <2>2 DEF Answered
  <2>6. \A i \in DOMAIN messages' : ToSet(messages'[i].calls) = {}
    BY <2>2, <2>4
  <2>7. SanitizeHistory(<<>>) = <<>> /\ ValidHistory(<<>>)
    BY FlattenEmpty DEF SanitizeHistory, ValidHistory
  <2>8. ValidHistory(SanitizeHistory(<<h>>))
    BY <2>1, <2>3, <2>4, <2>7, SanitizedReply
  <2>9. ValidHistory(SanitizeHistory(messages'))
    BY <2>1, <2>3, <2>4, <2>8, SanitizedReply
  <2> QED
    BY <2>2, <2>5, <2>6, <2>9 DEF RequestInv
<1>3. CASE WikiReader
  BY <1>b, <1>3 DEF WikiReader
<1>4. CASE Planner
  <2> DEFINE m == LastMessage'
  <2>1. PICK k \in 0..MaxBatch :
          /\ messages' = Append(messages, m)
          /\ m \in Message /\ m.role = "ai"
          /\ ToSet(m.calls) \subseteq (planned + 1)..(planned + k)
          /\ planned' = planned + k
    BY <1>0, <1>4, PlannerReply
  <2>2. k \in Nat /\ planned' \in Nat /\ planned <= planned'
    BY <1>a, <2>1, GraphAssumption
  <2> HIDE DEF m
  <2>3. /\ \A i \in DOMAIN messages' : ToSet(messages'[i].calls) \subseteq 1..planned'
        /\ Answered(messages') \subseteq 1..planned'
        /\ ValidHistory(SanitizeHistory(messages'))
        /\ ToSet(m.calls) \intersect Answered(messages') = {}
        /\ \A i \in 1..(Len(messages') - 1) :
             ToSet(messages'[i].calls) \intersect ToSet(m.calls) = {}
        /\ ValidHistory(SanitizeHistory(Front(messages')))
    BY <1>0, <2>1, <2>2, RequestAppend
  <2> QED
    BY <2>1, <2>3 DEF RequestInv, m
<1>5. CASE ExecuteCall
  BY <1>b, <1>5 DEF ExecuteCall
<1>6. CASE ExecutorReturns
  <2> DEFINE front == Front(messages)
             m == LastMessage
             t == [i \in 1..Len(batch) |-> ToolMessage(run, m.calls[i], batch[i])]
  <2>1. /\ node = "executor" /\ node' = "formatter" /\ planned' = planned
        /\ messages' = messages \o t /\ Len(batch) = Len(m.calls)
    BY <1>6 DEF ExecutorReturns
  <2>2. messages # <<>>
    BY <1>0, <2>1 DEF HistoryInv, ActiveNodes
  <2>3. /\ Len(messages) \in Nat \ {0} /\ DOMAIN messages = 1..Len(messages)
        /\ front \in Seq(Message) /\ Len(front) = Len(messages) - 1
        /\ \A i \in 1..(Len(messages) - 1) : front[i] = messages[i]
        /\ m \in Message /\ messages = Append(front, m)
    BY <1>a, <2>2, HistorySplit DEF LastMessage
  <2>4. /\ m.role # "tool"
        /\ \A i \in 1..Len(front) : ToSet(front[i].calls) \intersect ToSet(m.calls) = {}
        /\ ValidHistory(SanitizeHistory(front))
    BY <1>0, <2>1, <2>3 DEF RequestInv
  <2>5. t \in Seq(Message) /\ Len(batch) \in Nat
    BY <1>0, <2>1, <2>2, BatchType DEF TypeOK
  <2>6. /\ Len(t) = Len(m.calls)
        /\ \A k \in 1..Len(t) : /\ t[k].role = "tool" /\ t[k].calls = <<>>
                                /\ t[k].answers = m.calls[k]
    BY <2>1, <2>5 DEF ToolMessage
  <2>7. ToSet(m.calls) \subseteq 1..planned
    BY <1>0, <2>3 DEF RequestInv, LastMessage
  <2> HIDE DEF front, m, t
  <2>8. ValidHistory(SanitizeHistory(messages'))
    BY <2>1, <2>3, <2>4, <2>5, <2>6, SanitizedBatch
  <2>9. Answered(messages') \subseteq 1..planned'
    <3>1. Answered(messages') = Answered(messages) \union Answered(t)
      BY <1>a, <2>1, <2>5, AnsweredConcat
    <3>2. Answered(t) \subseteq ToSet(m.calls)
      BY <2>3, <2>5, <2>6, CallsOf, LenProperties DEF Answered
    <3> QED
      BY <1>0, <2>1, <2>7, <3>1, <3>2 DEF RequestInv
  <2>10. \A i \in DOMAIN messages' : ToSet(messages'[i].calls) \subseteq 1..planned'
    <3>1. /\ messages' \in Seq(Message) /\ Len(messages') = Len(messages) + Len(t)
          /\ Len(t) \in Nat
          /\ \A i \in 1..(Len(messages) + Len(t)) :
               messages'[i] = IF i <= Len(messages) THEN messages[i]
                                                    ELSE t[i - Len(messages)]
      BY <1>a, <2>1, <2>5, ConcatProperties
    <3> TAKE i \in DOMAIN messages'
    <3>2. i \in 1..(Len(messages) + Len(t))
      BY <3>1, LenProperties
    <3>3. CASE i <= Len(messages)
      BY <1>0, <2>1, <2>3, <3>1, <3>2, <3>3 DEF RequestInv
    <3>4. CASE ~(i <= Len(messages))
      <4>1. i - Len(messages) \in 1..Len(t)
        BY <2>3, <3>1, <3>2, <3>4
      <4>2. messages'[i].calls = <<>>
        BY <2>6, <3>1, <3>2, <3>4, <4>1
      <4> QED
        BY <4>2 DEF ToSet
    <3> QED
      BY <3>3, <3>4
  <2> QED
    BY <2>1, <2>8, <2>9, <2>10 DEF RequestInv
<1>7. CASE Formatter
  BY <1>b, <1>7 DEF Formatter
<1>8. CASE WikiWriter
  BY <1>b, <1>8 DEF WikiWriter
<1>9. CASE Reflector
  BY <1>b, <1>9 DEF Reflector
<1>10. CASE Abort
  BY <1>b, <1>10 DEF Abort
<1>11. CASE UNCHANGED vars
  BY <1>b, <1>11 DEF vars
<1> QED
  BY <1>1, <1>2, <1>3, <1>4, <1>5, <1>6, <1>7, <1>8, <1>9, <1>10, <1>11
     DEF Next, Step

(***************************************************************************)
(* What the run has obtained.                                              *)
(***************************************************************************)

LEMMA ToSetAppend ==
  ASSUME NEW msgs \in Seq(Message), NEW m \in Message
  PROVE  ToSet(Append(msgs, m)) = ToSet(msgs) \union {m}
<1>1. /\ DOMAIN msgs = 1..Len(msgs) /\ Len(msgs) \in Nat
      /\ DOMAIN Append(msgs, m) = 1..(Len(msgs) + 1)
      /\ Append(msgs, m)[Len(msgs) + 1] = m
      /\ \A i \in 1..Len(msgs) : Append(msgs, m)[i] = msgs[i]
  BY AppendProperties, LenProperties
<1> QED
  BY <1>1 DEF ToSet

\* No tool message comes or goes.
LEMMA ObtainedKept ==
  ASSUME TypeOK, ObtainedInv, NEW m \in Message, m.role # "tool", m.run <= run,
         messages' = Append(messages, m), run' = run
  PROVE  /\ Obtained' = Obtained
         /\ \A i \in DOMAIN messages' : messages'[i].run <= run'
<1>1. messages \in Seq(Message)
  BY DEF TypeOK
<1>2. ToSet(messages') = ToSet(messages) \union {m}
  BY <1>1, ToSetAppend
<1>3. RunResults' = RunResults
  BY <1>2 DEF RunResults
<1>4. \A x \in ToSet(messages') : x.run <= run
  BY <1>2 DEF ObtainedInv, ToSet
<1> QED
  BY <1>3, <1>4 DEF Obtained, ToSet

LEMMA ObtainedStep ==
  ASSUME IndInv, [Next]_vars
  PROVE  ObtainedInv'
<1>0. TypeOK /\ HistoryInv /\ ObtainedInv
  BY DEF IndInv
<1>a. messages \in Seq(Message) /\ run \in Nat
  BY <1>0, GraphAssumption DEF TypeOK
<1>b. ASSUME UNCHANGED <<messages, run>>
      PROVE  /\ Obtained' = Obtained
             /\ \A i \in DOMAIN messages' : messages'[i].run <= run'
  BY <1>0, <1>b DEF Obtained, RunResults, ObtainedInv
<1>1. CASE Ask
  <2>1. /\ messages' = Append(messages, HumanMessage(run')) /\ run' = run + 1
        /\ node' = "wiki_reader" /\ run' \in Nat
    BY <1>a, <1>1 DEF Ask
  <2>2. PICK m \in Message : /\ messages' = Append(messages, m)
                            /\ m.role = "human" /\ m.run = run'
    BY <2>1, HumanMessageType
  <2>3. ToSet(messages') = ToSet(messages) \union {m}
    BY <1>a, <2>2, ToSetAppend
  <2>4. \A x \in ToSet(messages) : x.run <= run /\ x.run \in Nat
    BY <1>0, <1>a, MessageFields, ElementOfSeq, LenProperties DEF ObtainedInv, ToSet
  <2>5. RunResults' = {} /\ \A x \in ToSet(messages') : x.run <= run'
    BY <1>a, <2>1, <2>2, <2>3, <2>4 DEF RunResults
  <2> QED
    BY <2>1, <2>5 DEF ObtainedInv, Obtained, ToSet
<1>2. CASE Compact
  <2>1. /\ messages' = <<HumanMessage(0), AIMessage(0, <<>>, "text")>>
        /\ run' = run /\ node' = node /\ node \in StoppedNodes
    BY <1>2 DEF Compact
  <2>2. /\ HumanMessage(0).role # "tool" /\ AIMessage(0, <<>>, "text").role # "tool"
        /\ HumanMessage(0).run = 0 /\ AIMessage(0, <<>>, "text").run = 0
    BY CompactedMessages, Zenon
  <2>3. ToSet(messages') = {HumanMessage(0), AIMessage(0, <<>>, "text")}
    BY <2>1 DEF ToSet
  <2>4. \A x \in ToSet(messages') : x.role # "tool" /\ x.run = 0
    BY <2>2, <2>3, Zenon
  <2>5. RunResults' = {}
    BY <2>4, Zenon DEF RunResults
  <2>6. run' = run /\ 0 <= run
    BY <1>a, <2>1
  <2>7. \A x \in ToSet(messages') : x.run <= run'
    BY <2>4, <2>6
  <2> QED
    BY <2>1, <2>5, <2>7 DEF ObtainedInv, Obtained, ToSet, StoppedNodes
<1>3. CASE WikiReader
  BY <1>0, <1>b, <1>3 DEF WikiReader, ObtainedInv
<1>4. CASE Planner
  <2>1. node = "planner" /\ run' = run /\ observations' = observations
    BY <1>4 DEF Planner
  <2>2. PICK k \in 0..MaxBatch :
          /\ messages' = Append(messages, LastMessage')
          /\ LastMessage' \in Message /\ LastMessage'.role = "ai" /\ LastMessage'.run = run
          /\ node' = RouteAfterPlanner(LastMessage', tool_trace)
    BY <1>0, <1>4, PlannerReply
  <2>3. node' \in {"executor", "wiki_writer"}
    BY <2>2, RouteType
  <2>4. /\ Obtained' = Obtained
        /\ \A i \in DOMAIN messages' : messages'[i].run <= run'
    <3> DEFINE m == LastMessage'
    <3>1. m \in Message /\ m.role # "tool" /\ m.run <= run /\ messages' = Append(messages, m)
      BY <1>a, <2>2
    <3> HIDE DEF m
    <3> QED
      BY <1>0, <2>1, <3>1, ObtainedKept
  <2> QED
    BY <1>0, <2>1, <2>3, <2>4 DEF ObtainedInv
<1>5. CASE ExecuteCall
  BY <1>0, <1>b, <1>5 DEF ExecuteCall, ObtainedInv
<1>6. CASE ExecutorReturns
  <2> DEFINE ids == LastMessage.calls
             t == [i \in 1..Len(batch) |-> ToolMessage(run, ids[i], batch[i])]
  <2>1. /\ node = "executor" /\ node' = "formatter" /\ run' = run
        /\ observations' = observations
        /\ messages' = messages \o t /\ Len(batch) = Len(ids)
        /\ raw_results' = {[id |-> ids[i], outcome |-> batch[i]] :
                              i \in {j \in 1..Len(batch) : ReturnsResult(batch[j])}}
    BY <1>6 DEF ExecutorReturns
  <2>2. messages # <<>>
    BY <1>0, <2>1 DEF HistoryInv, ActiveNodes
  <2>3. t \in Seq(Message) /\ Len(batch) \in Nat
    BY <1>0, <2>1, <2>2, BatchType DEF TypeOK
  <2>4. \A i \in 1..Len(batch) : /\ t[i].run = run /\ t[i].answers = ids[i]
                                 /\ t[i].content = batch[i]
    BY DEF ToolMessage
  <2>5. Len(t) = Len(batch) /\ DOMAIN t = 1..Len(batch)
    BY <2>3
  <2> HIDE DEF t, ids
  <2>6. ToSet(messages') \subseteq ToSet(messages) \union {t[i] : i \in 1..Len(batch)}
    <3>1. /\ messages' \in Seq(Message) /\ Len(messages') = Len(messages) + Len(t)
          /\ Len(messages) \in Nat /\ DOMAIN messages = 1..Len(messages)
          /\ \A i \in 1..(Len(messages) + Len(t)) :
               messages'[i] = IF i <= Len(messages) THEN messages[i]
                                                    ELSE t[i - Len(messages)]
      BY <1>a, <2>1, <2>3, ConcatProperties, LenProperties
    <3> SUFFICES ASSUME NEW i \in DOMAIN messages'
                 PROVE  messages'[i] \in ToSet(messages) \union {t[j] : j \in 1..Len(batch)}
      BY DEF ToSet
    <3>2. i \in 1..(Len(messages) + Len(t))
      BY <3>1, LenProperties
    <3>3. CASE i <= Len(messages)
      BY <3>1, <3>2, <3>3 DEF ToSet
    <3>4. CASE ~(i <= Len(messages))
      <4>1. i - Len(messages) \in 1..Len(batch)
        BY <2>3, <2>5, <3>1, <3>2, <3>4
      <4>2. messages'[i] = t[i - Len(messages)]
        BY <3>1, <3>2, <3>4
      <4> QED
        BY <4>1, <4>2
    <3> QED
      BY <3>3, <3>4
  <2>7. \A x \in ToSet(messages') : x.run <= run'
    <3>1. \A x \in ToSet(messages) : x.run <= run
      BY <1>0 DEF ObtainedInv, ToSet
    <3>2. \A i \in 1..Len(batch) : t[i].run <= run
      BY <1>a, <2>4
    <3> QED
      BY <2>1, <2>6, <3>1, <3>2
  <2>8. ASSUME NEW x \in ToSet(messages'), x.role = "tool", x.run = run, Observed(x.content)
        PROVE  x.answers \in observations'
                 \union {r.id : r \in {y \in raw_results' : Observed(y.outcome)}}
    <3>1. CASE x \in ToSet(messages)
      BY <1>0, <2>1, <2>8, <3>1 DEF ObtainedInv, Obtained, RunResults
    <3>2. ASSUME NEW i \in 1..Len(batch), x = t[i]
          PROVE  x.answers \in {r.id : r \in {y \in raw_results' : Observed(y.outcome)}}
      <4>1. Observed(batch[i]) /\ x.answers = ids[i]
        BY <2>4, <2>8, <3>2
      <4>2. ReturnsResult(batch[i])
        BY <4>1 DEF Observed, ReturnsResult, ExecutorOutcome
      <4>3. [id |-> ids[i], outcome |-> batch[i]] \in raw_results'
        BY <2>1, <4>2
      <4> QED
        BY <4>1, <4>3
    <3> QED
      BY <2>6, <3>1, <3>2
  <2>9. Obtained' \subseteq observations'
          \union {r.id : r \in {y \in raw_results' : Observed(y.outcome)}}
    BY <2>1, <2>8 DEF Obtained, RunResults
  <2> QED
    BY <2>1, <2>7, <2>9 DEF ObtainedInv, ToSet
<1>7. CASE Formatter
  BY <1>0, <1>b, <1>7 DEF Formatter, ObtainedInv
<1>8. CASE WikiWriter
  <2>1. /\ UNCHANGED <<messages, run>> /\ node = "wiki_writer" /\ node' = "reflector"
        /\ wiki' = Append(wiki, observations)
    BY <1>8 DEF WikiWriter
  <2>2. observations \subseteq RecordedIds'
    <3>1. /\ wiki'[Len(wiki) + 1] = observations /\ Len(wiki) + 1 \in DOMAIN wiki'
      BY <1>0, <2>1, AppendedBatch DEF TypeOK
    <3> QED
      BY <3>1 DEF RecordedIds
  <2>3. /\ Obtained' = Obtained /\ Obtained \subseteq observations
        /\ \A i \in DOMAIN messages' : messages'[i].run <= run'
    BY <1>0, <1>b, <2>1 DEF ObtainedInv
  <2> QED
    BY <2>1, <2>2, <2>3 DEF ObtainedInv
<1>9. CASE Reflector
  BY <1>0, <1>b, <1>9 DEF Reflector, ObtainedInv, RecordedIds
<1>10. CASE Abort
  BY <1>0, <1>b, <1>10 DEF Abort, ObtainedInv
<1>11. CASE UNCHANGED vars
  BY <1>0, <1>b, <1>11 DEF vars, ObtainedInv, RecordedIds
<1> QED
  BY <1>1, <1>2, <1>3, <1>4, <1>5, <1>6, <1>7, <1>8, <1>9, <1>10, <1>11
     DEF Next, Step

(***************************************************************************)
(* The theorems.                                                           *)
(***************************************************************************)

LEMMA Inductive == Spec => []IndInv
<1>1. Init => IndInv
  BY InitIndInv
<1>2. IndInv /\ [Next]_vars => IndInv'
  BY TypeStep, HistoryStep, BudgetStep, ClosingStep, RecordStep,
     ObtainedStep, RequestStep DEF IndInv
<1> QED
  BY <1>1, <1>2, PTL DEF Spec

\* Every variable of a thread stays in its domain.
THEOREM TypeCorrect == Spec => []TypeOK
<1>1. IndInv => TypeOK
  BY DEF IndInv
<1> QED
  BY <1>1, Inductive, PTL

\* With the limit that recommended_recursion_limit derives from the budget no
\* run is cut short by LangGraph, whatever the model asks for.
THEOREM NeverCutShort == Spec => []NoRecursionError
<1>1. IndInv => NoRecursionError
  BY GraphAssumption DEF IndInv, BudgetInv, TypeOK, NoRecursionError, ActiveNodes,
     CanStep, RecursionLimit
<1> QED
  BY <1>1, Inductive, PTL

\* No tool runs once the budget is spent, and a run stays within its budget
\* but for the rest of its last batch.
THEOREM WithinBudget == Spec => []BudgetRespected
<1>1. IndInv => BudgetRespected
  BY DEF IndInv, BudgetInv, BudgetRespected
<1> QED
  BY <1>1, Inductive, PTL

\* No observation reaches the wiki twice, however runs end or stop.
THEOREM NeverRecordedTwice == Spec => []RecordedOnce
<1>1. IndInv => RecordedOnce
  BY DEF IndInv
<1> QED
  BY <1>1, Inductive, PTL

\* A run stopped by its budget always leaves the reflector a signal.
THEOREM BudgetStopSignalled == Spec => []BudgetStopIsASignal
<1>1. IndInv => BudgetStopIsASignal
  <2> SUFFICES ASSUME IndInv, node = "reflector", LastMessage.calls # <<>>
               PROVE  RunSignals(tool_trace) # {}
    BY DEF BudgetStopIsASignal
  <2>1. Len(tool_trace) >= MaxToolCalls
    BY DEF IndInv, ClosingInv
  <2>2. "budget_exhausted" \in RunSignals(tool_trace)
    BY <2>1 DEF RunSignals
  <2> QED
    BY <2>2
<1> QED
  BY <1>1, Inductive, PTL

\* A run whose last reply asks for no tool shows the user that reply or its
\* own summary, however long the thread is.
THEOREM OwnReply == Spec => []OwnReplyReported
<1>1. IndInv => OwnReplyReported
  <2> SUFFICES ASSUME IndInv, node = "reflector", LastMessage.calls = <<>>
               PROVE  reported[run] = [run  |-> run,
                        kind |-> IF LastMessage.content = "empty" THEN "summary"
                                                                 ELSE "text"]
    BY DEF OwnReplyReported
  <2> DEFINE own == Plain(messages)
             last == CHOOSE i \in own : \A j \in own : j <= i
  <2>1. Len(messages) \in Nat /\ DOMAIN messages = 1..Len(messages)
        /\ Len(messages) \in DOMAIN messages
    BY EmptySeq, LenProperties DEF IndInv, TypeOK, HistoryInv, ActiveNodes
  <2>2. LastMessage.role = "ai" /\ LastMessage.run = run
    BY DEF IndInv, ClosingInv
  <2>3. Len(messages) \in own /\ \A j \in own : j \in Nat /\ j <= Len(messages)
    BY <2>1, <2>2 DEF Plain, LastMessage
  <2>4. last = Len(messages)
    <3>1. last \in own /\ \A j \in own : j <= last
      BY <2>3
    <3> HIDE DEF last, own
    <3> QED
      BY <2>1, <2>3, <3>1
  <2>5. reported[run] = FinalAnswer(messages, run)
    BY DEF IndInv, ClosingInv
  <2> QED
    BY <2>2, <2>3, <2>4, <2>5 DEF FinalAnswer, LastMessage
<1> QED
  BY <1>1, Inductive, PTL

\* Whatever the runs of a thread left behind, the history the planner sends is
\* one that the chat back ends accept, however long it is.
THEOREM RequestsAreValid == Spec => []RequestHistoryValid
<1>1. IndInv => RequestHistoryValid
  BY DEF IndInv, RequestInv, RequestHistoryValid
<1> QED
  BY <1>1, Inductive, PTL

\* A run that comes to its end has everything it observed on the wiki.
THEOREM NothingLost == Spec => []NothingObservedIsLost
<1>1. IndInv => NothingObservedIsLost
  BY DEF IndInv, ObtainedInv, NothingObservedIsLost
<1> QED
  BY <1>1, Inductive, PTL

=============================================================================
