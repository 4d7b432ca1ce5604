------------------------ MODULE CloneRelease_proofs ------------------------
(***************************************************************************)
(* What is proved of clones into the sandbox cluster, for every release    *)
(* helm may render, every number of clones, and every failure in between.  *)
(***************************************************************************)
EXTENDS CloneRelease, TLAPS

\* The secrets a stub is made for.
Needs(d) == Used(d, {"env", "volume"})

Resolved(d) ==
  \A r \in Needs(d) :
    \/ r[1] \in removed
    \/ r \in cluster.stubs
    \/ r[2] = Unnamed /\ \E s \in cluster.stubs : s[1] = r[1]

\* What sanitize_manifests leaves of a document.
Clean(d) ==
  /\ d.kind \notin Rbac \cup {"Secret"}
  /\ d.cloud \cap Stripped(d) = {}
  /\ scaled /\ d.kind \in Scalable => d.replicas = 1

DataInv ==
  /\ docs \subseteq Doc /\ removed \subseteq Secrets
  /\ cluster \in [namespace : BOOLEAN, docs : SUBSET Doc, stubs : SUBSET Ref]
  /\ {scale, stubbed, scaled} \subseteq BOOLEAN
  /\ pc = "idle" => docs = {}

\* The sandbox holds what is clean, and so does a clone once it was sanitized.
CleanInv ==
  /\ \A d \in cluster.docs : Clean(d)
  /\ pc \notin {"idle", "kinds"} => \A d \in docs : Clean(d)
  /\ pc # "idle" /\ scaled => scale

\* The documents on their way know their secrets, and then find them, unless the
\* namespace was taken away and nothing can be applied any more.
RefsInv ==
  /\ stubbed => \A d \in cluster.docs : Resolved(d)
  /\ pc \in {"namespace", "stubs"} => \A d \in docs : Needs(d) \subseteq refs
  /\ pc \in {"images", "apply"} /\ stubbed /\ cluster.namespace => \A d \in docs : Resolved(d)
  /\ refs \subseteq Ref

IndInv == DataInv /\ CleanInv /\ RefsInv

LEMMA InitInv == Init => IndInv
  BY DEF Init, IndInv, DataInv, CleanInv, RefsInv

\* build_secret_stubs: the stubs of a set of references answer each of them.
LEMMA StubsAnswer ==
  ASSUME NEW rs \in SUBSET Ref, NEW r \in rs
  PROVE  \/ r \in Stubs(rs)
         \/ r[2] = Unnamed /\ \E s \in Stubs(rs) : s[1] = r[1]
<1>1. CASE r[2] = Unnamed /\ \E q \in rs : q[1] = r[1] /\ q[2] # Unnamed
  <2>1. PICK q \in rs : q[1] = r[1] /\ q[2] # Unnamed
    BY <1>1
  <2>2. q \in Stubs(rs)
    BY <2>1 DEF Stubs
  <2> QED
    BY <1>1, <2>1, <2>2
<1>2. CASE ~(r[2] = Unnamed /\ \E q \in rs : q[1] = r[1] /\ q[2] # Unnamed)
  BY <1>2 DEF Stubs
<1> QED
  BY <1>1, <1>2

\* What is used is a reference.
LEMMA NeedsType ==
  ASSUME NEW d \in Doc
  PROVE  Needs(d) \subseteq Ref
  BY DEF Needs, Used, Doc

\* Cleaning keeps the kind and the secrets of a document.
LEMMA CleanedDoc ==
  ASSUME NEW d \in Doc, scale \in BOOLEAN
  PROVE  /\ Cleaned(d) \in Doc /\ Cleaned(d).kind = d.kind
         /\ Cleaned(d).cloud \cap Stripped(Cleaned(d)) = {}
         /\ Needs(Cleaned(d)) = Needs(d)
         /\ scale /\ d.kind \in Scalable => Cleaned(d).replicas = 1
<1>1. d = [kind |-> d.kind, name |-> d.name, cloud |-> d.cloud, replicas |-> d.replicas,
           uses |-> d.uses]
  BY DEF Doc
<1>2. \E n \in {1, d.replicas} :
        /\ Cleaned(d) = [d EXCEPT !.cloud = @ \ Stripped(d), !.replicas = n]
        /\ scale /\ d.kind \in Scalable => n = 1
  BY DEF Cleaned
<1>3. PICK n \in {1, d.replicas} :
        /\ Cleaned(d) = [d EXCEPT !.cloud = @ \ Stripped(d), !.replicas = n]
        /\ scale /\ d.kind \in Scalable => n = 1
  BY <1>2
<1>4. Cleaned(d) = [kind |-> d.kind, name |-> d.name, cloud |-> d.cloud \ Stripped(d),
                    replicas |-> n, uses |-> d.uses]
  BY <1>1, <1>3
<1>5. Cleaned(d) \in Doc
  BY <1>4 DEF Doc
<1>6. Stripped(Cleaned(d)) = Stripped(d) /\ Needs(Cleaned(d)) = Needs(d)
  BY <1>4 DEF Stripped, Needs, Used
<1> QED
  BY <1>3, <1>4, <1>5, <1>6

LEMMA FetchStep ==
  ASSUME Renderable, IndInv, NEW d \in Release, NEW e \in Release, NEW toOne \in BOOLEAN,
         Fetch({d, e}, toOne)
  PROVE  IndInv'
<1>1. UNCHANGED <<cluster, stubbed, removed>> /\ scale' = toOne /\ scaled' \in {scaled, scaled /\ toOne}
  BY DEF Fetch
<1>2. \/ pc' = "kinds" /\ docs' = {d, e} /\ refs' = {} /\ scaled' = (scaled /\ toOne)
      \/ pc' = "idle" /\ docs' = {} /\ refs' = {} /\ scaled' = scaled
  BY DEF Fetch, Ends
<1>3. DataInv'
  BY <1>1, <1>2 DEF IndInv, DataInv, Renderable
<1>4. CleanInv'
  BY <1>1, <1>2 DEF IndInv, CleanInv, DataInv, Clean
<1>5. RefsInv'
  BY <1>1, <1>2 DEF IndInv, RefsInv, Resolved
<1> QED
  BY <1>3, <1>4, <1>5 DEF IndInv

LEMMA SanitizeStep ==
  ASSUME IndInv, NEW known \in SUBSET Custom, Sanitize(known)
  PROVE  IndInv'
<1> DEFINE kept == {d \in docs : Kept(d, known)}
<1>1. /\ docs' = {Cleaned(d) : d \in kept} /\ refs' = SecretRefs(kept)
      /\ pc = "kinds" /\ pc' = "namespace"
      /\ UNCHANGED <<scale, cluster, stubbed, scaled, removed>>
  BY DEF Sanitize
<1>2. \A d \in kept : d \in Doc /\ d.kind \notin Rbac \cup {"Secret"}
  BY DEF IndInv, DataInv, Kept
<1>3. scale \in BOOLEAN /\ scaled \in BOOLEAN /\ (scaled => scale)
  BY <1>1 DEF IndInv, DataInv, CleanInv
<1> HIDE DEF kept
<1>4. DataInv'
  BY <1>1, <1>2, <1>3, CleanedDoc DEF IndInv, DataInv
<1>5. CleanInv'
  <2>1. \A d \in docs' : Clean(d)'
    BY <1>1, <1>2, <1>3, CleanedDoc DEF Clean
  <2> QED
    BY <1>1, <1>3, <2>1 DEF IndInv, CleanInv, Clean
<1>6. RefsInv'
  <2>1. \A d \in kept : Needs(d) \subseteq refs'
    BY <1>1 DEF SecretRefs, Needs
  <2>2. \A d \in docs' : Needs(d) \subseteq refs'
    BY <1>1, <1>2, <1>3, <2>1, CleanedDoc
  <2>3. refs' \subseteq Ref
    BY <1>1, <1>2, NeedsType DEF SecretRefs, Needs
  <2> QED
    BY <1>1, <2>2, <2>3 DEF IndInv, RefsInv, Resolved
<1> QED
  BY <1>4, <1>5, <1>6 DEF IndInv

LEMMA NamespaceStep ==
  ASSUME IndInv, EnsureNamespace
  PROVE  IndInv'
<1>1. /\ pc = "namespace" /\ pc' = IF refs = {} THEN "images" ELSE "stubs"
      /\ UNCHANGED <<docs, refs, scale, stubbed, scaled, removed>>
  BY DEF EnsureNamespace
<1>2. PICK ok \in BOOLEAN : cluster' = [cluster EXCEPT !.namespace = @ \/ ok]
  BY DEF EnsureNamespace
<1>3. /\ cluster' \in [namespace : BOOLEAN, docs : SUBSET Doc, stubs : SUBSET Ref]
      /\ cluster'.docs = cluster.docs /\ cluster'.stubs = cluster.stubs
  BY <1>2 DEF IndInv, DataInv
<1>4. DataInv' /\ CleanInv'
  BY <1>1, <1>3 DEF IndInv, DataInv, CleanInv, Clean
<1>5. refs = {} => \A d \in docs : Needs(d) = {}
  BY <1>1 DEF IndInv, RefsInv
<1>6. RefsInv'
  BY <1>1, <1>3, <1>5 DEF IndInv, RefsInv, Resolved
<1> QED
  BY <1>4, <1>6 DEF IndInv

LEMMA StubsStep ==
  ASSUME IndInv, ApplyStubs
  PROVE  IndInv'
<1>1. pc = "stubs" /\ pc' = "images" /\ UNCHANGED <<docs, refs, scale, scaled, removed>>
  BY DEF ApplyStubs
<1>2. PICK ok \in BOOLEAN :
        /\ cluster' = IF ok THEN [cluster EXCEPT !.stubs = @ \cup Stubs(refs)] ELSE cluster
        /\ stubbed' = (stubbed /\ ok)
  BY DEF ApplyStubs
<1>3. Stubs(refs) \subseteq refs /\ refs \subseteq Ref
  BY DEF Stubs, IndInv, RefsInv
<1>4. /\ cluster' \in [namespace : BOOLEAN, docs : SUBSET Doc, stubs : SUBSET Ref]
      /\ cluster'.docs = cluster.docs
      /\ cluster'.stubs = IF ok THEN cluster.stubs \cup Stubs(refs) ELSE cluster.stubs
  BY <1>2, <1>3 DEF IndInv, DataInv
<1>5. DataInv' /\ CleanInv'
  BY <1>1, <1>2, <1>4 DEF IndInv, DataInv, CleanInv, Clean
<1>6. \A d \in docs : Needs(d) \subseteq refs
  BY <1>1 DEF IndInv, RefsInv
<1>7. ok => \A d \in docs : Resolved(d)'
  BY <1>1, <1>3, <1>4, <1>6, StubsAnswer DEF Resolved
<1>8. \A d : Resolved(d) => Resolved(d)'
  BY <1>1, <1>4 DEF Resolved
<1>9. RefsInv'
  BY <1>1, <1>2, <1>3, <1>4, <1>7, <1>8 DEF IndInv, RefsInv
<1> QED
  BY <1>5, <1>9 DEF IndInv

\* What an apply leaves was there before or is the clone's own.
LEMMA AppliedStep ==
  ASSUME IndInv, pc = "apply", NEW ok \in SUBSET docs, ok # {} => cluster.namespace,
         cluster' = [cluster EXCEPT !.docs = Applied(docs, ok)],
         UNCHANGED <<scale, scaled, stubbed, removed>>
  PROVE  /\ cluster' \in [namespace : BOOLEAN, docs : SUBSET Doc, stubs : SUBSET Ref]
         /\ cluster'.stubs = cluster.stubs
         /\ \A d \in cluster'.docs : Clean(d)'
         /\ stubbed => \A d \in cluster'.docs : Resolved(d)'
         /\ \A d : Resolved(d) => Resolved(d)'
<1>1. Applied(docs, ok) \subseteq cluster.docs \cup ok
  BY DEF Applied
<1>2. /\ cluster' \in [namespace : BOOLEAN, docs : SUBSET Doc, stubs : SUBSET Ref]
      /\ cluster'.stubs = cluster.stubs /\ cluster'.docs = Applied(docs, ok)
      /\ cluster'.namespace = cluster.namespace
  BY <1>1 DEF IndInv, DataInv
<1>3. \A d \in cluster.docs \cup docs : Clean(d)
  BY DEF IndInv, CleanInv
<1>4. stubbed => \A d \in cluster.docs \cup ok : Resolved(d)
  BY DEF IndInv, RefsInv
<1> QED
  BY <1>1, <1>2, <1>3, <1>4 DEF Clean, Resolved

LEMMA ManifestStep ==
  ASSUME IndInv, ApplyManifest
  PROVE  IndInv'
<1>1. pc = "apply" /\ pc' = "pods" /\ UNCHANGED <<docs, refs, scale, stubbed, scaled, removed>>
  BY DEF ApplyManifest
<1>2. PICK ok \in SUBSET docs : /\ ok # {} => cluster.namespace
                              /\ cluster' = [cluster EXCEPT !.docs = Applied(docs, ok)]
  BY DEF ApplyManifest
<1>3. /\ cluster' \in [namespace : BOOLEAN, docs : SUBSET Doc, stubs : SUBSET Ref]
      /\ \A d \in cluster'.docs : Clean(d)'
      /\ stubbed => \A d \in cluster'.docs : Resolved(d)'
  BY <1>1, <1>2, AppliedStep
<1> QED
  BY <1>1, <1>3 DEF IndInv, DataInv, CleanInv, RefsInv, Clean

\* The end of a clone that leaves the sandbox clean and resolved.
LEMMA EndStep ==
  ASSUME IndInv, Ends, UNCHANGED <<scale, scaled, removed>>, stubbed' \in BOOLEAN,
         cluster' \in [namespace : BOOLEAN, docs : SUBSET Doc, stubs : SUBSET Ref],
         \A d \in cluster'.docs : Clean(d)', stubbed' => \A d \in cluster'.docs : Resolved(d)'
  PROVE  IndInv'
  BY DEF IndInv, DataInv, CleanInv, RefsInv, Ends

LEMMA RaisesStep ==
  ASSUME IndInv, Raises
  PROVE  IndInv'
<1>1. Ends /\ UNCHANGED <<scale, scaled, removed>> /\ stubbed' \in BOOLEAN /\ (stubbed' => stubbed)
  BY DEF Raises, IndInv, DataInv
<1>2. CASE pc = "apply"
  <2>1. PICK ok \in SUBSET docs : /\ ok # {} => cluster.namespace
                                /\ cluster' = [cluster EXCEPT !.docs = Applied(docs, ok)]
    BY <1>2 DEF Raises
  <2>2. stubbed' = stubbed
    BY <1>2 DEF Raises, IndInv, DataInv
  <2> QED
    BY <1>1, <1>2, <2>1, <2>2, AppliedStep, EndStep
<1>3. CASE pc # "apply"
  <2>1. UNCHANGED cluster
    BY <1>3 DEF Raises
  <2> QED
    BY <1>1, <2>1, EndStep DEF IndInv, DataInv, CleanInv, RefsInv, Clean, Resolved
<1> QED
  BY <1>2, <1>3

LEMMA PodsStep ==
  ASSUME IndInv, PodsStatus
  PROVE  IndInv'
  BY EndStep DEF PodsStatus, IndInv, DataInv, CleanInv, RefsInv, Clean, Resolved

\* Secrets go with their name, documents with their kind and name.
LEMMA RemoveStep ==
  ASSUME IndInv, NEW kind, NEW name, RemoveResource(kind, name)
  PROVE  IndInv'
<1> DEFINE gone == {r \in cluster.stubs : kind = "Secret" /\ r[1] = name}
<1>1. /\ cluster' = [cluster EXCEPT !.docs = {d \in @ : d.kind # kind \/ d.name # name},
                                    !.stubs = @ \ gone]
      /\ removed' = removed \cup {r[1] : r \in gone}
      /\ UNCHANGED <<pc, docs, refs, scale, stubbed, scaled>>
  BY DEF RemoveResource
<1>2. \A r \in cluster.stubs : r[1] \in Secrets
  BY DEF IndInv, DataInv, Ref
<1>3. gone \subseteq cluster.stubs /\ \A r \in cluster.stubs : r \in gone => r[1] \in removed'
  BY <1>1
<1>4. \A r \in cluster.stubs : r[1] \in removed' \/ r \notin gone
  BY <1>3
<1>5. removed' \subseteq Secrets /\ removed \subseteq removed'
  BY <1>1, <1>2 DEF IndInv, DataInv
<1> HIDE DEF gone
<1>6. /\ cluster' \in [namespace : BOOLEAN, docs : SUBSET Doc, stubs : SUBSET Ref]
      /\ cluster'.docs \subseteq cluster.docs /\ cluster'.stubs = cluster.stubs \ gone
      /\ cluster'.namespace = cluster.namespace
  BY <1>1 DEF IndInv, DataInv
<1>7. ASSUME NEW d, Resolved(d) PROVE Resolved(d)'
  <2> SUFFICES ASSUME NEW r \in Needs(d), r[1] \notin removed'
               PROVE  \/ r \in cluster'.stubs
                      \/ r[2] = Unnamed /\ \E t \in cluster'.stubs : t[1] = r[1]
    BY DEF Resolved, Needs, Used
  <2>1. \/ r \in cluster.stubs
        \/ r[2] = Unnamed /\ \E t \in cluster.stubs : t[1] = r[1]
    BY <1>5, <1>7 DEF Resolved
  <2> QED
    BY <1>4, <1>6, <2>1
<1>8. DataInv' /\ CleanInv'
  BY <1>1, <1>5, <1>6 DEF IndInv, DataInv, CleanInv, Clean
<1>9. RefsInv'
  BY <1>1, <1>6, <1>7 DEF IndInv, RefsInv
<1> QED
  BY <1>8, <1>9 DEF IndInv

LEMMA RemoveNamespaceStep ==
  ASSUME IndInv, RemoveNamespace
  PROVE  IndInv'
<1>1. /\ cluster' = [namespace |-> FALSE, docs |-> {}, stubs |-> {}]
      /\ UNCHANGED <<pc, docs, refs, scale, stubbed, scaled, removed>>
  BY DEF RemoveNamespace
<1>2. /\ cluster' \in [namespace : BOOLEAN, docs : SUBSET Doc, stubs : SUBSET Ref]
      /\ cluster'.docs = {} /\ ~cluster'.namespace
  BY <1>1
<1> QED
  BY <1>1, <1>2 DEF IndInv, DataInv, CleanInv, RefsInv, Clean

LEMMA InvStep ==
  ASSUME Renderable
  PROVE  IndInv /\ [Next]_vars => IndInv'
<1> SUFFICES ASSUME IndInv, [Next]_vars PROVE IndInv'
  OBVIOUS
<1>1. CASE UNCHANGED vars
  BY <1>1 DEF vars, IndInv, DataInv, CleanInv, RefsInv, Clean, Resolved
<1>2. CASE LoadImages
  BY <1>2 DEF LoadImages, IndInv, DataInv, CleanInv, RefsInv, Clean, Resolved
<1>3. CASE Next /\ ~LoadImages
  BY <1>3, FetchStep, SanitizeStep, NamespaceStep, StubsStep, ManifestStep, PodsStep,
     RaisesStep, RemoveStep, RemoveNamespaceStep DEF Next
<1> QED
  BY <1>1, <1>2, <1>3

LEMMA Invariance ==
  ASSUME Renderable
  PROVE  Spec => []IndInv
<1>1. IndInv /\ [Next]_vars => IndInv'
  BY InvStep
<1> QED
  BY <1>1, InitInv, PTL DEF Spec

\* manifest_sanitizer.py: whatever is cloned, and wherever a clone fails or is cut
\* off, the sandbox holds only documents that went through the sanitizer: nothing
\* of what it takes out of their kind is left.
THEOREM SandboxStaysClean ==
  ASSUME Renderable
  PROVE  Spec => []SandboxIsClean
<1>1. IndInv => SandboxIsClean
  BY DEF IndInv, CleanInv, Clean, Stripped, SandboxIsClean
<1> QED
  BY <1>1, Invariance, PTL

\* sandbox_ops.py: whatever is cloned over what, a workload in the sandbox finds the
\* secrets its environment and secret volumes refer to, as long as no apply of stubs
\* failed and nobody removed the secret.
THEOREM SecretsComeFirst ==
  ASSUME Renderable
  PROVE  Spec => []RefsResolve
<1>1. IndInv => RefsResolve
  BY DEF IndInv, RefsInv, Resolved, Needs, RefsResolve
<1> QED
  BY <1>1, Invariance, PTL

\* The steps and the counter: what the other invariants do not say of the types.
StepInv ==
  /\ pc \in {"idle", "kinds", "namespace", "stubs", "images", "apply", "pods"}
  /\ left \in 0 .. Clones

LEMMA StepStep ==
  ASSUME Clones \in Nat, StepInv, [Next]_vars
  PROVE  StepInv'
<1> USE DEF StepInv
<1>1. ASSUME NEW ds, NEW toOne, Fetch(ds, toOne) PROVE StepInv'
  BY <1>1 DEF Fetch, Ends
<1>2. ASSUME NEW known, Sanitize(known) PROVE StepInv'
  BY <1>2 DEF Sanitize
<1>3. CASE EnsureNamespace
  BY <1>3 DEF EnsureNamespace
<1>4. CASE ApplyStubs
  BY <1>4 DEF ApplyStubs
<1>5. CASE LoadImages \/ ApplyManifest
  BY <1>5 DEF LoadImages, ApplyManifest
<1>6. CASE PodsStatus \/ Raises
  BY <1>6 DEF PodsStatus, Raises, Ends
<1>7. ASSUME NEW kind, NEW name, RemoveResource(kind, name) \/ RemoveNamespace PROVE StepInv'
  BY <1>7 DEF RemoveResource, RemoveNamespace
<1>8. CASE UNCHANGED vars
  BY <1>8 DEF vars
<1> QED
  BY <1>1, <1>2, <1>3, <1>4, <1>5, <1>6, <1>7, <1>8 DEF Next

\* clone_release: documents, references and the sandbox keep their form through the
\* cleaning and through whatever part of an apply gets through.
THEOREM TypeCorrect ==
  ASSUME Renderable, Clones \in Nat
  PROVE  Spec => []TypeOK
<1>1. Init => StepInv
  BY DEF Init, StepInv
<1>2. StepInv /\ IndInv => TypeOK
  BY DEF StepInv, IndInv, DataInv, RefsInv, TypeOK
<1> QED
  BY <1>1, <1>2, StepStep, Invariance, PTL DEF Spec
=============================================================================
