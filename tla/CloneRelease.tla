---------------------------- MODULE CloneRelease ----------------------------
(***************************************************************************)
(* Copying a helm release into the local kind cluster                      *)
(* (tools/sandbox_ops.py, tools/manifest_sanitizer.py, clone_cli.py).      *)
(*                                                                         *)
(* A clone reads the release's manifest, asks the sandbox which kinds it   *)
(* knows, cleans the documents, and applies the namespace, stubs for the   *)
(* secrets the workloads refer to, and the documents.  The exit codes of   *)
(* the three applies are not looked at; any command may also raise, and    *)
(* the clone ends where it is.  Clones follow one another into the same    *)
(* namespace; resources of it may be removed at any time.                  *)
(***************************************************************************)
EXTENDS Integers

CONSTANTS
  Secrets, Keys,    \* secrets the workloads refer to, and the keys they name
  Names,            \* names of the documents
  Release,          \* bound: the documents helm may render for a release
  Clones            \* bound: clones

VARIABLES
  pc,               \* step of the clone that runs
  docs,             \* its documents: as rendered, then as cleaned
  refs,             \* report.secret_stubs
  scale,            \* scale_to_one
  cluster,          \* what the sandbox namespace holds
  stubbed,          \* every apply of stubs got through, so far
  scaled,           \* every clone so far was scaled to one
  removed,          \* history: secrets that were removed from the sandbox
  left              \* clones still to come

vars == <<pc, docs, refs, scale, cluster, stubbed, scaled, removed, left>>

Workloads == {"Deployment", "StatefulSet", "Job"}
Core == Workloads \cup {"Service", "PersistentVolumeClaim"}
Rbac == {"Role"}
Custom == {"Custom"}
Kinds == Core \cup Rbac \cup Custom \cup {"Secret"}

Unnamed == "placeholder"
Ref == Secrets \X (Keys \cup {Unnamed})

\* What only a cloud can run, by its place: an AWS annotation of the document,
\* one of a pod template, the placement of pods, a load balancer, a storage class.
Places == {"annotation", "template", "placement", "balancer", "storage"}

\* uses: the secret keys a pod refers to in its environment, in its secret
\* volumes or in projected ones (envFrom and a volume without items name no key).
Doc == [kind : Kinds, name : Names, cloud : SUBSET Places, replicas : 1 .. 2,
        uses : SUBSET ({"env", "volume", "projected"} \X Ref)]

Renderable == Release \subseteq Doc

TypeOK ==
  /\ pc \in {"idle", "kinds", "namespace", "stubs", "images", "apply", "pods"}
  /\ \A d \in docs \cup cluster.docs : d \in Doc
  /\ refs \subseteq Ref /\ removed \subseteq Secrets
  /\ cluster.namespace \in BOOLEAN /\ cluster.stubs \subseteq Ref
  /\ {scale, stubbed, scaled} \subseteq BOOLEAN
  /\ left \in 0 .. Clones

Init ==
  /\ pc = "idle" /\ docs = {} /\ refs = {} /\ scale = TRUE
  /\ cluster = [namespace |-> FALSE, docs |-> {}, stubs |-> {}]
  /\ stubbed = TRUE /\ scaled = TRUE /\ removed = {}
  /\ left = Clones

(***************************************************************************)
(* sanitize_manifests.                                                     *)
(***************************************************************************)
\* Kept: no access rights, no secrets, and of the custom kinds those the
\* sandbox knows.
Kept(d, known) ==
  /\ d.kind \notin Rbac
  /\ d.kind # "Secret"
  /\ d.kind \in Custom => d.kind \in known

\* What is taken out of a document: its annotations whatever its kind, the rest
\* in the kinds whose specification the sanitizer knows.
Stripped(d) ==
  {"annotation"}
    \cup (IF d.kind \in Workloads THEN {"placement"} ELSE {})
    \cup (IF d.kind = "Service" THEN {"balancer"} ELSE {})
    \cup (IF d.kind \in {"StatefulSet", "PersistentVolumeClaim"} THEN {"storage"} ELSE {})

Scalable == {"Deployment", "StatefulSet"}

\* Replicas are left as they were rendered.
AsScaled(d) == [d EXCEPT !.cloud = @ \ Stripped(d)]

\* _strip_aws_annotations, _sanitize_pod_spec and the branches of a kind.
Cleaned(d) ==
  [d EXCEPT !.cloud = @ \ Stripped(d),
            !.replicas = IF scale /\ d.kind \in Scalable THEN 1 ELSE @]

\* What a pod of a known workload refers to in the places _collect_secret_refs
\* looks at; neither projected volumes nor the pods of custom kinds are.
Used(d, places) ==
  IF d.kind \in Workloads THEN {u[2] : u \in {u \in d.uses : u[1] \in places}} ELSE {}

EnvRefs(ds) == UNION {Used(d, {"env"}) : d \in ds}
SecretRefs(ds) == UNION {Used(d, {"env", "volume"}) : d \in ds}

(***************************************************************************)
(* clone_release, one action per command it runs.                          *)
(***************************************************************************)
Ends == pc' = "idle" /\ docs' = {} /\ refs' = {}

\* fetch_manifest; a failure raises.
Fetch(ds, toOne) ==
  /\ pc = "idle" /\ left > 0
  /\ left' = left - 1
  /\ scale' = toOne
  /\ \/ /\ pc' = "kinds" /\ docs' = ds /\ refs' = {}
        /\ scaled' = (scaled /\ toOne)
     \/ Ends /\ UNCHANGED scaled
  /\ UNCHANGED <<cluster, stubbed, removed>>

\* available_kinds and the cleaning.  A sandbox that does not answer knows no
\* custom kind (available or None).
Sanitize(known) ==
  /\ pc = "kinds"
  /\ LET kept == {d \in docs : Kept(d, known)} IN
       /\ docs' = {Cleaned(d) : d \in kept}
       /\ refs' = SecretRefs(kept)
  /\ pc' = "namespace"
  /\ UNCHANGED <<scale, cluster, stubbed, scaled, removed, left>>

EnsureNamespace ==
  /\ pc = "namespace"
  /\ \E ok \in BOOLEAN : cluster' = [cluster EXCEPT !.namespace = @ \/ ok]
  /\ pc' = IF refs = {} THEN "images" ELSE "stubs"
  /\ UNCHANGED <<docs, refs, scale, stubbed, scaled, removed, left>>

\* What kubectl apply leaves of documents it is given: documents it had under
\* the same kind and name are replaced, and any of the given ones may fail.
Applied(given, ok) ==
  {d \in cluster.docs : ~\E g \in ok : g.kind = d.kind /\ g.name = d.name} \cup ok

\* build_secret_stubs: the keys the references name, or a placeholder.
Stubs(rs) ==
  {r \in rs : r[2] = Unnamed => \A q \in rs : q[1] = r[1] => q[2] = Unnamed}

\* The apply of the stubs, before the workloads that need them.
\* A secret that is there keeps its keys.
ApplyStubs ==
  /\ pc = "stubs"
  /\ \E ok \in BOOLEAN :
       /\ (ok => cluster.namespace)
       /\ cluster' = IF ok THEN [cluster EXCEPT !.stubs = @ \cup Stubs(refs)] ELSE cluster
       /\ stubbed' = (stubbed /\ ok)
  /\ pc' = "images"
  /\ UNCHANGED <<docs, refs, scale, scaled, removed, left>>

\* load_image, when asked for: what fails is listed and the clone goes on.
LoadImages ==
  /\ pc = "images"
  /\ pc' = "apply"
  /\ UNCHANGED <<docs, refs, scale, cluster, stubbed, scaled, removed, left>>

ApplyManifest ==
  /\ pc = "apply"
  /\ \E ok \in SUBSET docs :
       /\ (ok # {} => cluster.namespace)
       /\ cluster' = [cluster EXCEPT !.docs = Applied(docs, ok)]
  /\ pc' = "pods"
  /\ UNCHANGED <<docs, refs, scale, stubbed, scaled, removed, left>>

PodsStatus ==
  /\ pc = "pods"
  /\ Ends
  /\ UNCHANGED <<scale, cluster, stubbed, scaled, removed, left>>

\* A command timed out: the exception ends the clone.  The apply that was cut
\* off may have reached the sandbox in part.
Raises ==
  /\ pc # "idle"
  /\ IF pc = "apply"
       THEN \E ok \in SUBSET docs :
              /\ (ok # {} => cluster.namespace)
              /\ cluster' = [cluster EXCEPT !.docs = Applied(docs, ok)]
       ELSE UNCHANGED cluster
  /\ stubbed' = (stubbed /\ pc # "stubs")
  /\ Ends
  /\ UNCHANGED <<scale, scaled, removed, left>>

\* remove_resource, by kind and name: a secret takes its keys along.
RemoveResource(kind, name) ==
  /\ kind \in Core \cup {"Secret"}
  /\ LET gone == {r \in cluster.stubs : kind = "Secret" /\ r[1] = name} IN
       /\ cluster' = [cluster EXCEPT !.docs = {d \in @ : d.kind # kind \/ d.name # name},
                                     !.stubs = @ \ gone]
       /\ removed' = removed \cup {r[1] : r \in gone}
  /\ UNCHANGED <<pc, docs, refs, scale, stubbed, scaled, left>>

\* remove_resource of the namespace.  It goes on its own (--wait=false), and
\* takes nothing more until it is gone.
RemoveNamespace ==
  /\ cluster.namespace
  /\ cluster' = [namespace |-> FALSE, docs |-> {}, stubs |-> {}]
  /\ UNCHANGED <<pc, docs, refs, scale, stubbed, scaled, removed, left>>

Next ==
  \/ \E ds \in {{d, e} : d, e \in Release} : \E toOne \in BOOLEAN : Fetch(ds, toOne)
  \/ \E known \in SUBSET Custom : Sanitize(known)
  \/ EnsureNamespace \/ ApplyStubs \/ LoadImages \/ ApplyManifest
  \/ PodsStatus \/ Raises
  \/ \E kind \in Kinds, name \in Names \cup Secrets : RemoveResource(kind, name)
  \/ RemoveNamespace

Spec == Init /\ [][Next]_vars

(***************************************************************************)
(* Properties.                                                             *)
(***************************************************************************)
\* manifest_sanitizer.py: whatever clones came before, failed or were cut off,
\* the sandbox holds no access rights and no copied secret, no document with an
\* AWS annotation, nothing only a cloud can run where the sanitizer knows the
\* kind, and one replica of a workload if that was always asked.  It says nothing
\* of pod templates' annotations and of the specification of custom kinds, which
\* are left as they were rendered.
SandboxIsClean ==
  \A d \in cluster.docs :
    /\ d.kind \notin Rbac \cup {"Secret"}
    /\ "annotation" \notin d.cloud
    /\ d.kind \in Workloads => "placement" \notin d.cloud
    /\ d.kind = "Service" => "balancer" \notin d.cloud
    /\ d.kind \in {"StatefulSet", "PersistentVolumeClaim"} => "storage" \notin d.cloud
    /\ scaled /\ d.kind \in Scalable => d.replicas = 1

\* A workload is never in the sandbox before the secrets its environment and its
\* secret volumes refer to, as long as no apply of stubs failed (sandbox_ops.py
\* does not look at its result) and the secret was never removed: clones into one
\* namespace do not take each other's keys away, nor does a namespace that is
\* removed under a clone.  For projected volumes and the pods of custom kinds no
\* stub is made.
RefsResolve ==
  stubbed =>
    \A d \in cluster.docs : \A r \in Used(d, {"env", "volume"}) :
      \/ r[1] \in removed
      \/ r \in cluster.stubs
      \/ r[2] = Unnamed /\ \E s \in cluster.stubs : s[1] = r[1]
=============================================================================
