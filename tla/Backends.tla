------------------------------ MODULE Backends ------------------------------
(***************************************************************************)
(* What the real drivers of pkg/cluster do to the systems behind them, and  *)
(* what they say of them: objects of a Kubernetes API server                *)
(* (k8s_driver.go) and jobs of a Flux instance (flux_cgo.go).  The systems  *)
(* themselves are external.                                                 *)
(*                                                                          *)
(* The emulators are not here: without --dev the server places nothing on   *)
(* an emulated cluster (dispatchable) and refuses one without a real driver *)
(* that does not ask to be emulated (RegisterCluster).                      *)
(***************************************************************************)
EXTENDS Naturals, FiniteSets

CONSTANTS
  Subs,            \* submissions of users
  Clusters,
  AppName,         \* submission -> the name in its jobspec
  Pods,            \* submission -> nodes it asks for, one pod each
  MaxPodFailures,  \* how often a pod of one job may fail
  MaxGone,         \* how many native jobs may disappear
  None

ASSUME BackendsAssumption ==
  /\ Pods \in [Subs -> Nat \ {0}] /\ MaxPodFailures \in Nat /\ MaxGone \in Nat
  /\ None \notin Subs \cup Clusters \cup Nat

\* What a driver makes on a cluster: a batch Job, a MiniCluster, a Flux job.
Kinds == {"k8s_job", "flux_operator", "flux_uri"}

VARIABLES
  kind,     \* cluster -> what serves it
  objects,  \* [cluster, name] -> the native job of that name
  minted,   \* cluster -> native ids given out
  gone      \* history: the native jobs that disappeared

worldVars == <<kind, objects, minted, gone>>

Put(f, x, v) == [y \in DOMAIN f \cup {x} |-> IF y = x THEN v ELSE f[y]]
Drop(f, S) == [y \in DOMAIN f \ S |-> f[y]]

Kubernetes(c) == kind[c] \in {"k8s_job", "flux_operator"}

Handles == [cluster : Clusters, name : [app : {AppName[s] : s \in Subs} \cup {None},
                                        no : Nat \cup {None}]]

Objects == [sub : Subs, succeeded : Nat, failed : Nat, end : {"no", "succeeded", "failed"}]

Object(s) == [sub |-> s, succeeded |-> 0, failed |-> 0, end |-> "no"]

\* MUTANT: the API server is left to choose a name.
NameGenerated(c, s, id) == [app |-> AppName[s], no |-> Cardinality(DOMAIN objects)]

\* The name of the native job: a batch Job has that of the jobspec, a
\* MiniCluster the job's id as well, Flux numbers its own.
Name(c, s, id) ==
  CASE kind[c] = "k8s_job"       -> [app |-> AppName[s], no |-> None]
    [] kind[c] = "flux_operator" -> [app |-> AppName[s], no |-> id]
    [] kind[c] = "flux_uri"      -> [app |-> None, no |-> minted[c] + 1]

\* Submit creates h for s, or finds the name taken.
Taken(h) == h \in DOMAIN objects

Created(h, s) ==
  /\ objects' = Put(objects, h, Object(s))
  /\ minted' = [minted EXCEPT ![h.cluster] = IF Kubernetes(h.cluster) THEN @ ELSE @ + 1]
  /\ UNCHANGED <<kind, gone>>

\* MUTANT: a Job that shows nothing yet has no state.
ReadStateBlank(o) ==
  CASE o.failed > 0                     -> "FAILED"
    [] o.failed = 0 /\ o.succeeded > 0 -> "COMPLETED"
    [] OTHER                            -> ""

\* readState of a batch Job: one failed pod fails it, else one that succeeded
\* completes it.
ReadState(o) ==
  CASE o.failed > 0                     -> "FAILED"
    [] o.failed = 0 /\ o.succeeded > 0 -> "COMPLETED"
    [] OTHER                            -> "RUNNING"

\* MUTANT: a MiniCluster whose Job shows nothing yet is taken for done.
OwnedJobStateEager(o) ==
  CASE o.succeeded > 0                  -> "COMPLETED"
    [] o.succeeded = 0 /\ o.failed > 0 -> "FAILED"
    [] OTHER                            -> "COMPLETED"

\* ownedJobState: the same Job asked about the other way round.
OwnedJobState(o) ==
  CASE o.succeeded > 0                  -> "COMPLETED"
    [] o.succeeded = 0 /\ o.failed > 0 -> "FAILED"
    [] OTHER                            -> "RUNNING"

\* Status of the Flux driver; a result it cannot read counts as completed.
FluxStates(o) ==
  CASE o.end = "no"        -> {"RUNNING"}
    [] o.end = "succeeded" -> {"COMPLETED"}
    [] o.end = "failed"    -> {"FAILED", "COMPLETED"}

\* What the kind of a cluster makes of a native job.
Reading(h) ==
  CASE kind[h.cluster] = "k8s_job"       -> {ReadState(objects[h])}
    [] kind[h.cluster] = "flux_operator" -> {OwnedJobState(objects[h])}
    [] kind[h.cluster] = "flux_uri"      -> FluxStates(objects[h])

\* MUTANT: what is not there may still appear.
StatusAnswersWaiting(h) == IF Taken(h) THEN Reading(h) ELSE {"RUNNING"}

\* What Status may answer for h: a vanished Kubernetes object is completed.
StatusAnswers(h) == IF Taken(h) THEN Reading(h) ELSE {"COMPLETED"}

-----------------------------------------------------------------------------
(* The world *)

\* A pod succeeds, the last one ends the job.  Flux knows no pods: its job ends
\* at once.
PodSucceeds(h) ==
  /\ objects[h].end = "no"
  /\ objects' = [objects EXCEPT ![h].succeeded = @ + 1,
                                ![h].end = IF ~Kubernetes(h.cluster)
                                                \/ objects[h].succeeded + 1 = Pods[objects[h].sub]
                                             THEN "succeeded" ELSE "no"]
  /\ UNCHANGED <<kind, minted, gone>>

\* A pod fails: the job controller makes another one, or gives up.
PodFails(h) ==
  /\ objects[h].end = "no"
  /\ objects[h].failed < MaxPodFailures
  /\ \E end \in IF Kubernetes(h.cluster) THEN {"no", "failed"} ELSE {"failed"} :
       objects' = [objects EXCEPT ![h].failed = @ + 1, ![h].end = end]
  /\ UNCHANGED <<kind, minted, gone>>

\* Somebody deletes the object, or it is reaped after its end.
Vanish(h) ==
  /\ Kubernetes(h.cluster) /\ Cardinality(gone) < MaxGone
  /\ objects' = Drop(objects, {h}) /\ gone' = gone \cup {h}
  /\ UNCHANGED <<kind, minted>>

World == \E h \in DOMAIN objects : PodSucceeds(h) \/ PodFails(h) \/ Vanish(h)
=============================================================================
