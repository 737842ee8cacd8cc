--------------------------- MODULE FluxionMatcher ---------------------------
(***************************************************************************)
(* pkg/matcher/fluxion.go and fluxion_worker.go: the matcher over Fluxion.   *)
(* Every graph lives in a worker process of its own; a cluster context      *)
(* holds one worker for containment (or none) and one per auxiliary         *)
(* subsystem, and owner maps an allocation id to the context it came from.  *)
(*                                                                          *)
(* Workers are spawned before m.mu is taken, so AddCluster and AddSubsystem *)
(* are a spawning step and a locked step; every other method is one locked  *)
(* step.  A worker's graph is the number of jobs it has room for.  External *)
(* (flux-sched): a context numbers its own jobs from 1, and cancel of a job *)
(* it does not have changes nothing.                                        *)
(***************************************************************************)
EXTENDS Naturals, FiniteSets, SequencesExt

CONSTANTS
  Clusters,    \* cluster ids
  Names,       \* auxiliary subsystem names
  Graphs,      \* graphs that can be loaded, as room for jobs
  Requests,    \* places for concurrent AddCluster and AddSubsystem calls
  MaxWorkers,  \* bound on workers spawned
  MaxContexts, \* bound on AddCluster calls
  MaxGrants,   \* bound on allocations granted
  None

ASSUME FluxionAssumption ==
  /\ Graphs \subseteq Nat /\ MaxWorkers \in Nat /\ MaxContexts \in Nat
  /\ MaxGrants \in Nat
  /\ IsFiniteSet(Names) /\ None \notin Clusters \cup Names \cup Nat \cup {"containment"}

VARIABLES
  workers,   \* the worker processes, in order of spawning
  contexts,  \* the clusterCtx objects, in order of creation
  clusters,  \* cluster id -> its context
  order,     \* registered ids, oldest first
  owner,     \* allocation id -> context
  requests,  \* place -> call that has spawned its workers, or None
  grants     \* what callers of Allocate hold (history)

vars == <<workers, contexts, clusters, order, owner, requests, grants>>

Worker == [up : BOOLEAN, room : Graphs, jobs : SUBSET (1..MaxGrants), next : Nat]

Spawned(g) == [up |-> TRUE, room |-> g, jobs |-> {}, next |-> 1]

ClusterCtx == [id : Clusters, descriptive : BOOLEAN, cont : Nat \cup {None},
               subs : UNION {[D -> Nat] : D \in SUBSET Names}]

\* A call that has spawned its workers: AddCluster (name None) with the context
\* to install, or AddSubsystem with its one worker.
Call == [cluster : Clusters, name : Names \cup {"containment", None},
         ctx : ClusterCtx \cup Nat]

ASSUME CallAssumption == None \notin Call

Put(f, x, v) == [y \in DOMAIN f \cup {x} |-> IF y = x THEN v ELSE f[y]]

Drop(f, S) == [y \in DOMAIN f \ S |-> f[y]]

\* close: kill the process; its jobs are gone with it.  None is a nil worker.
Closed(S) ==
  [w \in DOMAIN workers |->
     IF w \in S THEN [workers[w] EXCEPT !.up = FALSE, !.jobs = {}] ELSE workers[w]]

\* The workers of a context.
WorkersOf(ctx) == ({ctx.cont} \cup {ctx.subs[name] : name \in DOMAIN ctx.subs}) \ {None}

Context(c) == contexts[clusters[c]]

Init ==
  /\ workers = <<>> /\ contexts = <<>> /\ clusters = <<>> /\ order = <<>>
  /\ owner = <<>> /\ requests = [r \in Requests |-> None] /\ grants = <<>>

Arrive(request) ==
  \E r \in Requests :
    /\ requests[r] = None
    /\ \A q \in Requests : requests[q] = None => r <= q
    /\ requests' = [requests EXCEPT ![r] = request]

Done(r) == requests' = [requests EXCEPT ![r] = None]

-----------------------------------------------------------------------------
(* Clusters and subsystems *)

\* AddCluster, before the lock, of a cluster with containment g (None if it
\* has none yet) and auxiliary graphs aux.  When a later worker fails to start
\* the earlier ones are closed and the call returns.
AddClusterSpawn(c, descriptive, g, aux) ==
  LET n == Len(workers)
      cont == IF g = None THEN <<>> ELSE <<Spawned(g)>>
      names == SetToSeq(DOMAIN aux)
      spawned == cont \o [i \in DOMAIN names |-> Spawned(aux[names[i]])]
  IN /\ n + Len(spawned) <= MaxWorkers
     /\ Len(contexts) + Cardinality({r \in Requests : requests[r] # None}) < MaxContexts
     /\ \/ /\ workers' = workers \o spawned
           /\ Arrive([cluster |-> c, name |-> None,
                ctx |-> [id |-> c, descriptive |-> descriptive,
                         cont |-> IF g = None THEN None ELSE n + 1,
                         subs |-> [name \in DOMAIN aux |->
                                     n + Len(cont) + CHOOSE i \in DOMAIN names : names[i] = name]]])
        \/ /\ \E k \in 0..(Len(spawned) - 1) :
                workers' = workers \o [i \in 1..k |-> [spawned[i] EXCEPT !.up = FALSE]]
           /\ UNCHANGED requests
     /\ UNCHANGED <<contexts, clusters, order, owner, grants>>

\* MUTANT: a replaced cluster is listed a second time.
AddClusterCommitTwice(r) ==
  LET request == requests[r]
      c == request.cluster
  IN /\ request # None /\ request.name = None
     /\ contexts' = Append(contexts, request.ctx)
     /\ clusters' = Put(clusters, c, Len(contexts) + 1)
     /\ workers' = IF c \in DOMAIN clusters THEN Closed(WorkersOf(Context(c))) ELSE workers
     /\ order' = Append(order, c)
     /\ Done(r)
     /\ UNCHANGED <<owner, grants>>

\* MUTANT: a replaced context keeps its workers.
AddClusterCommitLeaking(r) ==
  LET request == requests[r]
      c == request.cluster
  IN /\ request # None /\ request.name = None
     /\ contexts' = Append(contexts, request.ctx)
     /\ clusters' = Put(clusters, c, Len(contexts) + 1)
     /\ order' = IF c \in DOMAIN clusters THEN order ELSE Append(order, c)
     /\ Done(r)
     /\ UNCHANGED <<workers, owner, grants>>

\* AddCluster under the lock: a known id is replaced, and the workers of its
\* old context closed.
AddClusterCommit(r) ==
  LET request == requests[r]
      c == request.cluster
  IN /\ request # None /\ request.name = None
     /\ contexts' = Append(contexts, request.ctx)
     /\ clusters' = Put(clusters, c, Len(contexts) + 1)
     /\ IF c \in DOMAIN clusters
          THEN workers' = Closed(WorkersOf(Context(c))) /\ UNCHANGED order
          ELSE order' = Append(order, c) /\ UNCHANGED workers
     /\ Done(r)
     /\ UNCHANGED <<owner, grants>>

\* MUTANT: owners of a removed cluster stay.
RemoveClusterKeepingOwners(c) ==
  /\ workers' = IF c \in DOMAIN clusters THEN Closed(WorkersOf(Context(c))) ELSE workers
  /\ clusters' = Drop(clusters, {c})
  /\ order' = RemoveFirst(order, c)
  /\ UNCHANGED <<contexts, owner, requests, grants>>

RemoveCluster(c) ==
  /\ workers' = IF c \in DOMAIN clusters THEN Closed(WorkersOf(Context(c))) ELSE workers
  /\ clusters' = Drop(clusters, {c})
  /\ order' = RemoveFirst(order, c)
  /\ owner' = Drop(owner, {a \in DOMAIN owner : contexts[owner[a]].id = c})
  /\ UNCHANGED <<contexts, requests, grants>>

\* AddSubsystem, before the lock.
AddSubsystemSpawn(c, name, g) ==
  /\ Len(workers) < MaxWorkers
  /\ workers' = Append(workers, Spawned(g))
  /\ Arrive([cluster |-> c, name |-> name, ctx |-> Len(workers) + 1])
  /\ UNCHANGED <<contexts, clusters, order, owner, grants>>

\* MUTANT: the old worker is closed and the new one not installed.
AddSubsystemCommitNotInstalled(r) ==
  LET request == requests[r]
      c == request.cluster
      name == request.name
      old == IF name = "containment" THEN {Context(c).cont}
             ELSE {Context(c).subs[n] : n \in DOMAIN Context(c).subs \cap {name}}
  IN /\ request # None /\ name # None
     /\ workers' = Closed(IF c \in DOMAIN clusters THEN old \ {None} ELSE {request.ctx})
     /\ Done(r)
     /\ UNCHANGED <<contexts, clusters, order, owner, grants>>

\* AddSubsystem under the lock: the worker replaces the one of that name, which
\* is closed; the name "containment" is the allocatable worker.  An unknown
\* cluster is an error, and the new worker is closed.
AddSubsystemCommit(r) ==
  LET request == requests[r]
      c == request.cluster
      name == request.name
      w == request.ctx
      ctx == Context(c)
  IN /\ request # None /\ name # None
     /\ \/ /\ c \notin DOMAIN clusters
           /\ workers' = Closed({w}) /\ UNCHANGED contexts
        \/ /\ c \in DOMAIN clusters /\ name = "containment"
           /\ workers' = Closed({ctx.cont} \ {None})
           /\ contexts' = [contexts EXCEPT ![clusters[c]].cont = w]
        \/ /\ c \in DOMAIN clusters /\ name # "containment"
           /\ workers' = Closed({ctx.subs[n] : n \in DOMAIN ctx.subs \cap {name}})
           /\ contexts' = [contexts EXCEPT ![clusters[c]].subs = Put(@, name, w)]
     /\ Done(r)
     /\ UNCHANGED <<clusters, order, owner, grants>>

\* RemoveSubsystem, which here also removes containment.
RemoveSubsystem(c, name) ==
  /\ c \in DOMAIN clusters
  /\ LET ctx == Context(c)
     IN \/ /\ name = "containment"
           /\ workers' = Closed({ctx.cont} \ {None})
           /\ contexts' = [contexts EXCEPT ![clusters[c]].cont = None]
        \/ /\ name \in DOMAIN ctx.subs
           /\ workers' = Closed({ctx.subs[name]})
           /\ contexts' = [contexts EXCEPT ![clusters[c]].subs = Drop(@, {name})]
  /\ UNCHANGED <<clusters, order, owner, requests, grants>>

-----------------------------------------------------------------------------
(* Allocate and Free *)

\* Allocate on a countable containment with room.  No containment, no room and
\* a worker that is gone grant nothing; a descriptive one reserves nothing.
Allocate(c) ==
  /\ c \in DOMAIN clusters /\ Len(grants) < MaxGrants
  /\ ~Context(c).descriptive /\ Context(c).cont # None
  /\ LET w == Context(c).cont
         id == workers[w].next
     IN /\ workers[w].up /\ Cardinality(workers[w].jobs) < workers[w].room
        /\ workers' = [workers EXCEPT ![w].jobs = @ \cup {id}, ![w].next = @ + 1]
        /\ owner' = Put(owner, id, clusters[c])
        /\ grants' = Append(grants, [id |-> id, worker |-> w, freed |-> FALSE])
  /\ UNCHANGED <<contexts, clusters, order, requests>>

\* Free of the id that was granted.  An id nobody owns is a no-op.  Otherwise
\* the owning context's containment worker, whichever it is now, is asked to
\* cancel the job of that number; if that worker is gone the call fails and
\* the owner stays.
Free(g) ==
  /\ ~grants[g].freed
  /\ grants' = [grants EXCEPT ![g].freed = TRUE]
  /\ LET id == grants[g].id
         w == contexts[owner[id]].cont
     IN CASE id \notin DOMAIN owner -> UNCHANGED <<workers, owner>>
          [] id \in DOMAIN owner /\ w = None ->
               owner' = Drop(owner, {id}) /\ UNCHANGED workers
          [] id \in DOMAIN owner /\ w # None /\ ~workers[w].up -> UNCHANGED <<workers, owner>>
          [] OTHER -> /\ workers' = [workers EXCEPT ![w].jobs = @ \ {id}]
                      /\ owner' = Drop(owner, {id})
  /\ UNCHANGED <<contexts, clusters, order, requests>>

Next ==
  \/ \E c \in Clusters, descriptive \in BOOLEAN, g \in Graphs \cup {None},
        D \in SUBSET Names : \E aux \in [D -> Graphs] :
       AddClusterSpawn(c, descriptive, g, aux)
  \/ \E r \in Requests : AddClusterCommit(r) \/ AddSubsystemCommit(r)
  \/ \E c \in Clusters : RemoveCluster(c) \/ Allocate(c)
  \/ \E c \in Clusters, name \in Names \cup {"containment"} :
       RemoveSubsystem(c, name) \/ \E g \in Graphs : AddSubsystemSpawn(c, name, g)
  \/ \E g \in DOMAIN grants : Free(g)

Spec == Init /\ [][Next]_vars

-----------------------------------------------------------------------------
(* Properties *)

\* Contexts name workers that exist, and the maps are keyed consistently.
TypeOK ==
  /\ \A w \in DOMAIN workers : workers[w] \in Worker
  /\ DOMAIN clusters = ToSet(order) /\ IsInjective(order)
  /\ \A c \in DOMAIN clusters :
       /\ clusters[c] \in DOMAIN contexts /\ Context(c).id = c
       /\ WorkersOf(Context(c)) \subseteq DOMAIN workers
  /\ \A a \in DOMAIN owner : owner[a] \in DOMAIN contexts

\* The workers of a call in flight.
InFlight ==
  UNION {IF requests[r].name = None THEN WorkersOf(requests[r].ctx) ELSE {requests[r].ctx} :
           r \in {r \in Requests : requests[r] # None}}

\* No worker process is orphaned: each one running serves a registered cluster
\* or a call in flight, whatever order racing registrations, removals and
\* failed starts come in (fluxion.go:185-292).
NoOrphanWorkers ==
  \A w \in DOMAIN workers :
    workers[w].up => w \in InFlight \cup UNION {WorkersOf(Context(c)) : c \in DOMAIN clusters}

\* A registered cluster and a call in flight never hold a worker that was
\* killed, so "delete-and-recreate" loses no subsystem (fluxion.go:245-271).
NoDeadWorkers ==
  \A w \in InFlight \cup UNION {WorkersOf(Context(c)) : c \in DOMAIN clusters} : workers[w].up

\* Ids of a removed cluster are forgotten: an owner is a context of a cluster
\* that is registered (fluxion.go:237-241).
OwnersRegistered == \A a \in DOMAIN owner : contexts[owner[a]].id \in DOMAIN clusters

\* A reservation is released by nobody but its holder: while its worker runs
\* and its holder has not called Free, it is in place ("so Free releases
\* exactly those", matcher.go:26).
HeldUntilFreed ==
  \A g \in DOMAIN grants :
    ~grants[g].freed /\ workers[grants[g].worker].up
      => grants[g].id \in workers[grants[g].worker].jobs

=============================================================================
