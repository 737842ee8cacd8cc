--------------------------- MODULE InlineManager ---------------------------
(***************************************************************************)
(* The manager without a database (manager.go with queue.Memory): one       *)
(* ticker goroutine runs scheduling passes, inline dispatch and the inline  *)
(* monitor, while API requests (api.go) submit and cancel jobs and change   *)
(* the fleet.  The matcher is the SimMatcher of sim.go, whose actions are   *)
(* used as they are.                                                        *)
(*                                                                          *)
(* Granularity: one step per call of the store, the matcher, the fleet or a *)
(* driver.  The ticker never takes m.mu; only Cancel does (in failByID).    *)
(*                                                                          *)
(* The fleet keeps what control reads of a cluster: its dispatch config.    *)
(* The graphs are the matcher's.                                            *)
(***************************************************************************)
EXTENDS Naturals, FiniteSets, SequencesExt

CONSTANTS
  Clusters, Containments, Names, AuxGraphs, Specs, MaxAllocs,  \* of SimMatcher
  Jobs,       \* jobs that may be submitted
  SpecOf,     \* job -> its jobspec
  Offered,    \* containments that discovery finds or clients attach
  Configs,    \* dispatch configs a cluster may register with
  Requests,   \* places for concurrent API requests
  MaxEdits,   \* bound on requests that change the fleet
  MaxCancels, \* bound on jobs clients cancel
  EndStates,  \* what Status may say of a native job that ended
  None

ASSUME InlineAssumption ==
  /\ SpecOf \in [Jobs -> Specs] /\ Offered \subseteq Containments /\ <<>> \in Containments
  /\ Configs \subseteq [emulated : BOOLEAN, reserves : BOOLEAN]
  /\ MaxEdits \in Nat /\ MaxCancels \in Nat /\ MaxAllocs \in Nat /\ IsFiniteSet(Clusters)
  /\ EndStates \subseteq {"COMPLETED", "FAILED"}

VARIABLES
  clusters, order, allocated, live, nextID,  \* the matcher
  fleet,      \* id -> config
  secrets,    \* clusters whose edit secret has been issued
  queue,      \* job -> record, or None before Submit
  arrival,    \* jobs of the queue in order of SubmittedAt
  remote,     \* handle -> [job, cluster, state]
  loop,       \* the ticker goroutine
  requests,   \* place -> API request in flight, or None
  mu,         \* request that holds m.mu, or None
  edits,      \* fleet-changing requests so far
  cancelReq,  \* jobs Cancel was called for
  grantee     \* allocation id -> job it was granted to (history)

matcherVars == <<clusters, order, allocated, live, nextID>>
fleetVars == <<fleet, secrets>>
storeVars == <<queue, arrival, remote>>
apiVars == <<requests, mu, edits, cancelReq>>
vars == <<matcherVars, fleetVars, storeVars, loop, apiVars, grantee>>

Matcher == INSTANCE SimMatcher

ASSUME MatcherAssumption ==
  Matcher!ContainmentsAssumption /\ Matcher!NamesAssumption /\ Matcher!SpecsAssumption

JobStates == {"SUBMITTED", "MATCHED", "DISPATCHING", "RUNNING", "COMPLETED", "FAILED"}

Terminal(st) == st \in {"COMPLETED", "FAILED"}

\* The notes setNote compares, with the number of feasible clusters they name;
\* every other note is None.
Notes == {"no clusters", "emulated only", "no free capacity"} \X (0..Cardinality(Clusters))

Job == [state : JobStates, alloc : 0..MaxAllocs, cluster : Clusters \cup {None},
        handle : Nat, note : Notes \cup {None}]

\* Allocation 0 and handle 0 are the empty strings.
NewJob == [state |-> "SUBMITTED", alloc |-> 0, cluster |-> None, handle |-> 0, note |-> None]

\* An API request in flight.
RequestWith(graphs) ==
  [pc : {"addFleet", "addMatcher", "issue", "getFleet", "attach", "addBack", "detach", "getBack",
         "removeMatcher", "removeFleet", "forget", "cancelRemote", "lock", "commit"},
   cluster : Clusters \cup {None}, name : Names \cup {Matcher!ContainmentSubsystem, None},
   graph : graphs \cup {None}, config : Configs \cup {None}, job : Jobs \cup {None}, rec : Job]

ApiRequest == RequestWith(Containments) \cup RequestWith(AuxGraphs)

ASSUME NoneAssumption ==
  /\ Requests \subseteq Nat /\ None \notin Requests /\ None \notin Jobs /\ None \notin Clusters
  /\ None \notin Job /\ None \notin ApiRequest

\* The locals of the ticker goroutine: jobs left in this pass, the records the
\* last snapshot returned, the job at hand and its record, candidates left.
Idle == [pc |-> "idle", todo |-> {}, snap |-> <<>>, job |-> None, rec |-> NewJob,
         feasible |-> {}, left |-> {}, alloc |-> 0]

Put(f, x, v) == [y \in DOMAIN f \cup {x} |-> IF y = x THEN v ELSE f[y]]

Drop(f, S) == [y \in DOMAIN f \ S |-> f[y]]

Init ==
  /\ Matcher!Init
  /\ fleet = <<>> /\ secrets = {}
  /\ queue = [j \in Jobs |-> None] /\ arrival = <<>> /\ remote = <<>>
  /\ loop = Idle
  /\ requests = [r \in Requests |-> None] /\ mu = None /\ edits = 0 /\ cancelReq = {}
  /\ grantee = <<>>

\* Two requests may enqueue in another order than they took their stamps: the
\* stamp of a job may fall anywhere among those of the queue.
Submit(j) ==
  /\ queue[j] = None
  /\ queue' = [queue EXCEPT ![j] = NewJob]
  /\ \E n \in 1..(Len(arrival) + 1) : arrival' = InsertAt(arrival, n, j)
  /\ UNCHANGED <<matcherVars, fleetVars, remote, loop, apiVars, grantee>>

\* Matcher.Free of an unknown or empty id is a no-op.
FreeAlloc(a) ==
  IF a \in DOMAIN live THEN Matcher!Free(a) ELSE UNCHANGED matcherVars

Store(j, rec) == queue' = [queue EXCEPT ![j] = rec] /\ UNCHANGED <<arrival, remote>>

-----------------------------------------------------------------------------
(* scheduleOnce, in the ticker goroutine *)

Provisional == {j \in Jobs : queue[j] # None /\ queue[j].state = "SUBMITTED"}

Active ==
  {j \in Jobs : queue[j] # None /\ queue[j].state \in {"MATCHED", "DISPATCHING", "RUNNING"}}

Before(k, j) ==
  \E m, n \in DOMAIN arrival : m < n /\ arrival[m] = k /\ arrival[n] = j

\* A snapshot is taken in order of SubmittedAt: its first job.
Oldest(S) == {j \in S : \A k \in S : ~Before(k, j)}

\* The next job of the pass, or the monitor.
NextJob(todo) ==
  IF todo = {} THEN [Idle EXCEPT !.pc = "monitor"]
                 ELSE [Idle EXCEPT !.pc = "get", !.todo = todo]

Tick ==
  /\ loop.pc = "idle"
  /\ Provisional \cup Active # {}
  /\ loop' = [Idle EXCEPT !.pc = "fleet", !.todo = Provisional,
                !.snap = [j \in Provisional |-> queue[j]]]
  /\ UNCHANGED <<matcherVars, fleetVars, storeVars, apiVars, grantee>>

\* With no cluster in the fleet every job waits.
FleetCheck ==
  /\ loop.pc = "fleet"
  /\ loop' = IF DOMAIN fleet = {} /\ loop.todo # {}
               THEN [loop EXCEPT !.pc = "noteEmpty"]
               ELSE NextJob(loop.todo)
  /\ UNCHANGED <<matcherVars, fleetVars, storeVars, apiVars, grantee>>

\* setNote on the next job of the snapshot, whose record is written back.
NoteEmptyFleet ==
  /\ loop.pc = "noteEmpty"
  /\ \E j \in Oldest(loop.todo) :
       LET rec == [loop.snap[j] EXCEPT !.note = <<"no clusters", 0>>]
       IN /\ IF loop.snap[j].note = rec.note THEN UNCHANGED storeVars ELSE Store(j, rec)
          /\ loop' = IF loop.todo = {j} THEN NextJob({})
                     ELSE [loop EXCEPT !.todo = @ \ {j}]
  /\ UNCHANGED <<matcherVars, fleetVars, apiVars, grantee>>

GetJob ==
  /\ loop.pc = "get"
  /\ \E j \in Oldest(loop.todo) :
       loop' = IF queue[j].state # "SUBMITTED" THEN NextJob(loop.todo \ {j})
               ELSE [loop EXCEPT !.pc = "evaluate", !.job = j, !.rec = queue[j]]
  /\ UNCHANGED <<matcherVars, fleetVars, storeVars, apiVars, grantee>>

EvaluateJob ==
  /\ loop.pc = "evaluate"
  /\ LET cands == ToSet(Matcher!Evaluate(SpecOf[loop.job]))
         feasible == {c.cluster : c \in {c \in cands : c.feasible}}
     IN loop' = [loop EXCEPT !.feasible = feasible,
                   !.pc = IF feasible = {} THEN "infeasible" ELSE "filter"]
  /\ UNCHANGED <<matcherVars, fleetVars, storeVars, apiVars, grantee>>

\* failInfeasible.
FailInfeasible ==
  /\ loop.pc = "infeasible"
  /\ Store(loop.job, [loop.rec EXCEPT !.state = "FAILED", !.note = None])
  /\ loop' = NextJob(loop.todo \ {loop.job})
  /\ UNCHANGED <<matcherVars, fleetVars, apiVars, grantee>>

\* dispatchable: in the fleet and not emulated.
FilterDispatchable ==
  /\ loop.pc = "filter"
  /\ LET left == {c \in loop.feasible : c \in DOMAIN fleet /\ ~fleet[c].emulated}
     IN loop' = [loop EXCEPT !.left = left,
                   !.pc = IF left = {} THEN "noteEmulated" ELSE "place"]
  /\ UNCHANGED <<matcherVars, fleetVars, storeVars, apiVars, grantee>>

\* setNote, on the record read by GetJob; the policy is Backfill, as serve.go
\* configures it.
NoteWaiting(pc, text) ==
  /\ loop.pc = pc
  /\ LET rec == [loop.rec EXCEPT !.note = <<text, Cardinality(loop.feasible)>>]
     IN IF loop.rec.note = rec.note THEN UNCHANGED storeVars ELSE Store(loop.job, rec)
  /\ loop' = NextJob(loop.todo \ {loop.job})
  /\ UNCHANGED <<matcherVars, fleetVars, apiVars, grantee>>

\* Matcher.Allocate: granted, ...
AllocateOn(c) ==
  /\ loop.pc = "place" /\ c \in loop.left
  /\ Matcher!Allocate(SpecOf[loop.job], c) \/ Matcher!AllocateSatisfyOnly(c)
  /\ loop' = [loop EXCEPT !.pc = "update", !.alloc = nextID', !.left = {c}]
  /\ grantee' = Put(grantee, nextID', loop.job)
  /\ UNCHANGED <<fleetVars, storeVars, apiVars>>

\* ... or full, or no longer registered: the next candidate.
NoRoomOn(c) ==
  /\ loop.pc = "place" /\ c \in loop.left
  /\ \/ c \notin DOMAIN clusters
     \/ /\ c \in DOMAIN clusters /\ clusters[c].reserves
        /\ LET js == SpecOf[loop.job]
           IN Cardinality(Matcher!FittingNodes(clusters[c], js, allocated[c])) < js.nodes
  /\ loop' = [loop EXCEPT !.left = @ \ {c},
                !.pc = IF loop.left = {c} THEN "noteFull" ELSE "place"]
  /\ UNCHANGED <<matcherVars, fleetVars, storeVars, apiVars, grantee>>

UpdateMatched ==
  /\ loop.pc = "update"
  /\ \E c \in loop.left :
       Store(loop.job, [loop.rec EXCEPT !.state = "MATCHED", !.alloc = loop.alloc,
                                        !.cluster = c, !.note = None])
  /\ loop' = [loop EXCEPT !.pc = "dispatch", !.left = {}, !.feasible = {}, !.alloc = 0]
  /\ UNCHANGED <<matcherVars, fleetVars, apiVars, grantee>>

-----------------------------------------------------------------------------
(* dispatchNow, in the ticker goroutine *)

\* MUTANT: a job whose cluster has gone is dropped instead of failed.
DispatchGetDropping ==
  /\ loop.pc = "dispatch"
  /\ LET rec == queue[loop.job]
     IN loop' = IF rec.cluster \in DOMAIN fleet
                  THEN [loop EXCEPT !.rec = rec, !.pc = "mark"]
                  ELSE NextJob(loop.todo \ {loop.job})
  /\ UNCHANGED <<matcherVars, fleetVars, storeVars, apiVars, grantee>>

\* The job is read again, whatever its state; its cluster may have gone.
DispatchGet ==
  /\ loop.pc = "dispatch"
  /\ LET rec == queue[loop.job]
     IN loop' = [loop EXCEPT !.rec = rec,
                   !.pc = IF rec.cluster \in DOMAIN fleet THEN "mark" ELSE "free"]
  /\ UNCHANGED <<matcherVars, fleetVars, storeVars, apiVars, grantee>>

DispatchMark ==
  /\ loop.pc = "mark"
  /\ LET rec == [loop.rec EXCEPT !.state = "DISPATCHING"]
     IN Store(loop.job, rec) /\ loop' = [loop EXCEPT !.pc = "submit", !.rec = rec]
  /\ UNCHANGED <<matcherVars, fleetVars, apiVars, grantee>>

\* Transform, driverFor and Driver.Submit, each of which may fail.
DispatchSubmit ==
  /\ loop.pc = "submit"
  /\ \/ /\ loop' = [loop EXCEPT !.pc = "free"]
        /\ UNCHANGED remote
     \/ /\ remote' = Append(remote, [job |-> loop.job, cluster |-> loop.rec.cluster,
                                     state |-> "RUNNING"])
        /\ loop' = [loop EXCEPT !.pc = "running", !.rec.handle = Len(remote) + 1]
  /\ UNCHANGED <<matcherVars, fleetVars, queue, arrival, apiVars, grantee>>

DispatchRunning ==
  /\ loop.pc = "running"
  /\ Store(loop.job, [loop.rec EXCEPT !.state = "RUNNING", !.note = None])
  /\ loop' = NextJob(loop.todo \ {loop.job})
  /\ UNCHANGED <<matcherVars, fleetVars, apiVars, grantee>>

\* MUTANT: the job fails and keeps its allocation.
FailJobFreeForgotten ==
  /\ loop.pc = "free"
  /\ loop' = [loop EXCEPT !.pc = "fail"]
  /\ UNCHANGED <<matcherVars, fleetVars, storeVars, apiVars, grantee>>

\* failJob: Free, then Update of the record read by DispatchGet.
FailJobFree ==
  /\ loop.pc = "free"
  /\ FreeAlloc(loop.rec.alloc)
  /\ loop' = [loop EXCEPT !.pc = "fail"]
  /\ UNCHANGED <<fleetVars, storeVars, apiVars, grantee>>

FailJobUpdate ==
  /\ loop.pc = "fail"
  /\ Store(loop.job, [loop.rec EXCEPT !.state = "FAILED", !.note = None])
  /\ loop' = NextJob(loop.todo \ {loop.job})
  /\ UNCHANGED <<matcherVars, fleetVars, apiVars, grantee>>

-----------------------------------------------------------------------------
(* monitorOnce, in the ticker goroutine *)

\* The next job of the snapshot, or the end of this Step.
NextActive(todo, snap) ==
  IF todo = {} THEN Idle
  ELSE [Idle EXCEPT !.pc = "status", !.todo = todo,
                    !.snap = [j \in todo |-> snap[j]]]

MonitorSnapshot ==
  /\ loop.pc = "monitor"
  /\ loop' = NextActive(Active, queue)
  /\ UNCHANGED <<matcherVars, fleetVars, storeVars, apiVars, grantee>>

\* Skipped without a handle or a cluster in the fleet, or when the driver
\* cannot answer; otherwise its status is read.
MonitorStatus ==
  /\ loop.pc = "status"
  /\ \E j \in Oldest(loop.todo) :
       LET rec == loop.snap[j]
       IN \/ loop' = NextActive(loop.todo \ {j}, loop.snap)
          \/ /\ rec.handle # 0 /\ rec.cluster \in DOMAIN fleet
             /\ loop' = [loop EXCEPT !.pc = "observe", !.job = j,
                           !.rec = [rec EXCEPT !.state = remote[rec.handle].state]]
  /\ UNCHANGED <<matcherVars, fleetVars, storeVars, apiVars, grantee>>

\* MUTANT: the allocation is released at the first poll.
MonitorUpdateReleasing ==
  /\ loop.pc = "observe"
  /\ Store(loop.job, [loop.rec EXCEPT !.note = None])
  /\ loop' = [loop EXCEPT !.pc = "release"]
  /\ UNCHANGED <<matcherVars, fleetVars, apiVars, grantee>>

\* The snapshot's record is written back if its state or note changes: the
\* native state is RUNNING or terminal, the note may be anything.
MonitorUpdate ==
  /\ loop.pc = "observe"
  /\ LET same == loop.rec.state = loop.snap[loop.job].state
     IN \/ Store(loop.job, [loop.rec EXCEPT !.note = None])
        \/ same /\ UNCHANGED storeVars
  /\ loop' = IF Terminal(loop.rec.state) THEN [loop EXCEPT !.pc = "release"]
             ELSE NextActive(loop.todo \ {loop.job}, loop.snap)
  /\ UNCHANGED <<matcherVars, fleetVars, apiVars, grantee>>

MonitorRelease ==
  /\ loop.pc = "release"
  /\ FreeAlloc(loop.rec.alloc)
  /\ loop' = NextActive(loop.todo \ {loop.job}, loop.snap)
  /\ UNCHANGED <<fleetVars, storeVars, apiVars, grantee>>

Loop ==
  \/ Tick \/ FleetCheck \/ NoteEmptyFleet \/ GetJob \/ EvaluateJob \/ FailInfeasible
  \/ FilterDispatchable
  \/ NoteWaiting("noteEmulated", "emulated only")
  \/ NoteWaiting("noteFull", "no free capacity")
  \/ \E c \in Clusters : AllocateOn(c) \/ NoRoomOn(c)
  \/ UpdateMatched
  \/ DispatchGet \/ DispatchMark \/ DispatchSubmit \/ DispatchRunning
  \/ FailJobFree \/ FailJobUpdate
  \/ MonitorSnapshot \/ MonitorStatus \/ MonitorUpdate \/ MonitorRelease

\* A native job ends.
RemoteFinish(h) ==
  /\ remote[h].state = "RUNNING"
  /\ \E st \in EndStates : remote' = [remote EXCEPT ![h].state = st]
  /\ UNCHANGED <<matcherVars, fleetVars, queue, arrival, loop, apiVars, grantee>>

-----------------------------------------------------------------------------
(* API requests *)

\* The locals of a request.
NewRequest == [pc |-> None, cluster |-> None, name |-> None, graph |-> None,
               config |-> None, job |-> None, rec |-> NewJob]

\* A request arrives and takes the first free place.
Arrive(request) ==
  \E r \in Requests :
    /\ requests[r] = None
    /\ \A q \in Requests : requests[q] = None => r <= q
    /\ requests' = [requests EXCEPT ![r] = request]

At(r, pc) == requests[r] # None /\ requests[r].pc = pc

Goto(r, pc) == requests' = [requests EXCEPT ![r].pc = pc]

Done(r) == requests' = [requests EXCEPT ![r] = None]

\* A request that changes the fleet; all but a registration need the secret.
ArriveEdit(request) ==
  /\ edits < MaxEdits
  /\ request.pc # "addFleet" => request.cluster \in secrets
  /\ Arrive(request)
  /\ edits' = edits + 1
  /\ UNCHANGED <<matcherVars, fleetVars, storeVars, loop, mu, cancelReq, grantee>>

\* graph is what discovery will find, None without discovery.
BeginRegister(c, config, graph) ==
  ArriveEdit([NewRequest EXCEPT !.pc = "addFleet", !.cluster = c, !.config = config,
                !.name = Matcher!ContainmentSubsystem, !.graph = graph])

BeginAttach(c, name, graph) ==
  ArriveEdit([NewRequest EXCEPT !.pc = "getFleet", !.cluster = c, !.name = name,
                                !.graph = graph])

BeginDetach(c, name) ==
  ArriveEdit([NewRequest EXCEPT !.pc = "detach", !.cluster = c, !.name = name])

BeginUnregister(c) ==
  ArriveEdit([NewRequest EXCEPT !.pc = "removeMatcher", !.cluster = c])

\* RegisterCluster: the fleet first, then the matcher.
AddFleet(r) ==
  /\ At(r, "addFleet")
  /\ fleet' = Put(fleet, requests[r].cluster, requests[r].config)
  /\ Goto(r, "addMatcher")
  /\ UNCHANGED <<matcherVars, secrets, storeVars, loop, mu, edits, cancelReq, grantee>>

\* A cluster registers without any graph.
AddMatcher(r) ==
  /\ At(r, "addMatcher")
  /\ Matcher!AddCluster(requests[r].cluster,
       [containment |-> <<>>, subsystems |-> <<>>, reserves |-> requests[r].config.reserves])
  /\ Goto(r, "issue")
  /\ UNCHANGED <<fleetVars, storeVars, loop, mu, edits, cancelReq, grantee>>

IssueSecret(r) ==
  /\ At(r, "issue")
  /\ secrets' = secrets \cup {requests[r].cluster}
  /\ IF requests[r].graph = None THEN Done(r) ELSE Goto(r, "getFleet")
  /\ UNCHANGED <<matcherVars, fleet, storeVars, loop, mu, edits, cancelReq, grantee>>

\* RegisterSubsystem (from the API or from DiscoverCluster): Fleet.Get,
\* Matcher.AddSubsystem, Fleet.Add of what Get returned.
GetFleet(r) ==
  /\ At(r, "getFleet")
  /\ LET c == requests[r].cluster
     IN requests' = [requests EXCEPT ![r] =
          IF c \in DOMAIN fleet THEN [@ EXCEPT !.pc = "attach", !.config = fleet[c]]
                                ELSE None]
  /\ UNCHANGED <<matcherVars, fleetVars, storeVars, loop, mu, edits, cancelReq, grantee>>

AttachMatcher(r) ==
  /\ At(r, "attach")
  /\ \/ /\ Matcher!AddSubsystem(requests[r].cluster, requests[r].name, requests[r].graph)
        /\ Goto(r, "addBack")
     \/ requests[r].cluster \notin DOMAIN clusters /\ Done(r) /\ UNCHANGED matcherVars
  /\ UNCHANGED <<fleetVars, storeVars, loop, mu, edits, cancelReq, grantee>>

AddBack(r) ==
  /\ At(r, "addBack")
  /\ fleet' = Put(fleet, requests[r].cluster, requests[r].config)
  /\ Done(r)
  /\ UNCHANGED <<matcherVars, secrets, storeVars, loop, mu, edits, cancelReq, grantee>>

\* UnregisterSubsystem: the matcher, then the fleet's entry is read ...
DetachMatcher(r) ==
  /\ At(r, "detach")
  /\ LET c == requests[r].cluster
         name == requests[r].name
     IN \/ Matcher!RemoveSubsystem(c, name) /\ Goto(r, "getBack")
        \/ /\ c \in DOMAIN clusters => name \notin DOMAIN clusters[c].subsystems
           /\ Done(r) /\ UNCHANGED matcherVars
  /\ UNCHANGED <<fleetVars, storeVars, loop, mu, edits, cancelReq, grantee>>

\* ... and added back.
GetBack(r) ==
  /\ At(r, "getBack")
  /\ LET c == requests[r].cluster
     IN requests' = [requests EXCEPT ![r] =
          IF c \in DOMAIN fleet THEN [@ EXCEPT !.pc = "addBack", !.config = fleet[c]]
                                ELSE None]
  /\ UNCHANGED <<matcherVars, fleetVars, storeVars, loop, mu, edits, cancelReq, grantee>>

\* UnregisterCluster: the matcher first, then the fleet.
RemoveMatcher(r) ==
  /\ At(r, "removeMatcher")
  /\ Matcher!RemoveCluster(requests[r].cluster)
  /\ Goto(r, "removeFleet")
  /\ UNCHANGED <<fleetVars, storeVars, loop, mu, edits, cancelReq, grantee>>

RemoveFleet(r) ==
  /\ At(r, "removeFleet")
  /\ fleet' = Drop(fleet, {requests[r].cluster})
  /\ IF requests[r].cluster \in DOMAIN fleet THEN Goto(r, "forget") ELSE Done(r)
  /\ UNCHANGED <<matcherVars, secrets, storeVars, loop, mu, edits, cancelReq, grantee>>

ForgetSecret(r) ==
  /\ At(r, "forget")
  /\ secrets' = secrets \ {requests[r].cluster}
  /\ Done(r)
  /\ UNCHANGED <<matcherVars, fleet, storeVars, loop, mu, edits, cancelReq, grantee>>

\* Cancel, once per job.
BeginCancel(j) ==
  /\ mu = None
  /\ queue[j] # None /\ ~Terminal(queue[j].state) /\ j \notin cancelReq
  /\ Cardinality(cancelReq) < MaxCancels
  /\ Arrive([NewRequest EXCEPT !.job = j, !.rec = queue[j],
               !.pc = IF queue[j].handle # 0 /\ queue[j].cluster # None
                        THEN "cancelRemote" ELSE "lock"])
  /\ cancelReq' = cancelReq \cup {j}
  /\ UNCHANGED <<matcherVars, fleetVars, storeVars, loop, mu, edits, grantee>>

\* Best effort, and only if the cluster is still in the fleet.
CancelRemote(r) ==
  /\ At(r, "cancelRemote")
  /\ LET h == requests[r].rec.handle
     IN \/ UNCHANGED remote
        \/ /\ requests[r].rec.cluster \in DOMAIN fleet /\ remote[h].state = "RUNNING"
           /\ \E st \in EndStates :
                remote' = [remote EXCEPT ![h].state = st]
  /\ Goto(r, "lock")
  /\ UNCHANGED <<matcherVars, fleetVars, queue, arrival, loop, mu, edits, cancelReq, grantee>>

\* failByID.
CancelLock(r) ==
  /\ At(r, "lock") /\ mu = None
  /\ mu' = r
  /\ requests' = [requests EXCEPT ![r].pc = "commit", ![r].rec = queue[requests[r].job]]
  /\ UNCHANGED <<matcherVars, fleetVars, storeVars, loop, edits, cancelReq, grantee>>

\* MUTANT: an exit that does not unlock.
CancelCommitKeepingLock(r) ==
  /\ At(r, "commit")
  /\ FreeAlloc(requests[r].rec.alloc)
  /\ Store(requests[r].job,
           [requests[r].rec EXCEPT !.state = "FAILED", !.alloc = 0, !.note = None])
  /\ Done(r)
  /\ UNCHANGED <<mu, fleetVars, loop, edits, cancelReq, grantee>>

CancelCommit(r) ==
  /\ At(r, "commit")
  /\ FreeAlloc(requests[r].rec.alloc)
  /\ Store(requests[r].job,
           [requests[r].rec EXCEPT !.state = "FAILED", !.alloc = 0, !.note = None])
  /\ mu' = None
  /\ Done(r)
  /\ UNCHANGED <<fleetVars, loop, edits, cancelReq, grantee>>

Request(r) ==
  \/ AddFleet(r) \/ AddMatcher(r) \/ IssueSecret(r)
  \/ GetFleet(r) \/ AttachMatcher(r) \/ AddBack(r)
  \/ DetachMatcher(r) \/ GetBack(r)
  \/ RemoveMatcher(r) \/ RemoveFleet(r) \/ ForgetSecret(r)
  \/ CancelRemote(r) \/ CancelLock(r) \/ CancelCommit(r)

-----------------------------------------------------------------------------

\* Every job is at rest and no request is in flight.
Quiet ==
  /\ \A j \in Jobs : queue[j] # None /\ Terminal(queue[j].state)
  /\ \A r \in Requests : requests[r] = None
  /\ UNCHANGED vars

Next ==
  \/ \E j \in Jobs : Submit(j) \/ BeginCancel(j)
  \/ \E c \in Clusters, config \in Configs, graph \in Offered \cup {None} :
       BeginRegister(c, config, graph)
  \/ \E c \in Clusters, graph \in Offered :
       BeginAttach(c, Matcher!ContainmentSubsystem, graph)
  \/ \E c \in Clusters, name \in Names, graph \in AuxGraphs : BeginAttach(c, name, graph)
  \/ \E c \in Clusters, name \in Names : BeginDetach(c, name)
  \/ \E c \in Clusters : BeginUnregister(c)
  \/ \E r \in Requests : Request(r)
  \/ Loop
  \/ \E h \in DOMAIN remote : RemoteFinish(h)
  \/ Quiet

Spec == Init /\ [][Next]_vars

-----------------------------------------------------------------------------
(* Properties *)

\* The matcher keeps its own type, the ticker and the requests work on records
\* of jobs, and m.mu is held only by a request inside failByID.
TypeOK ==
  /\ Matcher!TypeOK
  /\ DOMAIN fleet \subseteq Clusters /\ \A c \in DOMAIN fleet : fleet[c] \in Configs
  /\ queue \in [Jobs -> Job \cup {None}]
  /\ loop.rec \in Job
  /\ \A r \in Requests : (mu = r) = At(r, "commit")

\* Inline dispatch is synchronous: a job is MATCHED or DISPATCHING only while
\* the ticker goroutine is working on it, so no job is left half-way whatever
\* requests did to its cluster or to the job meanwhile (manager.go:287-289,
\* 462-495).
NothingHalfWay ==
  \A j \in Jobs :
    queue[j] # None /\ queue[j].state \in {"MATCHED", "DISPATCHING"} => loop.job = j

\* No allocation outlives its job: each live one is in the hands of the ticker
\* or named by a job that has not finished; a job Cancel was called for is
\* exempt (manager.go:277-291, 544-572).
AllocationsOwned ==
  \A a \in DOMAIN live :
    \/ grantee[a] \in cancelReq
    \/ loop.job = grantee[a]
    \/ queue[grantee[a]].alloc = a /\ ~Terminal(queue[grantee[a]].state)

\* An allocation is released only for its own job, once that job has failed or
\* finished (or is being failed by the ticker), or because its cluster leaves
\* the matcher, although every Free works from an old copy of a record
\* (manager.go:146-153, 556-571, pipeline.go:147-157).
ReleasedForItsJob ==
  [][\A a \in DOMAIN live :
       a \notin DOMAIN live' =>
         \/ live[a].cluster \notin DOMAIN clusters'
         \/ Terminal(queue'[grantee[a]].state)
         \/ loop.pc = "free" /\ loop.job = grantee[a]]_vars

\* "Order matters: add to the fleet first so the matcher never references a
\* cluster the fleet lacks (dispatch/monitor look clusters up by id in the
\* fleet)" (manager.go:119-121), at every step of the requests that change the
\* fleet, which the API serves concurrently.
MatcherWithinFleet == DOMAIN clusters \subseteq DOMAIN fleet

\* c is in the fleet, and the request that put it there, or one that attaches
\* its containment, is about to give it this graph.
Registering(c, graph) ==
  \E r \in Requests :
    /\ requests[r] # None /\ requests[r].cluster = c /\ requests[r].graph = graph
    /\ requests[r].name = Matcher!ContainmentSubsystem
    /\ requests[r].pc \in {"addMatcher", "issue", "getFleet", "attach"}

\* failInfeasible "fails a job that can never run" (manager.go:574): never one
\* that fits a cluster of the fleet whose registration is in progress.
FailsOnlyImpossible ==
  [][\A j \in Jobs, c \in Clusters, graph \in Offered :
       /\ loop.pc = "infeasible" /\ loop' # loop /\ loop.job = j
       /\ Registering(c, graph) /\ DOMAIN SpecOf[j].requires = {}
       => Cardinality({n \in DOMAIN graph :
             Matcher!HasCapacity(graph[n], SpecOf[j].need)}) < SpecOf[j].nodes]_vars

=============================================================================
