--------------------------- MODULE InlineInvariant ---------------------------
(***************************************************************************)
(* The inductive invariant of the manager without a database: what each     *)
(* thread's copies of records say of the records themselves.  InlineProofs  *)
(* proves that every step keeps it.                                         *)
(***************************************************************************)
EXTENDS InlineManager

\* The proofs about the matcher, of the same state.
MP == INSTANCE SimMatcherProofs

Statuses == {"RUNNING", "COMPLETED", "FAILED"}

HalfWay(rec) == rec # None /\ rec.state \in {"MATCHED", "DISPATCHING"}

\* The ticker goroutine between jobs; placing, dispatching and polling one.
RestPcs == {"idle", "fleet", "noteEmpty", "get", "monitor", "status"}
PlacePcs == {"evaluate", "infeasible", "filter", "noteEmulated", "place", "noteFull", "update"}
DispatchPcs == {"dispatch", "mark", "submit", "running", "free", "fail"}
PollPcs == {"observe", "release"}

\* What a pass or a monitor has yet to do.
WaitPcs == {"fleet", "noteEmpty"}
WatchPcs == {"status", "observe", "release"}

Copies == UNION {[D -> Job] : D \in SUBSET Jobs}

LoopState ==
  [pc : RestPcs \cup PlacePcs \cup DispatchPcs \cup PollPcs, todo : SUBSET Jobs, snap : Copies,
   job : Jobs \cup {None}, rec : Job, feasible : SUBSET Clusters, left : SUBSET Clusters,
   alloc : 0..MaxAllocs]

LoopShape(l) ==
  /\ l \in LoopState
  /\ l.pc \in RestPcs <=> l.job = None
  /\ l.job = None => l.rec = NewJob
  /\ l.pc \in WaitPcs \cup WatchPcs => l.todo \subseteq DOMAIN l.snap
  /\ l.pc \in PollPcs => l.job \in l.todo

\* A copy of a job's record still shows what the job holds and where it is.
Same(r, rec) == r.alloc = rec.alloc /\ r.state = rec.state

\* What the ticker's copies say of the records q, but for the jobs cr that
\* clients have cancelled.
LoopKnows(l, q, cr) ==
  /\ \A j \in l.todo : q[j] # None
  /\ l.pc \notin RestPcs => q[l.job] # None
  /\ l.pc \in WaitPcs => \A j \in l.todo : l.snap[j].state = "SUBMITTED"
  /\ l.pc \in WatchPcs => \A j \in l.todo : l.snap[j].state \in {"MATCHED", "DISPATCHING", "RUNNING"}
  /\ l.pc \in WaitPcs \cup WatchPcs => \A j \in l.todo \ cr : j # l.job => Same(l.snap[j], q[j])
  /\ l.pc \in PlacePcs => l.rec.state = "SUBMITTED" /\ (l.job \notin cr => Same(l.rec, q[l.job]))
  /\ l.pc \in PlacePcs \cup PollPcs => ~HalfWay(q[l.job])
  /\ l.pc \in DispatchPcs /\ l.job \notin cr =>
       HalfWay(q[l.job]) /\ (l.pc # "dispatch" => l.rec.alloc = q[l.job].alloc)
  /\ l.pc = "observe" =>
       /\ l.rec.state \in Statuses
       /\ l.job \notin cr => Same(l.snap[l.job], q[l.job]) /\ l.rec.alloc = q[l.job].alloc
  /\ l.pc = "release" =>
       Terminal(q[l.job].state) /\ (l.job \notin cr => l.rec.alloc = q[l.job].alloc)

\* A record of job j: its native job is one of the first n, its allocation was
\* granted to j.
RecOK(rec, j, n, g) ==
  /\ rec \in Job /\ rec.handle <= n
  /\ rec.alloc # 0 => rec.alloc \in DOMAIN g /\ g[rec.alloc] = j

LoopRecs(l, n, g) ==
  /\ l.pc \notin RestPcs => RecOK(l.rec, l.job, n, g)
  /\ l.pc \in WaitPcs \cup WatchPcs => \A j \in l.todo : RecOK(l.snap[j], j, n, g)
  /\ l.pc = "update" => l.alloc \in DOMAIN g /\ g[l.alloc] = l.job

FleetPcs == {"addFleet", "addMatcher", "issue", "getFleet", "attach", "addBack", "detach",
             "getBack", "removeMatcher", "removeFleet", "forget"}
CancelPcs == {"cancelRemote", "lock", "commit"}

\* What a request carries when it reaches each of its steps.
RequestShape(request) ==
  /\ request \in ApiRequest
  /\ request.pc \in FleetPcs => request.cluster \in Clusters
  /\ request.pc \in {"addFleet", "addMatcher", "issue"} =>
       /\ request.config \in Configs /\ request.name = Matcher!ContainmentSubsystem
       /\ request.graph \in Containments \cup {None}
  /\ request.pc \in {"getFleet", "attach"} =>
       \/ request.name = Matcher!ContainmentSubsystem /\ request.graph \in Containments
       \/ request.name \in Names /\ request.graph \in AuxGraphs
  /\ request.pc = "detach" => request.name \in Names
  /\ request.pc \in {"attach", "addBack"} => request.config \in Configs
  /\ request.pc \in CancelPcs => request.job \in Jobs

RequestOK(request, q, cr, n, g) ==
  request # None =>
    /\ RequestShape(request)
    /\ request.pc \in CancelPcs =>
         /\ request.job \in cr /\ q[request.job] # None
         /\ RecOK(request.rec, request.job, n, g)

\* Where the allocation a of job j can be.
Held(a, j, l, q) ==
  \/ l.job = j /\ l.pc = "update" /\ a = l.alloc
  \/ /\ a = q[j].alloc /\ ~(l.job = j /\ l.pc = "fail")
     /\ Terminal(q[j].state) => l.job = j /\ l.pc = "release"

Grants ==
  /\ nextID \in 0..MaxAllocs /\ DOMAIN grantee = 1..nextID
  /\ \A a \in DOMAIN grantee : grantee[a] \in Jobs /\ queue[grantee[a]] # None
  /\ DOMAIN live \subseteq DOMAIN grantee

Records ==
  /\ queue \in [Jobs -> Job \cup {None}]
  /\ \A j \in Jobs : queue[j] # None =>
       /\ RecOK(queue[j], j, Len(remote), grantee)
       /\ j \notin cancelReq /\ queue[j].state = "SUBMITTED" => queue[j].alloc = 0

Remotes == remote \in Seq([job : Jobs, cluster : Clusters \cup {None}, state : Statuses])

Holdings ==
  \A a \in DOMAIN live :
    grantee[a] \in cancelReq \/ Held(a, grantee[a], loop, queue)

FleetOK == DOMAIN fleet \subseteq Clusters /\ \A c \in DOMAIN fleet : fleet[c] \in Configs

Locked == \A r \in Requests : (mu = r) = At(r, "commit")

RequestsOK ==
  /\ requests \in [Requests -> ApiRequest \cup {None}]
  /\ \A r \in Requests : RequestOK(requests[r], queue, cancelReq, Len(remote), grantee)

LoopOK ==
  LoopShape(loop) /\ LoopKnows(loop, queue, cancelReq) /\ LoopRecs(loop, Len(remote), grantee)

Managed ==
  /\ Grants /\ Records /\ Remotes /\ FleetOK /\ Locked
  /\ LoopOK /\ RequestsOK /\ NothingHalfWay /\ Holdings

\* The invariant of the matcher's own proofs.
MatcherOK == MP!IInv /\ MP!OrderOK

IInv == MatcherOK /\ Managed

=============================================================================
