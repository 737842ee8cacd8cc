---------------------------- MODULE InlineProofs ----------------------------
(***************************************************************************)
(* Whose an allocation is in the manager without a database, for any jobs,  *)
(* clusters, graphs, configurations and requests, and what the matcher      *)
(* inside it keeps.                                                         *)
(***************************************************************************)
EXTENDS InlineInvariant, FiniteSetTheorems, TLAPS

(* The two instances of the matcher are one *)

LEMMA SameCounts == ASSUME NEW S PROVE Matcher!Cardinality(S) = MP!Cardinality(S)
BY DEF Matcher!Cardinality, MP!Cardinality

LEMMA SameMaps ==
  ASSUME NEW f, NEW x, NEW v, NEW S
  PROVE  Matcher!Put(f, x, v) = MP!Put(f, x, v) /\ Matcher!Drop(f, S) = MP!Drop(f, S)
BY DEF Matcher!Put, MP!Put, Matcher!Drop, MP!Drop, Matcher!Restrict, MP!Restrict

LEMMA SameOrders ==
  ASSUME NEW s, NEW e
  PROVE  Matcher!RemoveFirst(s, e) = MP!RemoveFirst(s, e)
BY DEF Matcher!RemoveFirst, MP!RemoveFirst, Matcher!SelectInSeq, MP!SelectInSeq,
       Matcher!RemoveAt, MP!RemoveAt, Matcher!Min, MP!Min

LEMMA SameGraphs ==
  ASSUME NEW cg, NEW name, NEW g
  PROVE  /\ Matcher!AttachSubsystem(cg, name, g) = MP!AttachSubsystem(cg, name, g)
         /\ Matcher!DetachSubsystem(cg, name) = MP!DetachSubsystem(cg, name)
BY SameMaps
   DEF Matcher!AttachSubsystem, MP!AttachSubsystem, Matcher!DetachSubsystem,
       MP!DetachSubsystem, Matcher!ContainmentSubsystem, MP!ContainmentSubsystem

LEMMA SameNodes ==
  ASSUME NEW cg, NEW js, NEW busy, NEW S, NEW k
  PROVE  /\ Matcher!FittingNodes(cg, js, busy) = MP!FittingNodes(cg, js, busy)
         /\ Matcher!FirstNodes(S, k) = MP!FirstNodes(S, k)
<1>1. Matcher!FittingNodes(cg, js, busy) = MP!FittingNodes(cg, js, busy)
  BY DEF Matcher!FittingNodes, MP!FittingNodes, Matcher!HasCapacity, MP!HasCapacity
<1>2. Matcher!FirstNodes(S, k) = MP!FirstNodes(S, k)
  BY SameCounts DEF Matcher!FirstNodes, MP!FirstNodes
<1> QED
  BY <1>1, <1>2

LEMMA SameSteps ==
  ASSUME NEW c, NEW cg, NEW name, NEW g, NEW js, NEW a
  PROVE  /\ Matcher!AddCluster(c, cg) <=> MP!AddCluster(c, cg)
         /\ Matcher!RemoveCluster(c) <=> MP!RemoveCluster(c)
         /\ Matcher!AddSubsystem(c, name, g) <=> MP!AddSubsystem(c, name, g)
         /\ Matcher!RemoveSubsystem(c, name) <=> MP!RemoveSubsystem(c, name)
         /\ Matcher!AllocateSatisfyOnly(c) <=> MP!AllocateSatisfyOnly(c)
         /\ Matcher!Allocate(js, c) <=> MP!Allocate(js, c)
         /\ Matcher!Free(a) <=> MP!Free(a)
<1>1. Matcher!AddCluster(c, cg) <=> MP!AddCluster(c, cg)
  BY SameMaps DEF Matcher!AddCluster, MP!AddCluster
<1>2. Matcher!RemoveCluster(c) <=> MP!RemoveCluster(c)
  BY SameMaps, SameOrders DEF Matcher!RemoveCluster, MP!RemoveCluster
<1>3. /\ Matcher!AddSubsystem(c, name, g) <=> MP!AddSubsystem(c, name, g)
      /\ Matcher!RemoveSubsystem(c, name) <=> MP!RemoveSubsystem(c, name)
  BY SameGraphs DEF Matcher!AddSubsystem, MP!AddSubsystem, Matcher!RemoveSubsystem, MP!RemoveSubsystem
<1>4. Matcher!AllocateSatisfyOnly(c) <=> MP!AllocateSatisfyOnly(c)
  BY DEF Matcher!AllocateSatisfyOnly, MP!AllocateSatisfyOnly
<1>5. Matcher!Allocate(js, c) <=> MP!Allocate(js, c)
  BY SameMaps, SameNodes, SameCounts DEF Matcher!Allocate, MP!Allocate
<1>6. Matcher!Free(a) <=> MP!Free(a)
  BY SameMaps DEF Matcher!Free, MP!Free
<1> QED
  BY <1>1, <1>2, <1>3, <1>4, <1>5, <1>6

\* What the matcher's own proofs assume of its constants.
LEMMA SameConstants ==
  /\ MP!ContainmentsAssumption /\ MP!NamesAssumption /\ MP!SpecsAssumption
  /\ MP!MaxAllocsAssumption
<1>1. MP!ContainmentsAssumption
  BY MatcherAssumption
     DEF Matcher!ContainmentsAssumption, MP!ContainmentsAssumption, Matcher!IsFiniteSet,
         MP!IsFiniteSet, Matcher!Capacity, MP!Capacity
<1>2. MP!NamesAssumption
  BY MatcherAssumption
     DEF Matcher!NamesAssumption, MP!NamesAssumption, Matcher!ContainmentSubsystem,
         MP!ContainmentSubsystem
<1>3. MP!SpecsAssumption
  BY MatcherAssumption
     DEF Matcher!SpecsAssumption, MP!SpecsAssumption, Matcher!Capacity, MP!Capacity
<1>4. MP!MaxAllocsAssumption
  BY InlineAssumption DEF MP!MaxAllocsAssumption
<1> QED
  BY <1>1, <1>2, <1>3, <1>4

-----------------------------------------------------------------------------

LEMMA CopiesMember ==
  ASSUME NEW f
  PROVE  f \in Copies <=> DOMAIN f \subseteq Jobs /\ f \in [DOMAIN f -> Job]
<1>1. ASSUME f \in Copies PROVE DOMAIN f \subseteq Jobs /\ f \in [DOMAIN f -> Job]
  <2>1. PICK D \in SUBSET Jobs : f \in [D -> Job]
    BY <1>1 DEF Copies
  <2> QED
    BY <2>1
<1>2. ASSUME DOMAIN f \subseteq Jobs, f \in [DOMAIN f -> Job] PROVE f \in Copies
  BY <1>2 DEF Copies
<1> QED
  BY <1>1, <1>2

LEMMA NewJobIsJob == NewJob \in Job
BY InlineAssumption DEF NewJob, Job, JobStates

LEMMA IdleShape ==
  /\ LoopShape(Idle) /\ Idle.pc = "idle" /\ Idle.job = None /\ Idle.rec = NewJob
  /\ Idle.todo = {} /\ Idle.alloc = 0
<1>1. <<>> \in Copies
  <2>1. DOMAIN <<>> = {} /\ <<>> \in [{} -> Job]
    OBVIOUS
  <2> QED
    BY <2>1, CopiesMember
<1> QED
  BY <1>1, NewJobIsJob, NoneAssumption, InlineAssumption DEF Idle, LoopShape, LoopState, RestPcs, WaitPcs, WatchPcs, PollPcs

\* Nothing is forgotten.
Grows ==
  /\ Len(remote) <= Len(remote') /\ DOMAIN grantee \subseteq DOMAIN grantee'
  /\ \A a \in DOMAIN grantee : grantee'[a] = grantee[a]

LEMMA RecOKGrows ==
  ASSUME Grows, Remotes, Remotes', NEW rec, NEW j, RecOK(rec, j, Len(remote), grantee)
  PROVE  RecOK(rec, j, Len(remote'), grantee')
<1>1. Len(remote) \in Nat /\ Len(remote') \in Nat /\ rec.handle \in Nat
  BY DEF Remotes, RecOK, Job
<1> QED
  BY <1>1 DEF Grows, RecOK

\* Who holds m.mu, the fleet and the remote jobs are as they were.
LEMMA OthersStay ==
  ASSUME IInv, UNCHANGED <<fleet, requests, mu, remote>>
  PROVE  FleetOK' /\ Locked' /\ Remotes'
BY DEF IInv, Managed, FleetOK, Locked, At, Remotes

\* The ticker changes nothing but its locals.
LEMMA LoopMoves ==
  ASSUME IInv, UNCHANGED <<matcherVars, fleetVars, storeVars, apiVars, grantee>>,
         LoopShape(loop'), LoopKnows(loop', queue, cancelReq),
         LoopRecs(loop', Len(remote), grantee),
         loop.pc \notin {"update", "release"}, loop'.pc # "fail",
         \A j \in Jobs : HalfWay(queue[j]) => loop'.job = j
  PROVE  Managed'
<1>1. UNCHANGED <<queue, remote, requests, mu, fleet, cancelReq, grantee, live, nextID>>
  BY DEF matcherVars, fleetVars, storeVars, apiVars
<1>2. Grants' /\ Records'
  BY <1>1 DEF IInv, Managed, Grants, Records
<1>3. NothingHalfWay'
  BY <1>1 DEF NothingHalfWay, HalfWay
<1>4. Holdings'
  BY <1>1 DEF IInv, Managed, Holdings, Held
<1>5. LoopOK' /\ RequestsOK'
  BY <1>1 DEF IInv, Managed, LoopOK, RequestsOK
<1> QED
  BY <1>1, <1>2, <1>3, <1>4, <1>5, OthersStay DEF Managed

\* The ticker writes the record of j.
LEMMA LoopWrites ==
  ASSUME IInv, UNCHANGED <<matcherVars, fleetVars, remote, apiVars, grantee>>,
         NEW j \in Jobs, NEW rec \in Job, queue[j] # None,
         queue' = [queue EXCEPT ![j] = rec], RecOK(rec, j, Len(remote), grantee),
         j \notin cancelReq /\ rec.state = "SUBMITTED" => rec.alloc = 0,
         loop.job \in {j, None}, loop'.job \in {j, None},
         LoopShape(loop'), LoopKnows(loop', queue', cancelReq),
         LoopRecs(loop', Len(remote), grantee),
         HalfWay(rec) => loop'.job = j,
         \A a \in DOMAIN live : grantee[a] = j /\ j \notin cancelReq => Held(a, j, loop', queue')
  PROVE  Managed'
<1>0. UNCHANGED <<remote, requests, mu, fleet, cancelReq, grantee, live, nextID>>
  BY DEF matcherVars, fleetVars, apiVars
<1>1. /\ queue \in [Jobs -> Job \cup {None}] /\ queue' \in [Jobs -> Job \cup {None}]
      /\ \A i \in Jobs : queue'[i] = IF i = j THEN rec ELSE queue[i]
      /\ None \notin Jobs /\ rec # None
  BY NoneAssumption DEF IInv, Managed, Records
<1>2. Grants'
  BY <1>0, <1>1 DEF IInv, Managed, Grants
<1>3. Records'
  BY <1>0, <1>1 DEF IInv, Managed, Records
<1>4. RequestsOK'
  <2> SUFFICES ASSUME NEW r \in Requests, requests[r] # None
               PROVE  RequestOK(requests[r], queue', cancelReq, Len(remote), grantee)
    BY <1>0 DEF IInv, Managed, RequestsOK, RequestOK
  <2>1. RequestOK(requests[r], queue, cancelReq, Len(remote), grantee)
    BY DEF IInv, Managed, RequestsOK
  <2> QED
    BY <1>1, <2>1 DEF RequestOK, RequestShape
<1>5. NothingHalfWay'
  <2> SUFFICES ASSUME NEW i \in Jobs, HalfWay(queue'[i]) PROVE loop'.job = i
    BY DEF NothingHalfWay, HalfWay
  <2>1. CASE i = j
    BY <1>1, <2>1
  <2>2. CASE i # j
    <3>1. loop.job = i
      BY <1>1, <2>2 DEF IInv, Managed, NothingHalfWay, HalfWay
    <3> QED
      BY <1>1, <2>2, <3>1
  <2> QED
    BY <2>1, <2>2
<1>6. Holdings'
  <2> SUFFICES ASSUME NEW a \in DOMAIN live, grantee[a] \notin cancelReq
               PROVE  Held(a, grantee[a], loop', queue')
    BY <1>0 DEF Holdings
  <2>1. grantee[a] \in Jobs /\ Held(a, grantee[a], loop, queue)
    BY DEF IInv, Managed, Grants, Holdings
  <2>2. CASE grantee[a] = j
    BY <2>2
  <2>3. CASE grantee[a] # j
    BY <1>1, <2>1, <2>3 DEF Held
  <2> QED
    BY <2>2, <2>3
<1>7. LoopOK'
  BY <1>0 DEF LoopOK
<1> QED
  BY <1>0, <1>2, <1>3, <1>4, <1>5, <1>6, <1>7, OthersStay DEF Managed

\* What can be read off the invariant about a job at hand.
LEMMA LoopFacts ==
  ASSUME IInv
  PROVE  /\ loop \in LoopState /\ loop.todo \subseteq Jobs
         /\ loop.pc \notin RestPcs => /\ loop.job \in Jobs /\ queue[loop.job] \in Job
                                     /\ queue[loop.job] # None
                                     /\ RecOK(loop.rec, loop.job, Len(remote), grantee)
         /\ \A j \in loop.todo : queue[j] \in Job /\ queue[j] # None
         /\ Len(remote) \in Nat /\ MaxAllocs \in Nat /\ None \notin Jobs
         /\ \A a \in DOMAIN live : a # 0 /\ grantee[a] \in Jobs
<1>1. loop \in LoopState /\ loop.todo \subseteq Jobs
  BY DEF IInv, Managed, LoopOK, LoopShape, LoopState
<1>2. loop.pc \notin RestPcs => loop.job \in Jobs
  BY <1>1 DEF IInv, Managed, LoopOK, LoopShape, LoopState
<1>3. \A j \in loop.todo : queue[j] \in Job /\ queue[j] # None
  BY <1>1 DEF IInv, Managed, LoopOK, LoopKnows, Records
<1>4. Len(remote) \in Nat /\ MaxAllocs \in Nat /\ None \notin Jobs
  BY InlineAssumption, NoneAssumption DEF IInv, Managed, Remotes
<1>5. \A a \in DOMAIN live : a # 0 /\ grantee[a] \in Jobs
  BY DEF IInv, Managed, Grants
<1> QED
  BY <1>1, <1>2, <1>3, <1>4, <1>5 DEF IInv, Managed, LoopOK, LoopKnows, LoopRecs, Records

\* The pass goes on, or hands over to the monitor.
LEMMA NextJobOK ==
  ASSUME IInv, NEW P \in SUBSET loop.todo, NEW q, \A j \in P : q[j] # None, NEW l, l = NextJob(P)
  PROVE  /\ LoopShape(l) /\ LoopKnows(l, q, cancelReq) /\ LoopRecs(l, Len(remote), grantee)
         /\ l.job = None /\ l.pc \in {"monitor", "get"}
<1>1. LoopShape(l) /\ l.job = None /\ l.pc \in {"monitor", "get"} /\ l.todo = P
  BY IdleShape, LoopFacts DEF NextJob, LoopShape, LoopState, RestPcs, WaitPcs, WatchPcs, PollPcs
<1> QED
  BY <1>1 DEF LoopKnows, LoopRecs, RestPcs, PlacePcs, DispatchPcs, PollPcs, WaitPcs, WatchPcs

\* The monitor goes on with copies that are as the store has them, or ends.
LEMMA NextActiveOK ==
  ASSUME IInv, NEW P \in SUBSET Jobs, NEW snap, NEW q,
         \A j \in P : /\ q[j] # None /\ RecOK(snap[j], j, Len(remote), grantee)
                      /\ snap[j].state \in {"MATCHED", "DISPATCHING", "RUNNING"}
                      /\ j \notin cancelReq => Same(snap[j], q[j]),
         NEW l, l = NextActive(P, snap)
  PROVE  /\ LoopShape(l) /\ LoopKnows(l, q, cancelReq) /\ LoopRecs(l, Len(remote), grantee)
         /\ l.job = None /\ l.pc \in {"idle", "status"}
<1> DEFINE copies == [j \in P |-> snap[j]]
<1>1. copies \in Copies /\ DOMAIN copies = P
  BY CopiesMember DEF RecOK
<1>2. CASE P = {}
  <2>1. l = Idle
    BY <1>2 DEF NextActive
  <2> QED
    BY <2>1, IdleShape DEF LoopKnows, LoopRecs, RestPcs, PlacePcs, DispatchPcs, PollPcs, WaitPcs, WatchPcs
<1>3. CASE P # {}
  <2>1. l = [Idle EXCEPT !.pc = "status", !.todo = P, !.snap = copies]
    BY <1>3 DEF NextActive
  <2> HIDE DEF copies
  <2>2. /\ l.job = None /\ l.pc = "status" /\ l.todo = P /\ l.snap = copies /\ l.rec = NewJob
        /\ l \in LoopState
    <3>1. l = [pc |-> "status", todo |-> P, snap |-> copies, job |-> None, rec |-> NewJob,
               feasible |-> {}, left |-> {}, alloc |-> 0]
      BY <2>1 DEF Idle
    <3>2. P \in SUBSET Jobs /\ copies \in Copies /\ "status" \in RestPcs /\ 0 \in 0..MaxAllocs
      BY <1>1, InlineAssumption DEF RestPcs
    <3> QED
      BY <3>1, <3>2, NewJobIsJob DEF LoopState
  <2>4. LoopShape(l)
    BY <1>1, <2>2 DEF LoopShape, RestPcs, WaitPcs, WatchPcs, PollPcs
  <2>3. \A j \in P : copies[j] = snap[j]
    BY DEF copies
  <2> QED
    BY <2>2, <2>3, <2>4 DEF LoopKnows, LoopRecs, RestPcs, PlacePcs, DispatchPcs, PollPcs, WaitPcs, WatchPcs
<1> QED
  BY <1>2, <1>3

-----------------------------------------------------------------------------
(* Every step of the manager is a step of the matcher, or leaves it alone *)

LEMMA RequestFacts ==
  ASSUME IInv, NEW r \in Requests, requests[r] # None
  PROVE  /\ requests[r] \in ApiRequest /\ RequestShape(requests[r])
         /\ RequestOK(requests[r], queue, cancelReq, Len(remote), grantee)
<1>1. RequestOK(requests[r], queue, cancelReq, Len(remote), grantee)
  BY DEF IInv, Managed, RequestsOK
<1> QED
  BY <1>1 DEF RequestOK, RequestShape

LEMMA FreeAllocMatches ==
  ASSUME NEW a, FreeAlloc(a)
  PROVE  MP!Next \/ UNCHANGED matcherVars
<1>1. CASE a \in DOMAIN live
  <2>1. MP!Free(a)
    BY <1>1, SameSteps DEF FreeAlloc
  <2> QED
    BY <1>1, <2>1 DEF MP!Next
<1>2. CASE a \notin DOMAIN live
  BY <1>2 DEF FreeAlloc
<1> QED
  BY <1>1, <1>2

LEMMA AllocateMatches ==
  ASSUME IInv, NEW c \in Clusters, AllocateOn(c)
  PROVE  MP!Next
<1>1. loop.job \in Jobs
  BY LoopFacts DEF AllocateOn, RestPcs
<1>2. SpecOf[loop.job] \in Specs
  BY <1>1, InlineAssumption
<1>3. MP!Allocate(SpecOf[loop.job], c) \/ MP!AllocateSatisfyOnly(c)
  BY SameSteps DEF AllocateOn
<1> QED
  BY <1>2, <1>3 DEF MP!Next

LEMMA AddMatches ==
  ASSUME IInv, NEW r \in Requests, AddMatcher(r)
  PROVE  MP!Next
<1> DEFINE cg == [containment |-> <<>>, subsystems |-> <<>>, reserves |-> requests[r].config.reserves]
<1>1. requests[r].cluster \in Clusters /\ requests[r].config \in Configs
  BY RequestFacts DEF AddMatcher, At, RequestShape, FleetPcs
<1>2. requests[r].config.reserves \in BOOLEAN /\ <<>> \in Containments
  BY <1>1, InlineAssumption
<1>3. <<>> \in MP!PartialFunctions(Names, AuxGraphs)
  <2>1. DOMAIN <<>> = {} /\ <<>> \in [{} -> AuxGraphs]
    OBVIOUS
  <2> QED
    BY <2>1 DEF MP!PartialFunctions
<1>4. cg \in MP!ClusterGraph
  BY <1>2, <1>3 DEF MP!ClusterGraph
<1>5. MP!AddCluster(requests[r].cluster, cg)
  BY SameSteps DEF AddMatcher
<1> HIDE DEF cg
<1> QED
  BY <1>1, <1>4, <1>5 DEF MP!Next

LEMMA EditMatches ==
  ASSUME IInv, NEW r \in Requests, AttachMatcher(r) \/ DetachMatcher(r) \/ RemoveMatcher(r)
  PROVE  MP!Next \/ UNCHANGED matcherVars
<1>0. requests[r] # None /\ requests[r].pc \in {"attach", "detach", "removeMatcher"}
  BY DEF AttachMatcher, DetachMatcher, RemoveMatcher, At
<1>1. requests[r].cluster \in Clusters
  BY <1>0, RequestFacts DEF RequestShape, FleetPcs
<1>2. CASE AttachMatcher(r)
  <2>1. \/ requests[r].name = Matcher!ContainmentSubsystem /\ requests[r].graph \in Containments
        \/ requests[r].name \in Names /\ requests[r].graph \in AuxGraphs
    BY <1>2, RequestFacts DEF AttachMatcher, At, RequestShape
  <2>2. \/ MP!AddSubsystem(requests[r].cluster, requests[r].name, requests[r].graph)
        \/ UNCHANGED matcherVars
    BY <1>2, SameSteps DEF AttachMatcher
  <2>3. Matcher!ContainmentSubsystem = MP!ContainmentSubsystem
    BY DEF Matcher!ContainmentSubsystem, MP!ContainmentSubsystem
  <2> QED
    BY <1>1, <2>1, <2>2, <2>3 DEF MP!Next
<1>3. CASE DetachMatcher(r)
  <2>1. requests[r].name \in Names
    BY <1>3, RequestFacts DEF DetachMatcher, At, RequestShape
  <2>2. MP!RemoveSubsystem(requests[r].cluster, requests[r].name) \/ UNCHANGED matcherVars
    BY <1>3, SameSteps DEF DetachMatcher
  <2> QED
    BY <1>1, <2>1, <2>2 DEF MP!Next
<1>4. CASE RemoveMatcher(r)
  <2>1. MP!RemoveCluster(requests[r].cluster)
    BY <1>4, SameSteps DEF RemoveMatcher
  <2> QED
    BY <1>1, <2>1 DEF MP!Next
<1> QED
  BY <1>2, <1>3, <1>4

LEMMA NextMatcher == IInv /\ [Next]_vars => [MP!Next]_(MP!vars)
<1> SUFFICES ASSUME IInv, [Next]_vars PROVE MP!Next \/ UNCHANGED matcherVars
  BY DEF MP!vars, matcherVars
<1>1. ASSUME NEW j \in Jobs, Submit(j) \/ BeginCancel(j) PROVE UNCHANGED matcherVars
  BY <1>1 DEF Submit, BeginCancel
<1>2. ASSUME NEW request, ArriveEdit(request) PROVE UNCHANGED matcherVars
  BY <1>2 DEF ArriveEdit
<1>3. ASSUME NEW r \in Requests, Request(r) PROVE MP!Next \/ UNCHANGED matcherVars
  <2>1. CASE AddMatcher(r)
    BY <2>1, AddMatches
  <2>2. CASE AttachMatcher(r) \/ DetachMatcher(r) \/ RemoveMatcher(r)
    BY <2>2, EditMatches
  <2>3. CASE CancelCommit(r)
    BY <2>3, FreeAllocMatches DEF CancelCommit
  <2> QED
    BY <1>3, <2>1, <2>2, <2>3
       DEF Request, AddFleet, IssueSecret, GetFleet, AddBack, GetBack, RemoveFleet, ForgetSecret,
           CancelRemote, CancelLock
<1>4. ASSUME Loop PROVE MP!Next \/ UNCHANGED matcherVars
  <2>1. ASSUME NEW c \in Clusters, AllocateOn(c) PROVE MP!Next
    BY <2>1, AllocateMatches
  <2>2. CASE FailJobFree \/ MonitorRelease
    BY <2>2, FreeAllocMatches DEF FailJobFree, MonitorRelease
  <2> QED
    BY <1>4, <2>1, <2>2
       DEF Loop, Tick, FleetCheck, NoteEmptyFleet, GetJob, EvaluateJob, FailInfeasible,
           FilterDispatchable, NoteWaiting, NoRoomOn, UpdateMatched, DispatchGet, DispatchMark,
           DispatchSubmit, DispatchRunning, FailJobUpdate, MonitorSnapshot, MonitorStatus,
           MonitorUpdate
<1>5. ASSUME NEW h \in DOMAIN remote, RemoteFinish(h) PROVE UNCHANGED matcherVars
  BY <1>5 DEF RemoteFinish
<1>6. CASE Quiet \/ UNCHANGED vars
  BY <1>6 DEF Quiet, vars
<1> QED
  BY <1>1, <1>2, <1>3, <1>4, <1>5, <1>6
     DEF Next, BeginRegister, BeginAttach, BeginDetach, BeginUnregister

LEMMA MatcherKept == IInv /\ [Next]_vars => MatcherOK'
<1> SUFFICES ASSUME IInv, [MP!Next]_(MP!vars) PROVE MatcherOK'
  BY NextMatcher
<1>1. MP!IInv'
  BY MP!NextIInv, SameConstants DEF IInv, MatcherOK
<1>2. MP!OrderOK'
  BY MP!NextOrder, SameConstants DEF IInv, MatcherOK
<1> QED
  BY <1>1, <1>2 DEF MatcherOK

-----------------------------------------------------------------------------
(* The steps of a pass *)

LEMMA TickStep == ASSUME IInv, Tick PROVE Managed'
<1> DEFINE copies == [j \in Provisional |-> queue[j]]
<1>1. /\ UNCHANGED <<matcherVars, fleetVars, storeVars, apiVars, grantee>> /\ loop.pc = "idle"
      /\ loop' = [Idle EXCEPT !.pc = "fleet", !.todo = Provisional, !.snap = copies]
  BY DEF Tick
<1>2. \A j \in Provisional : /\ j \in Jobs /\ queue[j] \in Job /\ queue[j] # None
                             /\ queue[j].state = "SUBMITTED"
                             /\ RecOK(queue[j], j, Len(remote), grantee)
  BY DEF IInv, Managed, Records, Provisional
<1>3. copies \in Copies /\ DOMAIN copies = Provisional
  BY <1>2, CopiesMember
<1>4. \A j \in Provisional : copies[j] = queue[j]
  OBVIOUS
<1> HIDE DEF copies
<1>5. loop' = [pc |-> "fleet", todo |-> Provisional, snap |-> copies, job |-> None, rec |-> NewJob,
               feasible |-> {}, left |-> {}, alloc |-> 0]
  BY <1>1 DEF Idle
<1>6. LoopShape(loop')
  <2>1. Provisional \in SUBSET Jobs /\ "fleet" \in RestPcs /\ 0 \in 0..MaxAllocs
    BY <1>2, InlineAssumption DEF RestPcs
  <2>2. loop' \in LoopState
    BY <1>3, <1>5, <2>1, NewJobIsJob DEF LoopState
  <2> QED
    BY <1>3, <1>5, <2>1, <2>2 DEF LoopShape, PollPcs
<1>7. LoopKnows(loop', queue, cancelReq)
  BY <1>2, <1>4, <1>5
     DEF LoopKnows, Same, RestPcs, PlacePcs, DispatchPcs, WaitPcs, WatchPcs, PollPcs
<1>8. LoopRecs(loop', Len(remote), grantee)
  BY <1>2, <1>4, <1>5 DEF LoopRecs, RestPcs, WaitPcs
<1>9. \A j \in Jobs : ~HalfWay(queue[j])
  BY <1>1, NoneAssumption DEF IInv, Managed, LoopOK, LoopShape, RestPcs, NothingHalfWay, HalfWay
<1> QED
  BY <1>1, <1>5, <1>6, <1>7, <1>8, <1>9, LoopMoves

\* With the ticker between jobs nothing is half-way.
LEMMA AtRest ==
  ASSUME IInv, loop.pc \in RestPcs
  PROVE  loop.job = None /\ \A j \in Jobs : ~HalfWay(queue[j])
BY NoneAssumption DEF IInv, Managed, LoopOK, LoopShape, NothingHalfWay, HalfWay

LEMMA FleetCheckStep == ASSUME IInv, FleetCheck PROVE Managed'
<1>1. UNCHANGED <<matcherVars, fleetVars, storeVars, apiVars, grantee>> /\ loop.pc = "fleet"
  BY DEF FleetCheck
<1>2. loop.job = None /\ \A j \in Jobs : ~HalfWay(queue[j])
  BY <1>1, AtRest DEF RestPcs
<1>3. CASE loop' = [loop EXCEPT !.pc = "noteEmpty"]
  <2>1. LoopShape(loop')
    BY <1>1, <1>2, <1>3
       DEF IInv, Managed, LoopOK, LoopShape, LoopState, RestPcs, WaitPcs, WatchPcs, PollPcs
  <2>2. LoopKnows(loop', queue, cancelReq)
    BY <1>1, <1>2, <1>3
       DEF IInv, Managed, LoopOK, LoopKnows, LoopShape, LoopState, RestPcs, PlacePcs, DispatchPcs,
           WaitPcs, WatchPcs, PollPcs
  <2>3. LoopRecs(loop', Len(remote), grantee)
    BY <1>1, <1>2, <1>3
       DEF IInv, Managed, LoopOK, LoopRecs, LoopShape, LoopState, RestPcs, WaitPcs, WatchPcs
  <2>4. loop'.pc = "noteEmpty"
    BY <1>3, LoopFacts DEF LoopState
  <2> QED
    BY <1>1, <1>2, <2>1, <2>2, <2>3, <2>4, LoopMoves
<1>4. CASE loop' = NextJob(loop.todo)
  <2>1. \A j \in loop.todo : queue[j] # None
    BY LoopFacts
  <2> QED
    BY <1>1, <1>2, <1>4, <2>1, NextJobOK, LoopMoves
<1> QED
  BY <1>3, <1>4 DEF FleetCheck

LEMMA GetJobStep == ASSUME IInv, GetJob PROVE Managed'
<1>1. UNCHANGED <<matcherVars, fleetVars, storeVars, apiVars, grantee>> /\ loop.pc = "get"
  BY DEF GetJob
<1>2. loop.job = None /\ \A j \in Jobs : ~HalfWay(queue[j])
  BY <1>1, AtRest DEF RestPcs
<1>3. PICK j \in loop.todo :
        loop' = IF queue[j].state # "SUBMITTED" THEN NextJob(loop.todo \ {j})
                ELSE [loop EXCEPT !.pc = "evaluate", !.job = j, !.rec = queue[j]]
  BY DEF GetJob, Oldest
<1>4. CASE queue[j].state # "SUBMITTED"
  <2>1. loop.todo \ {j} \in SUBSET loop.todo /\ \A i \in loop.todo \ {j} : queue[i] # None
    BY LoopFacts
  <2>2. loop' = NextJob(loop.todo \ {j})
    BY <1>3, <1>4
  <2> QED
    BY <1>1, <1>2, <2>1, <2>2, NextJobOK, LoopMoves
<1>5. CASE queue[j].state = "SUBMITTED"
  <2>1. loop' = [loop EXCEPT !.pc = "evaluate", !.job = j, !.rec = queue[j]]
    BY <1>3, <1>5
  <2>2. /\ j \in Jobs /\ queue[j] \in Job /\ queue[j] # None /\ j # None
        /\ RecOK(queue[j], j, Len(remote), grantee)
    BY LoopFacts DEF IInv, Managed, Records
  <2>3. /\ loop' \in LoopState /\ loop'.pc = "evaluate" /\ loop'.job = j /\ loop'.rec = queue[j]
        /\ loop'.todo = loop.todo
    BY <2>1, <2>2, LoopFacts DEF LoopState, PlacePcs
  <2>4. LoopShape(loop')
    BY <2>2, <2>3 DEF LoopShape, RestPcs, WaitPcs, WatchPcs, PollPcs
  <2>5. LoopKnows(loop', queue, cancelReq)
    BY <1>5, <2>2, <2>3, LoopFacts
       DEF LoopKnows, Same, HalfWay, RestPcs, PlacePcs, DispatchPcs, WaitPcs, WatchPcs, PollPcs
  <2>6. LoopRecs(loop', Len(remote), grantee)
    BY <2>2, <2>3 DEF LoopRecs, RestPcs, WaitPcs, WatchPcs
  <2> QED
    BY <1>1, <1>2, <2>3, <2>4, <2>5, <2>6, LoopMoves
<1> QED
  BY <1>4, <1>5

\* Placing goes on, with the same job and the record as it was read.
LEMMA PlacingMoves ==
  ASSUME IInv, UNCHANGED <<matcherVars, fleetVars, storeVars, apiVars, grantee>>,
         loop.pc \in PlacePcs \ {"update"}, loop'.pc \in PlacePcs \ {"update"},
         loop' \in LoopState, loop'.job = loop.job, loop'.rec = loop.rec, loop'.todo = loop.todo
  PROVE  Managed'
<1>1. LoopShape(loop')
  BY DEF IInv, Managed, LoopOK, LoopShape, RestPcs, PlacePcs, WaitPcs, WatchPcs, PollPcs
<1>2. LoopKnows(loop', queue, cancelReq)
  BY DEF IInv, Managed, LoopOK, LoopKnows, RestPcs, PlacePcs, DispatchPcs, WaitPcs, WatchPcs
<1>3. LoopRecs(loop', Len(remote), grantee)
  BY DEF IInv, Managed, LoopOK, LoopRecs, RestPcs, PlacePcs, WaitPcs, WatchPcs
<1>4. \A j \in Jobs : HalfWay(queue[j]) => loop'.job = j
  BY DEF IInv, Managed, NothingHalfWay, HalfWay
<1> QED
  BY <1>1, <1>2, <1>3, <1>4, LoopMoves DEF PlacePcs

LEMMA CandidatesRegistered ==
  ASSUME IInv, NEW js
  PROVE  {c.cluster : c \in {c \in ToSet(Matcher!Evaluate(js)) : c.feasible}} \in SUBSET Clusters
<1>1. order \in Seq(DOMAIN clusters) /\ DOMAIN clusters \subseteq Clusters
  BY SameConstants, MP!IInvFacts DEF IInv, MatcherOK, MP!OrderOK, MP!Lists
<1>2. Len(order) \in Nat /\ \A i \in 1..Len(order) : order[i] \in Clusters
  BY <1>1
<1>3. ASSUME NEW i \in DOMAIN Matcher!Evaluate(js)
      PROVE  Matcher!Evaluate(js)[i].cluster \in Clusters
  <2>1. i \in 1..Len(order) /\ Matcher!Evaluate(js)[i] = Matcher!Candidate(order[i], js)
    BY <1>3 DEF Matcher!Evaluate
  <2>2. Matcher!Candidate(order[i], js).cluster = order[i]
    BY DEF Matcher!Candidate
  <2> QED
    BY <1>2, <2>1, <2>2
<1> QED
  BY <1>3 DEF ToSet

LEMMA EvaluateStep == ASSUME IInv, EvaluateJob PROVE Managed'
<1> DEFINE feasible == {c.cluster : c \in {c \in ToSet(Matcher!Evaluate(SpecOf[loop.job])) : c.feasible}}
<1>1. /\ UNCHANGED <<matcherVars, fleetVars, storeVars, apiVars, grantee>> /\ loop.pc = "evaluate"
      /\ loop' = [loop EXCEPT !.feasible = feasible,
                    !.pc = IF feasible = {} THEN "infeasible" ELSE "filter"]
  BY DEF EvaluateJob
<1>2. feasible \in SUBSET Clusters
  BY CandidatesRegistered
<1> HIDE DEF feasible
<1>3. /\ loop' \in LoopState /\ loop'.pc \in PlacePcs \ {"update"} /\ loop'.job = loop.job
      /\ loop'.rec = loop.rec /\ loop'.todo = loop.todo
  BY <1>1, <1>2, LoopFacts DEF LoopState, PlacePcs
<1> QED
  BY <1>1, <1>3, PlacingMoves DEF PlacePcs

LEMMA FilterStep == ASSUME IInv, FilterDispatchable PROVE Managed'
<1> DEFINE left == {c \in loop.feasible : c \in DOMAIN fleet /\ ~fleet[c].emulated}
<1>1. /\ UNCHANGED <<matcherVars, fleetVars, storeVars, apiVars, grantee>> /\ loop.pc = "filter"
      /\ loop' = [loop EXCEPT !.left = left,
                    !.pc = IF left = {} THEN "noteEmulated" ELSE "place"]
  BY DEF FilterDispatchable
<1>2. left \in SUBSET Clusters
  BY LoopFacts DEF LoopState
<1> HIDE DEF left
<1>3. /\ loop' \in LoopState /\ loop'.pc \in PlacePcs \ {"update"} /\ loop'.job = loop.job
      /\ loop'.rec = loop.rec /\ loop'.todo = loop.todo
  BY <1>1, <1>2, LoopFacts DEF LoopState, PlacePcs
<1> QED
  BY <1>1, <1>3, PlacingMoves DEF PlacePcs

LEMMA NoRoomStep == ASSUME IInv, NEW c \in Clusters, NoRoomOn(c) PROVE Managed'
<1>1. /\ UNCHANGED <<matcherVars, fleetVars, storeVars, apiVars, grantee>> /\ loop.pc = "place"
      /\ loop' = [loop EXCEPT !.left = @ \ {c},
                    !.pc = IF loop.left = {c} THEN "noteFull" ELSE "place"]
  BY DEF NoRoomOn
<1>2. loop.left \ {c} \in SUBSET Clusters
  BY LoopFacts DEF LoopState
<1>3. /\ loop' \in LoopState /\ loop'.pc \in PlacePcs \ {"update"} /\ loop'.job = loop.job
      /\ loop'.rec = loop.rec /\ loop'.todo = loop.todo
  BY <1>1, <1>2, LoopFacts DEF LoopState, PlacePcs
<1> QED
  BY <1>1, <1>3, PlacingMoves DEF PlacePcs

\* The record a dispatch works on is read again.
LEMMA DispatchGetStep == ASSUME IInv, DispatchGet PROVE Managed'
<1>1. PICK pc \in {"mark", "free"} :
        /\ UNCHANGED <<matcherVars, fleetVars, storeVars, apiVars, grantee>> /\ loop.pc = "dispatch"
        /\ loop' = [loop EXCEPT !.rec = queue[loop.job], !.pc = pc]
  BY DEF DispatchGet
<1>2. /\ loop.job \in Jobs /\ queue[loop.job] \in Job /\ queue[loop.job] # None
      /\ RecOK(queue[loop.job], loop.job, Len(remote), grantee)
  BY <1>1, LoopFacts DEF RestPcs, IInv, Managed, Records
<1>3. /\ loop' \in LoopState /\ loop'.pc = pc /\ loop'.job = loop.job
      /\ loop'.rec = queue[loop.job] /\ loop'.todo = loop.todo
  BY <1>1, <1>2, LoopFacts DEF LoopState, DispatchPcs
<1>4. LoopShape(loop')
  BY <1>1, <1>2, <1>3, LoopFacts DEF LoopShape, RestPcs, WaitPcs, WatchPcs, PollPcs
<1>5. LoopKnows(loop', queue, cancelReq)
  BY <1>1, <1>2, <1>3
     DEF IInv, Managed, LoopOK, LoopKnows, RestPcs, PlacePcs, DispatchPcs, WaitPcs, WatchPcs, PollPcs
<1>6. LoopRecs(loop', Len(remote), grantee)
  BY <1>1, <1>2, <1>3 DEF LoopRecs, WaitPcs, WatchPcs
<1>7. \A j \in Jobs : HalfWay(queue[j]) => loop'.job = j
  BY <1>3 DEF IInv, Managed, NothingHalfWay, HalfWay
<1> QED
  BY <1>1, <1>3, <1>4, <1>5, <1>6, <1>7, LoopMoves

LEMMA SnapshotStep == ASSUME IInv, MonitorSnapshot PROVE Managed'
<1>1. /\ UNCHANGED <<matcherVars, fleetVars, storeVars, apiVars, grantee>> /\ loop.pc = "monitor"
      /\ loop' = NextActive(Active, queue)
  BY DEF MonitorSnapshot
<1>2. \A j \in Active : /\ queue[j] # None /\ RecOK(queue[j], j, Len(remote), grantee)
                        /\ queue[j].state \in {"MATCHED", "DISPATCHING", "RUNNING"}
                        /\ Same(queue[j], queue[j])
  BY DEF IInv, Managed, Records, Active, Same
<1>3. Active \in SUBSET Jobs
  BY DEF Active
<1>4. /\ LoopShape(loop') /\ LoopKnows(loop', queue, cancelReq)
      /\ LoopRecs(loop', Len(remote), grantee) /\ loop'.pc \in {"idle", "status"}
  BY <1>1, <1>2, <1>3, NextActiveOK
<1> QED
  BY <1>1, <1>4, AtRest, LoopMoves DEF RestPcs

\* What the monitor's copies are.
LEMMA WatchFacts ==
  ASSUME IInv, loop.pc \in WatchPcs, NEW j \in loop.todo
  PROVE  /\ j \in Jobs /\ queue[j] # None /\ RecOK(loop.snap[j], j, Len(remote), grantee)
         /\ loop.snap[j].state \in {"MATCHED", "DISPATCHING", "RUNNING"}
         /\ j # loop.job /\ j \notin cancelReq => Same(loop.snap[j], queue[j])
BY LoopFacts DEF IInv, Managed, LoopOK, LoopKnows, LoopRecs

LEMMA StatusStep == ASSUME IInv, MonitorStatus PROVE Managed'
<1>1. UNCHANGED <<matcherVars, fleetVars, storeVars, apiVars, grantee>> /\ loop.pc = "status"
  BY DEF MonitorStatus
<1>2. loop.job = None /\ \A j \in Jobs : ~HalfWay(queue[j])
  BY <1>1, AtRest DEF RestPcs
<1>3. PICK j \in loop.todo :
        \/ loop' = NextActive(loop.todo \ {j}, loop.snap)
        \/ /\ loop.snap[j].handle # 0
           /\ loop' = [loop EXCEPT !.pc = "observe", !.job = j,
                !.rec = [loop.snap[j] EXCEPT !.state = remote[loop.snap[j].handle].state]]
  BY DEF MonitorStatus, Oldest
<1>4. \A i \in loop.todo : /\ i \in Jobs /\ queue[i] # None /\ i # None
                           /\ RecOK(loop.snap[i], i, Len(remote), grantee)
                           /\ loop.snap[i].state \in {"MATCHED", "DISPATCHING", "RUNNING"}
                           /\ i \notin cancelReq => Same(loop.snap[i], queue[i])
  BY <1>1, <1>2, WatchFacts, LoopFacts DEF WatchPcs
<1>5. CASE loop' = NextActive(loop.todo \ {j}, loop.snap)
  <2>1. loop.todo \ {j} \in SUBSET Jobs
    BY <1>4
  <2>2. /\ LoopShape(loop') /\ LoopKnows(loop', queue, cancelReq)
        /\ LoopRecs(loop', Len(remote), grantee) /\ loop'.pc \in {"idle", "status"}
    BY <1>4, <1>5, <2>1, NextActiveOK
  <2> QED
    BY <1>1, <1>2, <2>2, LoopMoves
<1>6. CASE /\ loop.snap[j].handle # 0
           /\ loop' = [loop EXCEPT !.pc = "observe", !.job = j,
                !.rec = [loop.snap[j] EXCEPT !.state = remote[loop.snap[j].handle].state]]
  <2> DEFINE copy == loop.snap[j]
             rec == [copy EXCEPT !.state = remote[copy.handle].state]
  <2>1. /\ copy \in Job /\ copy.handle \in Nat /\ copy.handle # 0 /\ copy.handle <= Len(remote)
        /\ RecOK(copy, j, Len(remote), grantee)
    BY <1>4, <1>6 DEF RecOK, Job
  <2> HIDE DEF copy
  <2>2. remote[copy.handle].state \in Statuses
    <3>1. copy.handle \in 1..Len(remote)
      BY <2>1, LoopFacts
    <3> DEFINE Native == [job : Jobs, cluster : Clusters \cup {None}, state : Statuses]
    <3>2. remote \in Seq(Native)
      BY DEF IInv, Managed, Remotes
    <3> HIDE DEF Native
    <3>3. remote[copy.handle] \in Native
      BY <3>1, <3>2
    <3> QED
      BY <3>3 DEF Native
  <2>3. RecOK(rec, j, Len(remote), grantee) /\ rec.state \in Statuses /\ rec.alloc = copy.alloc
    BY <2>1, <2>2 DEF RecOK, Job, JobStates, Statuses
  <2>4. loop' = [loop EXCEPT !.pc = "observe", !.job = j, !.rec = rec]
    BY <1>6 DEF copy
  <2> HIDE DEF rec
  <2>5. /\ loop' \in LoopState /\ loop'.pc = "observe" /\ loop'.job = j /\ loop'.rec = rec
        /\ loop'.todo = loop.todo /\ loop'.snap = loop.snap
    BY <1>4, <2>3, <2>4, LoopFacts DEF LoopState, PollPcs, RecOK
  <2>6. LoopShape(loop')
    BY <1>1, <1>4, <2>5
       DEF IInv, Managed, LoopOK, LoopShape, RestPcs, WaitPcs, WatchPcs, PollPcs
  <2>7. LoopKnows(loop', queue, cancelReq)
    BY <1>2, <1>4, <2>3, <2>5
       DEF LoopKnows, Same, copy, RestPcs, PlacePcs, DispatchPcs, WaitPcs, WatchPcs, PollPcs
  <2>8. LoopRecs(loop', Len(remote), grantee)
    BY <1>4, <2>3, <2>5 DEF LoopRecs
  <2> QED
    BY <1>1, <1>2, <2>5, <2>6, <2>7, <2>8, LoopMoves
<1> QED
  BY <1>3, <1>5, <1>6

\* The job at hand is written, and the pass goes on.
LEMMA WritesAndGoesOn ==
  ASSUME IInv, UNCHANGED <<matcherVars, fleetVars, apiVars, grantee>>,
         loop.pc \in PlacePcs \cup DispatchPcs, NEW rec, Store(loop.job, rec),
         RecOK(rec, loop.job, Len(remote), grantee), ~HalfWay(rec),
         loop.job \notin cancelReq /\ rec.state = "SUBMITTED" => rec.alloc = 0,
         loop' = NextJob(loop.todo \ {loop.job}),
         \A a \in DOMAIN live : grantee[a] = loop.job /\ loop.job \notin cancelReq =>
           a = rec.alloc /\ ~Terminal(rec.state)
  PROVE  Managed'
<1> DEFINE j == loop.job
<1>1. j \in Jobs /\ queue[j] # None /\ queue \in [Jobs -> Job \cup {None}] /\ rec \in Job
  BY LoopFacts DEF RestPcs, PlacePcs, DispatchPcs, RecOK, IInv, Managed, Records
<1>2. queue' = [queue EXCEPT ![j] = rec] /\ UNCHANGED remote
  BY DEF Store
<1>3. /\ queue'[j] = rec /\ loop.todo \ {j} \in SUBSET loop.todo
      /\ \A i \in loop.todo \ {j} : queue'[i] # None
  BY <1>1, <1>2, LoopFacts
<1>4. /\ LoopShape(loop') /\ LoopKnows(loop', queue', cancelReq)
      /\ LoopRecs(loop', Len(remote), grantee) /\ loop'.job = None
  BY <1>3, NextJobOK
<1>5. \A a \in DOMAIN live : grantee[a] = j /\ j \notin cancelReq => Held(a, j, loop', queue')
  BY <1>1, <1>3, <1>4, LoopFacts DEF Held
<1> HIDE DEF j
<1> QED
  BY <1>1, <1>2, <1>4, <1>5, LoopWrites DEF j

\* A job that waits for its place holds nothing.
LEMMA PlacedHoldsNothing ==
  ASSUME IInv, loop.pc \in PlacePcs, loop.job \notin cancelReq
  PROVE  /\ loop.rec.alloc = 0 /\ queue[loop.job].alloc = 0
         /\ \A a \in DOMAIN live : grantee[a] = loop.job => loop.pc = "update" /\ a = loop.alloc
<1>1. /\ loop.job \in Jobs /\ queue[loop.job] # None /\ loop.rec.state = "SUBMITTED"
      /\ Same(loop.rec, queue[loop.job])
  BY LoopFacts DEF RestPcs, PlacePcs, IInv, Managed, LoopOK, LoopKnows
<1>2. queue[loop.job].alloc = 0
  BY <1>1 DEF IInv, Managed, Records, Same
<1>3. \A a \in DOMAIN live : grantee[a] = loop.job => loop.pc = "update" /\ a = loop.alloc
  BY <1>2, LoopFacts DEF IInv, Managed, Holdings, Held
<1> QED
  BY <1>1, <1>2, <1>3 DEF Same

LEMMA InfeasibleStep == ASSUME IInv, FailInfeasible PROVE Managed'
<1> DEFINE rec == [loop.rec EXCEPT !.state = "FAILED", !.note = None]
<1>1. /\ UNCHANGED <<matcherVars, fleetVars, apiVars, grantee>> /\ loop.pc = "infeasible"
      /\ Store(loop.job, rec) /\ loop' = NextJob(loop.todo \ {loop.job})
  BY DEF FailInfeasible
<1>2. RecOK(loop.rec, loop.job, Len(remote), grantee)
  BY <1>1, LoopFacts DEF RestPcs
<1>3. RecOK(rec, loop.job, Len(remote), grantee) /\ rec.state = "FAILED"
  BY <1>2 DEF RecOK, Job, JobStates
<1> HIDE DEF rec
<1>4. \A a \in DOMAIN live : ~(grantee[a] = loop.job /\ loop.job \notin cancelReq)
  BY <1>1, PlacedHoldsNothing DEF PlacePcs
<1> QED
  BY <1>1, <1>3, <1>4, WritesAndGoesOn DEF PlacePcs, HalfWay

LEMMA FewerClusters ==
  ASSUME NEW S \in SUBSET Clusters
  PROVE  Cardinality(S) \in 0..Cardinality(Clusters)
<1>1. IsFiniteSet(S) /\ Cardinality(S) <= Cardinality(Clusters)
  BY InlineAssumption, FS_Subset
<1>2. Cardinality(S) \in Nat /\ Cardinality(Clusters) \in Nat
  BY <1>1, InlineAssumption, FS_CardinalityType
<1> QED
  BY <1>1, <1>2

\* The note of a waiting job names how many clusters could run it.
LEMMA NoteStep ==
  ASSUME IInv, NEW pc \in {"noteEmulated", "noteFull"},
         NEW text \in {"no clusters", "emulated only", "no free capacity"}, NoteWaiting(pc, text)
  PROVE  Managed'
<1> DEFINE note == <<text, Cardinality(loop.feasible)>>
           rec == [loop.rec EXCEPT !.note = note]
<1>1. /\ UNCHANGED <<matcherVars, fleetVars, apiVars, grantee>> /\ loop.pc = pc
      /\ UNCHANGED storeVars \/ Store(loop.job, rec)
      /\ loop' = NextJob(loop.todo \ {loop.job})
  BY DEF NoteWaiting
<1>2. RecOK(loop.rec, loop.job, Len(remote), grantee) /\ loop.feasible \in SUBSET Clusters
  BY <1>1, LoopFacts DEF RestPcs, LoopState
<1>3. note \in Notes
  <2>1. Cardinality(loop.feasible) \in 0..Cardinality(Clusters)
    BY <1>2, FewerClusters
  <2> QED
    BY <2>1 DEF Notes
<1> HIDE DEF note
<1>4. /\ RecOK(rec, loop.job, Len(remote), grantee) /\ rec.state = loop.rec.state
      /\ rec.alloc = loop.rec.alloc
  BY <1>2, <1>3 DEF RecOK, Job
<1> HIDE DEF rec
<1>5. /\ \A a \in DOMAIN live : ~(grantee[a] = loop.job /\ loop.job \notin cancelReq)
      /\ loop.job \notin cancelReq => rec.alloc = 0
  BY <1>1, <1>4, PlacedHoldsNothing DEF PlacePcs
<1>6. loop.rec.state = "SUBMITTED" /\ loop.job \in Jobs
  BY <1>1, LoopFacts DEF IInv, Managed, LoopOK, LoopKnows, PlacePcs, RestPcs
<1>7. CASE Store(loop.job, rec)
  <2>1. ~HalfWay(rec) /\ loop.pc \in PlacePcs
    BY <1>1, <1>4, <1>6 DEF HalfWay, PlacePcs
  <2> QED
    BY <1>1, <1>4, <1>5, <1>7, <2>1, WritesAndGoesOn
<1>8. CASE UNCHANGED storeVars
  <2>1. loop.todo \ {loop.job} \in SUBSET loop.todo /\ \A i \in loop.todo \ {loop.job} : queue[i] # None
    BY LoopFacts
  <2>2. /\ LoopShape(loop') /\ LoopKnows(loop', queue, cancelReq)
        /\ LoopRecs(loop', Len(remote), grantee) /\ loop'.pc \in {"monitor", "get"}
    BY <1>1, <2>1, NextJobOK
  <2>3. ~HalfWay(queue[loop.job])
    BY <1>1 DEF IInv, Managed, LoopOK, LoopKnows, PlacePcs
  <2>4. \A j \in Jobs : ~HalfWay(queue[j])
    BY <2>3 DEF IInv, Managed, NothingHalfWay, HalfWay
  <2> QED
    BY <1>1, <1>8, <2>2, <2>4, LoopMoves
<1> QED
  BY <1>1, <1>7, <1>8

LEMMA NoteEmptyStep == ASSUME IInv, NoteEmptyFleet PROVE Managed'
<1> DEFINE note == <<"no clusters", 0>>
<1>1. UNCHANGED <<matcherVars, fleetVars, apiVars, grantee>> /\ loop.pc = "noteEmpty"
  BY DEF NoteEmptyFleet
<1>2. PICK j \in loop.todo :
        /\ UNCHANGED storeVars \/ Store(j, [loop.snap[j] EXCEPT !.note = note])
        /\ loop' = IF loop.todo = {j} THEN NextJob({}) ELSE [loop EXCEPT !.todo = @ \ {j}]
  BY DEF NoteEmptyFleet, Oldest
<1> DEFINE rec == [loop.snap[j] EXCEPT !.note = note]
<1>3. note \in Notes
  <2>1. {} \in SUBSET Clusters /\ Cardinality({}) = 0
    BY FS_EmptySet
  <2>2. 0 \in 0..Cardinality(Clusters)
    BY <2>1, FewerClusters
  <2> QED
    BY <2>2 DEF Notes
<1> HIDE DEF note
<1>4. loop.job = None /\ \A i \in Jobs : ~HalfWay(queue[i])
  BY <1>1, AtRest DEF RestPcs
<1>5. \A i \in loop.todo :
        /\ i \in Jobs /\ i # None /\ queue[i] # None /\ queue[i] \in Job
        /\ RecOK(loop.snap[i], i, Len(remote), grantee) /\ loop.snap[i].state = "SUBMITTED"
        /\ i \notin cancelReq => Same(loop.snap[i], queue[i]) /\ queue[i].alloc = 0
  BY <1>1, <1>4, LoopFacts
     DEF IInv, Managed, LoopOK, LoopKnows, LoopRecs, Records, WaitPcs, Same
<1>6. /\ RecOK(rec, j, Len(remote), grantee) /\ rec \in Job /\ rec.state = "SUBMITTED"
      /\ rec.alloc = loop.snap[j].alloc
  BY <1>3, <1>5 DEF RecOK, Job
<1> HIDE DEF rec
<1>7. /\ loop'.job = None /\ loop'.pc \in {"monitor", "get", "noteEmpty"}
      /\ LoopShape(loop') /\ LoopKnows(loop', queue', cancelReq)
      /\ LoopRecs(loop', Len(remote), grantee)
  <2> DEFINE q == queue'
  <2>1. \A i \in loop.todo \ {j} : q[i] = queue[i] /\ q[i] # None
    BY <1>2, <1>5 DEF Store, storeVars, IInv, Managed, Records
  <2> HIDE DEF q
  <2>2. CASE loop.todo = {j}
    <3>1. loop' = NextJob({}) /\ {} \in SUBSET loop.todo
      BY <1>2, <2>2
    <3> QED
      BY <2>1, <3>1, NextJobOK DEF q
  <2>3. CASE loop.todo # {j}
    <3>1. loop' = [loop EXCEPT !.todo = @ \ {j}]
      BY <1>2, <2>3
    <3>2. /\ loop' \in LoopState /\ loop'.pc = "noteEmpty" /\ loop'.job = None
          /\ loop'.todo = loop.todo \ {j} /\ loop'.snap = loop.snap /\ loop'.rec = loop.rec
      BY <1>1, <1>4, <3>1, LoopFacts DEF LoopState
    <3>3. LoopShape(loop')
      BY <1>1, <1>4, <3>2
         DEF IInv, Managed, LoopOK, LoopShape, RestPcs, WaitPcs, WatchPcs, PollPcs
    <3>4. LoopKnows(loop', q, cancelReq)
      BY <1>4, <1>5, <2>1, <3>2
         DEF LoopKnows, Same, RestPcs, PlacePcs, DispatchPcs, PollPcs, WaitPcs, WatchPcs
    <3>5. LoopRecs(loop', Len(remote), grantee)
      BY <1>5, <3>2 DEF LoopRecs, RestPcs
    <3> QED
      BY <2>1, <3>2, <3>3, <3>4, <3>5 DEF q
  <2> QED
    BY <2>2, <2>3
<1>8. CASE UNCHANGED storeVars
  <2>1. queue' = queue
    BY <1>8 DEF storeVars
  <2>2. /\ loop'.pc # "fail" /\ LoopShape(loop') /\ LoopKnows(loop', queue, cancelReq)
        /\ LoopRecs(loop', Len(remote), grantee)
    BY <1>7, <2>1
  <2> QED
    BY <1>1, <1>4, <1>8, <2>2, LoopMoves
<1>9. CASE Store(j, rec)
  <2>1. queue' = [queue EXCEPT ![j] = rec] /\ UNCHANGED remote
    BY <1>9 DEF Store
  <2>2. \A a \in DOMAIN live : ~(grantee[a] = j /\ j \notin cancelReq)
    BY <1>4, <1>5, LoopFacts DEF IInv, Managed, Holdings, Held
  <2>3. j \notin cancelReq => rec.alloc = 0
    BY <1>5, <1>6 DEF Same
  <2>4. /\ loop'.job = None /\ LoopShape(loop') /\ LoopKnows(loop', queue', cancelReq)
        /\ LoopRecs(loop', Len(remote), grantee)
    BY <1>7
  <2> QED
    BY <1>1, <1>4, <1>5, <1>6, <2>1, <2>2, <2>3, <2>4, LoopWrites DEF HalfWay
<1> QED
  BY <1>2, <1>8, <1>9 DEF rec

-----------------------------------------------------------------------------
(* Dispatching the job at hand *)

\* The job at hand is written and stays at hand; its record is kept, but for
\* the state and whatever the step fills in.
LEMMA WritesAndKeeps ==
  ASSUME IInv, UNCHANGED <<matcherVars, fleetVars, apiVars, grantee>>,
         loop.pc \in {"update", "mark"}, loop'.pc \in {"dispatch", "submit"}, NEW rec,
         Store(loop.job, rec), RecOK(rec, loop.job, Len(remote), grantee), HalfWay(rec),
         loop' \in LoopState, loop'.job = loop.job,
         RecOK(loop'.rec, loop.job, Len(remote), grantee),
         loop'.pc = "submit" => loop'.rec.alloc = rec.alloc,
         loop'.todo = loop.todo,
         \A a \in DOMAIN live : grantee[a] = loop.job /\ loop.job \notin cancelReq =>
           a = rec.alloc
  PROVE  Managed'
<1> DEFINE j == loop.job
<1>1. /\ j \in Jobs /\ queue[j] # None /\ queue \in [Jobs -> Job \cup {None}] /\ rec \in Job
      /\ j # None /\ rec # None
  BY LoopFacts, NoneAssumption
     DEF RestPcs, PlacePcs, DispatchPcs, RecOK, IInv, Managed, Records
<1>2. queue' = [queue EXCEPT ![j] = rec] /\ UNCHANGED remote
  BY DEF Store
<1>3. queue'[j] = rec /\ \A i \in loop.todo : queue'[i] # None
  BY <1>1, <1>2, LoopFacts
<1>4. LoopShape(loop')
  BY <1>1 DEF LoopShape, RestPcs, WaitPcs, WatchPcs, PollPcs
<1>5. LoopKnows(loop', queue', cancelReq)
  BY <1>1, <1>3
     DEF LoopKnows, HalfWay, RestPcs, PlacePcs, DispatchPcs, WaitPcs, WatchPcs, PollPcs
<1>6. LoopRecs(loop', Len(remote), grantee)
  BY DEF LoopRecs, RestPcs, WaitPcs, WatchPcs
<1>7. \A a \in DOMAIN live : grantee[a] = j /\ j \notin cancelReq => Held(a, j, loop', queue')
  BY <1>1, <1>3 DEF Held, HalfWay, Terminal
<1>8. j \notin cancelReq /\ rec.state = "SUBMITTED" => rec.alloc = 0
  BY DEF HalfWay
<1> HIDE DEF j
<1> QED
  BY <1>1, <1>2, <1>4, <1>5, <1>6, <1>7, <1>8, LoopWrites DEF j

LEMMA UpdateStep == ASSUME IInv, UpdateMatched PROVE Managed'
<1>1. /\ UNCHANGED <<matcherVars, fleetVars, apiVars, grantee>> /\ loop.pc = "update"
      /\ loop' = [loop EXCEPT !.pc = "dispatch", !.left = {}, !.feasible = {}, !.alloc = 0]
  BY DEF UpdateMatched
<1>2. PICK c \in loop.left :
        Store(loop.job, [loop.rec EXCEPT !.state = "MATCHED", !.alloc = loop.alloc,
                                         !.cluster = c, !.note = None])
  BY DEF UpdateMatched
<1> DEFINE rec == [loop.rec EXCEPT !.state = "MATCHED", !.alloc = loop.alloc,
                                   !.cluster = c, !.note = None]
<1>3. /\ RecOK(loop.rec, loop.job, Len(remote), grantee) /\ c \in Clusters
      /\ loop.alloc \in 0..MaxAllocs /\ loop.alloc \in DOMAIN grantee
      /\ grantee[loop.alloc] = loop.job
  BY <1>1, LoopFacts DEF RestPcs, LoopState, IInv, Managed, LoopOK, LoopRecs
<1>4. /\ RecOK(rec, loop.job, Len(remote), grantee) /\ HalfWay(rec) /\ rec.alloc = loop.alloc
  <2>1. rec \in Job /\ rec.handle = loop.rec.handle /\ rec.alloc = loop.alloc
        /\ rec.state = "MATCHED"
    BY <1>3 DEF RecOK, Job, JobStates
  <2> HIDE DEF rec
  <2> QED
    BY <1>3, <2>1, NoneAssumption DEF RecOK, HalfWay
<1> HIDE DEF rec
<1>5. \A a \in DOMAIN live : grantee[a] = loop.job /\ loop.job \notin cancelReq => a = rec.alloc
  BY <1>1, <1>4, PlacedHoldsNothing DEF PlacePcs
<1>6. /\ loop' \in LoopState /\ loop'.pc = "dispatch" /\ loop'.job = loop.job
      /\ loop'.rec = loop.rec /\ loop'.todo = loop.todo
  <2>1. 0 \in 0..MaxAllocs /\ {} \in SUBSET Clusters /\ "dispatch" \in DispatchPcs
    BY LoopFacts DEF DispatchPcs
  <2>2. loop \in LoopState
    BY LoopFacts
  <2> QED
    BY <1>1, <2>1, <2>2 DEF LoopState
<1> QED
  BY <1>1, <1>2, <1>3, <1>4, <1>5, <1>6, WritesAndKeeps DEF rec

\* What a job being dispatched holds is what its record says.
LEMMA DispatchedHolds ==
  ASSUME IInv, loop.pc \in DispatchPcs \ {"dispatch"}, loop.job \notin cancelReq,
         NEW a \in DOMAIN live, grantee[a] = loop.job
  PROVE  a = loop.rec.alloc /\ loop.pc # "fail"
<1>1. loop.rec.alloc = queue[loop.job].alloc
  BY DEF IInv, Managed, LoopOK, LoopKnows
<1> QED
  BY <1>1 DEF IInv, Managed, Holdings, Held, DispatchPcs

LEMMA MarkStep == ASSUME IInv, DispatchMark PROVE Managed'
<1> DEFINE rec == [loop.rec EXCEPT !.state = "DISPATCHING"]
<1>1. /\ UNCHANGED <<matcherVars, fleetVars, apiVars, grantee>> /\ loop.pc = "mark"
      /\ Store(loop.job, rec) /\ loop' = [loop EXCEPT !.pc = "submit", !.rec = rec]
  BY DEF DispatchMark
<1>2. RecOK(loop.rec, loop.job, Len(remote), grantee)
  BY <1>1, LoopFacts DEF RestPcs
<1>3. /\ RecOK(rec, loop.job, Len(remote), grantee) /\ rec.state = "DISPATCHING"
      /\ rec.alloc = loop.rec.alloc
  BY <1>2 DEF RecOK, Job, JobStates
<1> HIDE DEF rec
<1>4. HalfWay(rec) /\ rec \in Job
  BY <1>3, NoneAssumption DEF HalfWay, RecOK
<1>5. \A a \in DOMAIN live : grantee[a] = loop.job /\ loop.job \notin cancelReq => a = rec.alloc
  BY <1>1, <1>3, DispatchedHolds DEF DispatchPcs
<1>6. /\ loop' \in LoopState /\ loop'.pc = "submit" /\ loop'.job = loop.job
      /\ loop'.rec = rec /\ loop'.todo = loop.todo
  BY <1>1, <1>4, LoopFacts DEF LoopState, DispatchPcs
<1> QED
  BY <1>1, <1>3, <1>4, <1>5, <1>6, WritesAndKeeps

LEMMA RunningStep == ASSUME IInv, DispatchRunning PROVE Managed'
<1> DEFINE rec == [loop.rec EXCEPT !.state = "RUNNING", !.note = None]
<1>1. /\ UNCHANGED <<matcherVars, fleetVars, apiVars, grantee>> /\ loop.pc = "running"
      /\ Store(loop.job, rec) /\ loop' = NextJob(loop.todo \ {loop.job})
  BY DEF DispatchRunning
<1>2. RecOK(loop.rec, loop.job, Len(remote), grantee)
  BY <1>1, LoopFacts DEF RestPcs
<1>3. /\ RecOK(rec, loop.job, Len(remote), grantee) /\ rec.state = "RUNNING"
      /\ rec.alloc = loop.rec.alloc
  BY <1>2 DEF RecOK, Job, JobStates
<1> HIDE DEF rec
<1>4. \A a \in DOMAIN live : grantee[a] = loop.job /\ loop.job \notin cancelReq => a = rec.alloc
  BY <1>1, <1>3, DispatchedHolds DEF DispatchPcs
<1> QED
  BY <1>1, <1>3, <1>4, WritesAndGoesOn DEF DispatchPcs, HalfWay, Terminal

LEMMA FailUpdateStep == ASSUME IInv, FailJobUpdate PROVE Managed'
<1> DEFINE rec == [loop.rec EXCEPT !.state = "FAILED", !.note = None]
<1>1. /\ UNCHANGED <<matcherVars, fleetVars, apiVars, grantee>> /\ loop.pc = "fail"
      /\ Store(loop.job, rec) /\ loop' = NextJob(loop.todo \ {loop.job})
  BY DEF FailJobUpdate
<1>2. RecOK(loop.rec, loop.job, Len(remote), grantee)
  BY <1>1, LoopFacts DEF RestPcs
<1>3. RecOK(rec, loop.job, Len(remote), grantee) /\ rec.state = "FAILED"
  BY <1>2 DEF RecOK, Job, JobStates
<1> HIDE DEF rec
<1>4. \A a \in DOMAIN live : ~(grantee[a] = loop.job /\ loop.job \notin cancelReq)
  BY <1>1, DispatchedHolds DEF DispatchPcs
<1> QED
  BY <1>1, <1>3, <1>4, WritesAndGoesOn DEF DispatchPcs, HalfWay

\* A native job is started: the list of remote jobs grows.
LEMMA SubmitStep == ASSUME IInv, DispatchSubmit PROVE Managed'
<1>1. UNCHANGED <<matcherVars, fleetVars, queue, arrival, apiVars, grantee>> /\ loop.pc = "submit"
  BY DEF DispatchSubmit
<1>2. /\ loop.job \in Jobs /\ queue[loop.job] # None /\ loop.job # None
      /\ RecOK(loop.rec, loop.job, Len(remote), grantee)
      /\ \A j \in Jobs : HalfWay(queue[j]) => loop.job = j
  BY <1>1, LoopFacts DEF RestPcs, IInv, Managed, NothingHalfWay, HalfWay
<1>3. CASE loop' = [loop EXCEPT !.pc = "free"] /\ UNCHANGED remote
  <2>1. /\ loop' \in LoopState /\ loop'.pc = "free" /\ loop'.job = loop.job
        /\ loop'.rec = loop.rec /\ loop'.todo = loop.todo
    BY <1>3, LoopFacts DEF LoopState, DispatchPcs
  <2>2. LoopShape(loop')
    BY <1>2, <2>1 DEF LoopShape, RestPcs, WaitPcs, WatchPcs, PollPcs
  <2>3. LoopKnows(loop', queue, cancelReq)
    BY <1>1, <1>2, <2>1
       DEF IInv, Managed, LoopOK, LoopKnows, RestPcs, PlacePcs, DispatchPcs, WaitPcs, WatchPcs,
           PollPcs
  <2>4. LoopRecs(loop', Len(remote), grantee)
    BY <1>2, <2>1 DEF LoopRecs, WaitPcs, WatchPcs
  <2> QED
    BY <1>1, <1>2, <1>3, <2>1, <2>2, <2>3, <2>4, LoopMoves DEF storeVars
<1>4. CASE /\ remote' = Append(remote, [job |-> loop.job, cluster |-> loop.rec.cluster,
                                        state |-> "RUNNING"])
           /\ loop' = [loop EXCEPT !.pc = "running", !.rec.handle = Len(remote) + 1]
  <2> DEFINE Native == [job : Jobs, cluster : Clusters \cup {None}, state : Statuses]
             new == [job |-> loop.job, cluster |-> loop.rec.cluster, state |-> "RUNNING"]
             rec == [loop.rec EXCEPT !.handle = Len(remote) + 1]
  <2>1. new \in Native /\ remote \in Seq(Native)
    BY <1>2 DEF RecOK, Job, Statuses, IInv, Managed, Remotes
  <2>2. remote' = Append(remote, new)
    BY <1>4
  <2> HIDE DEF new
  <2>3. remote' \in Seq(Native) /\ Len(remote) \in Nat /\ Len(remote') = Len(remote) + 1
    <3> HIDE DEF Native
    <3> QED
      BY <2>1, <2>2
  <2>4. Remotes' /\ Grows
    BY <1>1, <2>3 DEF Remotes, Grows
  <2>5. RecOK(rec, loop.job, Len(remote'), grantee) /\ rec.alloc = loop.rec.alloc
    BY <1>2, <2>3 DEF RecOK, Job
  <2>6. loop' = [loop EXCEPT !.pc = "running", !.rec = rec]
    BY <1>4
  <2> HIDE DEF rec
  <2>7. /\ loop' \in LoopState /\ loop'.pc = "running" /\ loop'.job = loop.job
        /\ loop'.rec = rec /\ loop'.todo = loop.todo
    BY <2>5, <2>6, LoopFacts DEF LoopState, DispatchPcs, RecOK
  <2>8. LoopOK'
    <3>1. LoopShape(loop')
      BY <1>2, <2>7 DEF LoopShape, RestPcs, WaitPcs, WatchPcs, PollPcs
    <3>2. LoopKnows(loop', queue, cancelReq)
      BY <1>1, <1>2, <2>5, <2>7
         DEF IInv, Managed, LoopOK, LoopKnows, RestPcs, PlacePcs, DispatchPcs, WaitPcs,
             WatchPcs, PollPcs
    <3>3. LoopRecs(loop', Len(remote'), grantee)
      BY <2>5, <2>7 DEF LoopRecs, RestPcs, WaitPcs, WatchPcs
    <3> QED
      BY <1>1, <3>1, <3>2, <3>3 DEF LoopOK, apiVars
  <2>9. Records' /\ RequestsOK'
    <3>1. \A r, j : RecOK(r, j, Len(remote), grantee) => RecOK(r, j, Len(remote'), grantee')
      BY <2>4, RecOKGrows DEF IInv, Managed
    <3> QED
      BY <1>1, <3>1 DEF IInv, Managed, Records, RequestsOK, RequestOK, apiVars
  <2>10. Grants' /\ FleetOK' /\ Locked'
    BY <1>1 DEF IInv, Managed, Grants, FleetOK, Locked, At, matcherVars, fleetVars, apiVars
  <2>11. NothingHalfWay' /\ Holdings'
    BY <1>1, <2>7 DEF IInv, Managed, NothingHalfWay, Holdings, Held, matcherVars, apiVars
  <2> QED
    BY <2>4, <2>8, <2>9, <2>10, <2>11 DEF Managed
<1> QED
  BY <1>3, <1>4 DEF DispatchSubmit

-----------------------------------------------------------------------------
(* Allocations come and go *)

LEMMA FreeAllocFacts ==
  ASSUME NEW a, FreeAlloc(a)
  PROVE  /\ DOMAIN live' = DOMAIN live \ {a} /\ nextID' = nextID
         /\ clusters' = clusters /\ \A b \in DOMAIN live' : live'[b] = live[b]
<1>1. CASE a \in DOMAIN live
  BY <1>1 DEF FreeAlloc, Matcher!Free, Matcher!Drop, Matcher!Restrict
<1>2. CASE a \notin DOMAIN live
  BY <1>2 DEF FreeAlloc, matcherVars
<1> QED
  BY <1>1, <1>2

\* The ticker releases an allocation.
LEMMA LoopFrees ==
  ASSUME IInv, NEW a, FreeAlloc(a), UNCHANGED <<fleetVars, storeVars, apiVars, grantee>>,
         LoopShape(loop'), LoopKnows(loop', queue, cancelReq),
         LoopRecs(loop', Len(remote), grantee),
         \A j \in Jobs : HalfWay(queue[j]) => loop'.job = j,
         \A b \in DOMAIN live \ {a} :
           grantee[b] \in cancelReq \/ Held(b, grantee[b], loop', queue)
  PROVE  Managed'
<1>1. /\ UNCHANGED <<queue, remote, requests, mu, fleet, cancelReq, grantee, nextID>>
      /\ DOMAIN live' = DOMAIN live \ {a}
  BY FreeAllocFacts DEF fleetVars, storeVars, apiVars
<1>2. Grants' /\ Records'
  BY <1>1 DEF IInv, Managed, Grants, Records
<1>3. NothingHalfWay'
  BY <1>1 DEF NothingHalfWay, HalfWay
<1>4. Holdings'
  BY <1>1 DEF Holdings
<1>5. LoopOK' /\ RequestsOK'
  BY <1>1 DEF IInv, Managed, LoopOK, RequestsOK
<1> QED
  BY <1>1, <1>2, <1>3, <1>4, <1>5, OthersStay DEF Managed

LEMMA FailFreeStep == ASSUME IInv, FailJobFree PROVE Managed'
<1>1. /\ UNCHANGED <<fleetVars, storeVars, apiVars, grantee>> /\ loop.pc = "free"
      /\ FreeAlloc(loop.rec.alloc) /\ loop' = [loop EXCEPT !.pc = "fail"]
  BY DEF FailJobFree
<1>2. /\ loop.job \in Jobs /\ queue[loop.job] # None /\ loop.job # None
      /\ RecOK(loop.rec, loop.job, Len(remote), grantee)
  BY <1>1, LoopFacts DEF RestPcs
<1>3. /\ loop' \in LoopState /\ loop'.pc = "fail" /\ loop'.job = loop.job
      /\ loop'.rec = loop.rec /\ loop'.todo = loop.todo
  BY <1>1, LoopFacts DEF LoopState, DispatchPcs
<1>4. LoopShape(loop')
  BY <1>2, <1>3 DEF LoopShape, RestPcs, WaitPcs, WatchPcs, PollPcs
<1>5. LoopKnows(loop', queue, cancelReq)
  BY <1>1, <1>2, <1>3
     DEF IInv, Managed, LoopOK, LoopKnows, RestPcs, PlacePcs, DispatchPcs, WaitPcs, WatchPcs, PollPcs
<1>6. LoopRecs(loop', Len(remote), grantee)
  BY <1>2, <1>3 DEF LoopRecs, WaitPcs, WatchPcs
<1>7. \A j \in Jobs : HalfWay(queue[j]) => loop'.job = j
  BY <1>3 DEF IInv, Managed, NothingHalfWay, HalfWay
<1>8. ASSUME NEW b \in DOMAIN live \ {loop.rec.alloc}, grantee[b] \notin cancelReq
      PROVE  Held(b, grantee[b], loop', queue)
  <2>1. grantee[b] # loop.job
    BY <1>1, <1>8, DispatchedHolds DEF DispatchPcs
  <2>2. Held(b, grantee[b], loop, queue)
    BY <1>8 DEF IInv, Managed, Holdings
  <2> QED
    BY <1>3, <2>1, <2>2 DEF Held
<1> QED
  BY <1>1, <1>4, <1>5, <1>6, <1>7, <1>8, LoopFrees

\* The job polled, and the rest of the snapshot.
LEMMA PollFacts ==
  ASSUME IInv, loop.pc \in PollPcs
  PROVE  /\ loop.job \in Jobs /\ loop.job # None /\ queue[loop.job] # None
         /\ loop.job \in loop.todo /\ ~HalfWay(queue[loop.job])
         /\ RecOK(loop.rec, loop.job, Len(remote), grantee)
         /\ \A j \in Jobs : ~HalfWay(queue[j])
         /\ loop.todo \ {loop.job} \in SUBSET Jobs
         /\ \A j \in loop.todo \ {loop.job} :
              /\ queue[j] # None /\ RecOK(loop.snap[j], j, Len(remote), grantee)
              /\ loop.snap[j].state \in {"MATCHED", "DISPATCHING", "RUNNING"}
              /\ j \notin cancelReq => Same(loop.snap[j], queue[j])
<1>1. /\ loop.job \in Jobs /\ loop.job # None /\ queue[loop.job] # None
      /\ RecOK(loop.rec, loop.job, Len(remote), grantee)
  BY LoopFacts DEF RestPcs, PollPcs
<1>2. ~HalfWay(queue[loop.job]) /\ loop.job \in loop.todo
  BY DEF IInv, Managed, LoopOK, LoopKnows, LoopShape
<1>3. \A j \in Jobs : ~HalfWay(queue[j])
  BY <1>2 DEF IInv, Managed, NothingHalfWay, HalfWay
<1>4. \A j \in loop.todo \ {loop.job} :
              /\ queue[j] # None /\ RecOK(loop.snap[j], j, Len(remote), grantee)
              /\ loop.snap[j].state \in {"MATCHED", "DISPATCHING", "RUNNING"}
              /\ j \notin cancelReq => Same(loop.snap[j], queue[j])
  BY WatchFacts DEF PollPcs, WatchPcs
<1> QED
  BY <1>1, <1>2, <1>3, <1>4, LoopFacts

\* What a polled job holds is what its record says.
LEMMA PolledHolds ==
  ASSUME IInv, loop.pc \in PollPcs, loop.job \notin cancelReq,
         NEW a \in DOMAIN live, grantee[a] = loop.job
  PROVE  a = loop.rec.alloc /\ a = queue[loop.job].alloc
<1>1. loop.rec.alloc = queue[loop.job].alloc
  BY DEF PollPcs, IInv, Managed, LoopOK, LoopKnows
<1> QED
  BY <1>1 DEF PollPcs, IInv, Managed, Holdings, Held

LEMMA MonitorReleaseStep == ASSUME IInv, MonitorRelease PROVE Managed'
<1>1. /\ UNCHANGED <<fleetVars, storeVars, apiVars, grantee>> /\ loop.pc = "release"
      /\ FreeAlloc(loop.rec.alloc) /\ loop' = NextActive(loop.todo \ {loop.job}, loop.snap)
  BY DEF MonitorRelease
<1>2. /\ LoopShape(loop') /\ LoopKnows(loop', queue, cancelReq)
      /\ LoopRecs(loop', Len(remote), grantee) /\ loop'.job = None
  BY <1>1, PollFacts, NextActiveOK DEF PollPcs
<1>3. ASSUME NEW b \in DOMAIN live \ {loop.rec.alloc}, grantee[b] \notin cancelReq
      PROVE  Held(b, grantee[b], loop', queue)
  <2>1. grantee[b] # loop.job
    BY <1>1, <1>3, PolledHolds DEF PollPcs
  <2>2. Held(b, grantee[b], loop, queue) /\ grantee[b] # None
    BY <1>3, LoopFacts DEF IInv, Managed, Holdings
  <2> QED
    BY <1>2, <2>1, <2>2 DEF Held
<1> QED
  BY <1>1, <1>2, <1>3, PollFacts, LoopFrees DEF PollPcs

LEMMA MonitorUpdateStep == ASSUME IInv, MonitorUpdate PROVE Managed'
<1> DEFINE j == loop.job
           rec == [loop.rec EXCEPT !.note = None]
<1>1. /\ UNCHANGED <<matcherVars, fleetVars, apiVars, grantee>> /\ loop.pc = "observe"
      /\ \/ Store(j, rec)
         \/ loop.rec.state = loop.snap[j].state /\ UNCHANGED storeVars
      /\ loop' = IF Terminal(loop.rec.state) THEN [loop EXCEPT !.pc = "release"]
                 ELSE NextActive(loop.todo \ {j}, loop.snap)
  BY DEF MonitorUpdate
<1>2. /\ j \in Jobs /\ j # None /\ queue[j] # None /\ j \in loop.todo
      /\ RecOK(loop.rec, j, Len(remote), grantee)
      /\ loop.rec.state \in Statuses
      /\ loop.snap[j].state \in {"MATCHED", "DISPATCHING", "RUNNING"}
  BY <1>1, PollFacts, WatchFacts
     DEF PollPcs, WatchPcs, IInv, Managed, LoopOK, LoopKnows
<1>3. /\ RecOK(rec, j, Len(remote), grantee) /\ rec \in Job /\ rec.state = loop.rec.state
      /\ rec.alloc = loop.rec.alloc
  BY <1>2 DEF RecOK, Job
<1> HIDE DEF rec
<1>4. CASE UNCHANGED storeVars /\ loop.rec.state = loop.snap[j].state
  <2>1. ~Terminal(loop.rec.state)
    BY <1>2, <1>4 DEF Statuses, Terminal
  <2>2. loop' = NextActive(loop.todo \ {j}, loop.snap)
    BY <1>1, <2>1
  <2>3. /\ LoopShape(loop') /\ LoopKnows(loop', queue, cancelReq)
        /\ LoopRecs(loop', Len(remote), grantee) /\ loop'.pc \in {"idle", "status"}
    BY <1>1, <2>2, PollFacts, NextActiveOK DEF PollPcs
  <2> QED
    BY <1>1, <1>4, <2>3, PollFacts, LoopMoves DEF PollPcs
<1>5. CASE Store(j, rec)
  <2>1. queue' = [queue EXCEPT ![j] = rec] /\ UNCHANGED remote
    BY <1>5 DEF Store
  <2>2. /\ queue'[j] = rec /\ \A i \in Jobs \ {j} : queue'[i] = queue[i]
        /\ ~HalfWay(rec) /\ rec # None
    BY <1>2, <1>3, <2>1, NoneAssumption DEF IInv, Managed, Records, HalfWay, Statuses
  <2>3. \A a \in DOMAIN live : grantee[a] = j /\ j \notin cancelReq => a = rec.alloc
    BY <1>1, <1>3, PolledHolds DEF PollPcs
  <2>4. rec.state # "SUBMITTED"
    BY <1>2, <1>3 DEF Statuses
  <2>5. CASE Terminal(loop.rec.state)
    <3>1. loop' = [loop EXCEPT !.pc = "release"]
      BY <1>1, <2>5
    <3>2. /\ loop' \in LoopState /\ loop'.pc = "release" /\ loop'.job = j
          /\ loop'.rec = loop.rec /\ loop'.todo = loop.todo /\ loop'.snap = loop.snap
      BY <3>1, LoopFacts DEF LoopState, PollPcs
    <3>3. LoopShape(loop')
      BY <1>1, <1>2, <3>2
         DEF IInv, Managed, LoopOK, LoopShape, RestPcs, WaitPcs, WatchPcs, PollPcs
    <3>4. \A i \in loop.todo \ {j} :
            /\ queue'[i] # None /\ loop.snap[i].state \in {"MATCHED", "DISPATCHING", "RUNNING"}
            /\ i \notin cancelReq => Same(loop.snap[i], queue'[i])
      BY <1>1, <2>2, PollFacts DEF PollPcs
    <3>5. LoopKnows(loop', queue', cancelReq)
      BY <1>2, <1>3, <2>2, <2>5, <3>2, <3>4
         DEF LoopKnows, RestPcs, PlacePcs, DispatchPcs, PollPcs, WaitPcs, WatchPcs
    <3>6. LoopRecs(loop', Len(remote), grantee)
      BY <1>1, <1>2, <3>2
         DEF IInv, Managed, LoopOK, LoopRecs, RestPcs, WaitPcs, WatchPcs
    <3>7. \A a \in DOMAIN live : grantee[a] = j /\ j \notin cancelReq => Held(a, j, loop', queue')
      BY <2>2, <2>3, <3>2 DEF Held
    <3> HIDE DEF j
    <3> QED
      BY <1>1, <1>2, <1>3, <2>1, <2>2, <2>4, <3>2, <3>3, <3>5, <3>6, <3>7, LoopWrites DEF j
  <2>6. CASE ~Terminal(loop.rec.state)
    <3>1. loop' = NextActive(loop.todo \ {j}, loop.snap) /\ loop.todo \ {j} \in SUBSET Jobs
      BY <1>1, <2>6, PollFacts DEF PollPcs
    <3>2. \A i \in loop.todo \ {j} :
            /\ queue'[i] # None /\ RecOK(loop.snap[i], i, Len(remote), grantee)
            /\ loop.snap[i].state \in {"MATCHED", "DISPATCHING", "RUNNING"}
            /\ i \notin cancelReq => Same(loop.snap[i], queue'[i])
      BY <1>1, <2>2, PollFacts DEF PollPcs
    <3>3. /\ LoopShape(loop') /\ LoopKnows(loop', queue', cancelReq)
          /\ LoopRecs(loop', Len(remote), grantee) /\ loop'.job = None
      BY <3>1, <3>2, NextActiveOK
    <3>4. \A a \in DOMAIN live : grantee[a] = j /\ j \notin cancelReq => Held(a, j, loop', queue')
      BY <1>2, <1>3, <2>2, <2>3, <2>6, <3>3 DEF Held
    <3> HIDE DEF j
    <3> QED
      BY <1>1, <1>2, <1>3, <2>1, <2>2, <2>4, <3>3, <3>4, LoopWrites DEF j
  <2> QED
    BY <2>5, <2>6
<1> QED
  BY <1>1, <1>4, <1>5

LEMMA AllocateStep == ASSUME IInv, NEW c \in Clusters, AllocateOn(c) PROVE Managed'
<1> DEFINE id == nextID + 1
           j == loop.job
<1>1. /\ UNCHANGED <<fleetVars, storeVars, apiVars>> /\ loop.pc = "place"
      /\ nextID < MaxAllocs /\ nextID' = id /\ clusters' = clusters
      /\ loop' = [loop EXCEPT !.pc = "update", !.alloc = id, !.left = {c}]
      /\ grantee' = Put(grantee, id, j)
  BY DEF AllocateOn, Matcher!Allocate, Matcher!AllocateSatisfyOnly
<1>2. DOMAIN live' \subseteq DOMAIN live \cup {id}
  BY DEF AllocateOn, Matcher!Allocate, Matcher!AllocateSatisfyOnly, Matcher!Put
<1>3. nextID \in Nat /\ MaxAllocs \in Nat /\ DOMAIN grantee = 1..nextID
  BY InlineAssumption DEF IInv, Managed, Grants
<1>4. id \in 1..MaxAllocs /\ id \in 0..MaxAllocs /\ 1..id = (1..nextID) \cup {id} /\ id \notin 1..nextID
  BY <1>1, <1>3
<1> HIDE DEF id
<1>5. /\ j \in Jobs /\ j # None /\ queue[j] # None /\ RecOK(loop.rec, j, Len(remote), grantee)
      /\ ~HalfWay(queue[j])
  BY <1>1, LoopFacts DEF RestPcs, PlacePcs, IInv, Managed, LoopOK, LoopKnows
<1>6. /\ UNCHANGED <<queue, remote, requests, mu, fleet, cancelReq>>
  BY <1>1 DEF fleetVars, storeVars, apiVars
<1>7. /\ DOMAIN grantee' = 1..id /\ grantee'[id] = j
      /\ \A a \in DOMAIN grantee : grantee'[a] = grantee[a]
  BY <1>1, <1>3, <1>4 DEF Put
<1>8. Grows /\ Remotes'
  BY <1>3, <1>4, <1>6, <1>7, LoopFacts DEF Grows, IInv, Managed, Remotes
<1>9. \A r, i : RecOK(r, i, Len(remote), grantee) => RecOK(r, i, Len(remote'), grantee')
  BY <1>8, RecOKGrows DEF IInv, Managed
<1>10. Grants'
  <2>1. \A a \in DOMAIN grantee : grantee[a] \in Jobs /\ queue[grantee[a]] # None
    BY DEF IInv, Managed, Grants
  <2>2. \A a \in DOMAIN grantee' : grantee'[a] \in Jobs /\ queue[grantee'[a]] # None
    BY <1>3, <1>4, <1>5, <1>7, <2>1
  <2>3. DOMAIN live' \subseteq DOMAIN grantee'
    BY <1>2, <1>3, <1>4, <1>7 DEF IInv, Managed, Grants
  <2> QED
    BY <1>1, <1>4, <1>6, <1>7, <2>2, <2>3 DEF Grants
<1>11. Records' /\ RequestsOK'
  BY <1>6, <1>9 DEF IInv, Managed, Records, RequestsOK, RequestOK
<1>12. /\ loop' \in LoopState /\ loop'.pc = "update" /\ loop'.job = j /\ loop'.alloc = id
       /\ loop'.rec = loop.rec /\ loop'.todo = loop.todo
  BY <1>1, <1>4, LoopFacts DEF LoopState, PlacePcs
<1>13. LoopOK'
  <2>1. LoopShape(loop')
    BY <1>5, <1>12 DEF LoopShape, RestPcs, WaitPcs, WatchPcs, PollPcs
  <2>2. LoopKnows(loop', queue, cancelReq)
    BY <1>1, <1>5, <1>12
       DEF IInv, Managed, LoopOK, LoopKnows, RestPcs, PlacePcs, DispatchPcs, WaitPcs, WatchPcs,
           PollPcs
  <2>3. LoopRecs(loop', Len(remote'), grantee')
    BY <1>4, <1>5, <1>7, <1>9, <1>12 DEF LoopRecs, WaitPcs, WatchPcs
  <2> QED
    BY <1>6, <2>1, <2>2, <2>3 DEF LoopOK
<1>14. NothingHalfWay'
  BY <1>6, <1>12 DEF IInv, Managed, NothingHalfWay
<1>15. Holdings'
  <2> SUFFICES ASSUME NEW a \in DOMAIN live', grantee'[a] \notin cancelReq
               PROVE  Held(a, grantee'[a], loop', queue)
    BY <1>6 DEF Holdings
  <2>1. CASE a = id
    BY <1>7, <1>12, <2>1 DEF Held
  <2>2. CASE a # id
    <3>1. a \in DOMAIN live /\ a \in DOMAIN grantee /\ grantee'[a] = grantee[a]
      BY <1>2, <1>7, <2>2 DEF IInv, Managed, Grants
    <3>2. Held(a, grantee[a], loop, queue)
      BY <3>1 DEF IInv, Managed, Holdings
    <3> QED
      BY <1>1, <1>12, <3>1, <3>2 DEF Held
  <2> QED
    BY <2>1, <2>2
<1> QED
  BY <1>6, <1>8, <1>10, <1>11, <1>13, <1>14, <1>15, OthersStay DEF Managed

-----------------------------------------------------------------------------
(* Clients *)

\* A submission, of a job nobody knows of.
LEMMA SubmitJobStep == ASSUME IInv, NEW j \in Jobs, Submit(j) PROVE Managed'
<1>1. /\ queue[j] = None /\ queue' = [queue EXCEPT ![j] = NewJob]
      /\ UNCHANGED <<matcherVars, fleetVars, remote, loop, apiVars, grantee>>
  BY DEF Submit
<1>2. UNCHANGED <<remote, requests, mu, fleet, cancelReq, grantee, nextID, live, loop>>
  BY <1>1 DEF matcherVars, fleetVars, apiVars
<1>3. /\ queue \in [Jobs -> Job \cup {None}] /\ queue'[j] = NewJob
      /\ \A i \in Jobs \ {j} : queue'[i] = queue[i]
      /\ NewJob \in Job /\ NewJob # None
  BY <1>1, NewJobIsJob, NoneAssumption DEF IInv, Managed, Records
<1>4. RecOK(NewJob, j, Len(remote), grantee) /\ NewJob.alloc = 0 /\ NewJob.state = "SUBMITTED"
  BY <1>3, LoopFacts DEF NewJob, RecOK
<1>5. Grants'
  BY <1>1, <1>2, <1>3 DEF IInv, Managed, Grants
<1>6. Records'
  BY <1>1, <1>2, <1>3, <1>4 DEF IInv, Managed, Records
<1>7. RequestsOK'
  BY <1>1, <1>2, <1>3 DEF IInv, Managed, RequestsOK, RequestOK, RequestShape
<1>8. NothingHalfWay'
  BY <1>2, <1>3, <1>4 DEF IInv, Managed, NothingHalfWay
<1>9. Holdings'
  BY <1>1, <1>2, <1>3 DEF IInv, Managed, Grants, Holdings, Held
<1>10. LoopOK'
  <2>1. j \notin loop.todo /\ (loop.pc \notin RestPcs => loop.job # j)
    BY <1>1, LoopFacts
  <2>2. \A i \in loop.todo : queue'[i] = queue[i]
    BY <1>3, <2>1, LoopFacts
  <2>3. loop.pc \notin RestPcs => queue'[loop.job] = queue[loop.job]
    BY <1>3, <2>1, LoopFacts
  <2>4. LoopKnows(loop, queue', cancelReq)
    BY <2>2, <2>3
       DEF IInv, Managed, LoopOK, LoopKnows, LoopShape, RestPcs, PlacePcs, DispatchPcs, PollPcs
  <2> QED
    BY <1>2, <2>4 DEF IInv, Managed, LoopOK
<1> QED
  BY <1>2, <1>5, <1>6, <1>7, <1>8, <1>9, <1>10, OthersStay DEF Managed

\* A request that changes the fleet takes a step, arrives or is done.
LEMMA EditMoves ==
  ASSUME IInv, NEW r \in Requests, NEW new, requests' = [requests EXCEPT ![r] = new],
         UNCHANGED <<storeVars, loop, mu, cancelReq, grantee, nextID>>,
         DOMAIN live' \subseteq DOMAIN live, FleetOK', ~At(r, "commit"),
         new = None \/ (RequestShape(new) /\ new.pc \in FleetPcs)
  PROVE  Managed'
<1>1. UNCHANGED <<queue, remote, loop, mu, cancelReq, grantee, nextID>>
  BY DEF storeVars
<1>2. /\ requests \in [Requests -> ApiRequest \cup {None}] /\ requests'[r] = new
      /\ \A s \in Requests \ {r} : requests'[s] = requests[s]
  BY DEF IInv, Managed, RequestsOK
<1>3. new = None \/ (new \in ApiRequest /\ new.pc \notin CancelPcs)
  BY DEF RequestShape, FleetPcs, CancelPcs
<1>4. RequestsOK'
  <2>1. requests' \in [Requests -> ApiRequest \cup {None}]
    BY <1>2, <1>3 DEF IInv, Managed, RequestsOK
  <2>2. ASSUME NEW s \in Requests
        PROVE  RequestOK(requests'[s], queue, cancelReq, Len(remote), grantee)
    <3>1. CASE s = r
      BY <1>2, <1>3, <3>1 DEF RequestOK
    <3>2. CASE s # r
      BY <1>2, <3>2 DEF IInv, Managed, RequestsOK
    <3> QED
      BY <3>1, <3>2
  <2> QED
    BY <1>1, <2>1, <2>2 DEF RequestsOK
<1>5. Locked'
  <2> SUFFICES ASSUME NEW s \in Requests
               PROVE  (mu = s) = (requests'[s] # None /\ requests'[s].pc = "commit")
    BY <1>1 DEF Locked, At
  <2>1. (mu = s) = At(s, "commit")
    BY DEF IInv, Managed, Locked
  <2>2. CASE s = r
    <3>1. ~(requests'[r] # None /\ requests'[r].pc = "commit")
      BY <1>2, <1>3 DEF CancelPcs
    <3> QED
      BY <2>1, <2>2, <3>1
  <2>3. CASE s # r
    BY <1>2, <2>1, <2>3 DEF At
  <2> QED
    BY <2>2, <2>3
<1>6. Grants' /\ Records' /\ Remotes'
  BY <1>1 DEF IInv, Managed, Grants, Records, Remotes
<1>7. LoopOK' /\ NothingHalfWay' /\ Holdings'
  BY <1>1 DEF IInv, Managed, LoopOK, NothingHalfWay, Holdings, Held
<1> QED
  BY <1>4, <1>5, <1>6, <1>7 DEF Managed

\* A request with another program counter, configuration or record is one.
LEMMA PcEdit ==
  ASSUME NEW request \in ApiRequest, NEW pc \in FleetPcs \cup CancelPcs,
         NEW new, new = [request EXCEPT !.pc = pc]
  PROVE  /\ new \in ApiRequest /\ new.pc = pc /\ new.cluster = request.cluster
         /\ new.name = request.name /\ new.graph = request.graph /\ new.job = request.job
         /\ new.config = request.config /\ new.rec = request.rec
<1>1. ASSUME NEW G, request \in RequestWith(G)
      PROVE  /\ new \in RequestWith(G) /\ new.pc = pc /\ new.cluster = request.cluster
             /\ new.name = request.name /\ new.graph = request.graph /\ new.job = request.job
             /\ new.config = request.config /\ new.rec = request.rec
  <2>1. pc \in {"addFleet", "addMatcher", "issue", "getFleet", "attach", "addBack", "detach",
                "getBack", "removeMatcher", "removeFleet", "forget", "cancelRemote", "lock",
                "commit"}
    BY DEF FleetPcs, CancelPcs
  <2> QED
    BY <1>1, <2>1 DEF RequestWith
<1>2. CASE request \in RequestWith(Containments)
  BY <1>1, <1>2 DEF ApiRequest
<1>3. CASE request \in RequestWith(AuxGraphs)
  BY <1>1, <1>3 DEF ApiRequest
<1> QED
  BY <1>2, <1>3 DEF ApiRequest

LEMMA ConfigEdit ==
  ASSUME NEW request \in ApiRequest, NEW config \in Configs,
         NEW new, new = [request EXCEPT !.config = config]
  PROVE  /\ new \in ApiRequest /\ new.pc = request.pc /\ new.cluster = request.cluster
         /\ new.name = request.name /\ new.graph = request.graph /\ new.config = config
<1>1. ASSUME NEW G, request \in RequestWith(G)
      PROVE  /\ new \in RequestWith(G) /\ new.pc = request.pc /\ new.cluster = request.cluster
             /\ new.name = request.name /\ new.graph = request.graph /\ new.config = config
  BY <1>1 DEF RequestWith
<1>2. CASE request \in RequestWith(Containments)
  BY <1>1, <1>2 DEF ApiRequest
<1>3. CASE request \in RequestWith(AuxGraphs)
  BY <1>1, <1>3 DEF ApiRequest
<1> QED
  BY <1>2, <1>3 DEF ApiRequest

LEMMA RecEdit ==
  ASSUME NEW request \in ApiRequest, NEW rec \in Job,
         NEW new, new = [request EXCEPT !.rec = rec]
  PROVE  /\ new \in ApiRequest /\ new.pc = request.pc /\ new.job = request.job /\ new.rec = rec
<1>1. ASSUME NEW G, request \in RequestWith(G)
      PROVE  /\ new \in RequestWith(G) /\ new.pc = request.pc /\ new.job = request.job
             /\ new.rec = rec
  BY <1>1 DEF RequestWith
<1>2. CASE request \in RequestWith(Containments)
  BY <1>1, <1>2 DEF ApiRequest
<1>3. CASE request \in RequestWith(AuxGraphs)
  BY <1>1, <1>3 DEF ApiRequest
<1> QED
  BY <1>2, <1>3 DEF ApiRequest

\* Goto and Done, as values of the request.
LEMMA GotoValue ==
  ASSUME IInv, NEW r \in Requests, NEW pc \in FleetPcs \cup CancelPcs, requests[r] # None,
         Goto(r, pc)
  PROVE  /\ requests' = [requests EXCEPT ![r] = [requests[r] EXCEPT !.pc = pc]]
         /\ [requests[r] EXCEPT !.pc = pc] \in ApiRequest
BY RequestFacts, PcEdit DEF Goto, IInv, Managed, RequestsOK

\* The fleet after an entry is written or dropped.
LEMMA FleetEdits ==
  ASSUME IInv, NEW c \in Clusters,
         (\E config \in Configs : fleet' = Put(fleet, c, config)) \/ fleet' = Drop(fleet, {c})
  PROVE  FleetOK'
BY DEF IInv, Managed, FleetOK, Put, Drop

LEMMA FleetStays == ASSUME IInv, UNCHANGED fleet PROVE FleetOK'
BY DEF IInv, Managed, FleetOK

LEMMA AddFleetStep == ASSUME IInv, NEW r \in Requests, AddFleet(r) PROVE Managed'
<1> DEFINE old == requests[r]
           new == [old EXCEPT !.pc = "addMatcher"]
<1>1. /\ old # None /\ old.pc = "addFleet" /\ ~At(r, "commit")
      /\ fleet' = Put(fleet, old.cluster, old.config) /\ Goto(r, "addMatcher")
      /\ UNCHANGED <<matcherVars, storeVars, loop, mu, cancelReq, grantee>>
  BY DEF AddFleet, At
<1>2. old \in ApiRequest /\ RequestShape(old)
  BY <1>1, RequestFacts
<1>3. requests' = [requests EXCEPT ![r] = new]
  BY <1>1, GotoValue DEF FleetPcs
<1>4. RequestShape(new) /\ new.pc \in FleetPcs
  BY <1>1, <1>2, PcEdit DEF RequestShape, FleetPcs, CancelPcs
<1>5. FleetOK'
  BY <1>1, <1>2, FleetEdits DEF RequestShape, FleetPcs
<1> QED
  BY <1>1, <1>3, <1>4, <1>5, EditMoves DEF matcherVars

LEMMA AddMatcherStep == ASSUME IInv, NEW r \in Requests, AddMatcher(r) PROVE Managed'
<1> DEFINE old == requests[r]
           new == [old EXCEPT !.pc = "issue"]
<1>1. /\ old # None /\ old.pc = "addMatcher" /\ ~At(r, "commit")
      /\ Goto(r, "issue") /\ UNCHANGED <<nextID, live>>
      /\ UNCHANGED <<fleetVars, storeVars, loop, mu, cancelReq, grantee>>
  BY DEF AddMatcher, At, Matcher!AddCluster
<1>2. old \in ApiRequest /\ RequestShape(old)
  BY <1>1, RequestFacts
<1>3. requests' = [requests EXCEPT ![r] = new]
  BY <1>1, GotoValue DEF FleetPcs
<1>4. RequestShape(new) /\ new.pc \in FleetPcs
  BY <1>1, <1>2, PcEdit DEF RequestShape, FleetPcs, CancelPcs
<1>5. FleetOK'
  BY <1>1, FleetStays DEF fleetVars
<1> QED
  BY <1>1, <1>3, <1>4, <1>5, EditMoves

LEMMA IssueStep == ASSUME IInv, NEW r \in Requests, IssueSecret(r) PROVE Managed'
<1> DEFINE old == requests[r]
           new == [old EXCEPT !.pc = "getFleet"]
<1>1. /\ old # None /\ old.pc = "issue" /\ ~At(r, "commit")
      /\ IF old.graph = None THEN Done(r) ELSE Goto(r, "getFleet")
      /\ UNCHANGED <<matcherVars, fleet, storeVars, loop, mu, cancelReq, grantee>>
  BY DEF IssueSecret, At
<1>2. old \in ApiRequest /\ RequestShape(old) /\ FleetOK'
  BY <1>1, RequestFacts, FleetStays
<1>3. CASE old.graph = None
  <2>1. requests' = [requests EXCEPT ![r] = None]
    BY <1>1, <1>3 DEF Done
  <2> QED
    BY <1>1, <1>2, <2>1, EditMoves DEF matcherVars
<1>4. CASE old.graph # None
  <2>1. requests' = [requests EXCEPT ![r] = new]
    BY <1>1, <1>4, GotoValue DEF FleetPcs
  <2>2. RequestShape(new) /\ new.pc \in FleetPcs
    BY <1>1, <1>2, <1>4, PcEdit DEF RequestShape, FleetPcs, CancelPcs
  <2> QED
    BY <1>1, <1>2, <2>1, <2>2, EditMoves DEF matcherVars
<1> QED
  BY <1>3, <1>4

\* A request that read the fleet's entry for its cluster, or finds none.
LEMMA FleetReadStep ==
  ASSUME IInv, NEW r \in Requests, GetFleet(r) \/ GetBack(r)
  PROVE  Managed'
<1> DEFINE old == requests[r]
<1>1. PICK pc \in {"attach", "addBack"} :
        /\ old # None /\ old.pc \in {"getFleet", "getBack"} /\ ~At(r, "commit")
        /\ pc = "attach" => old.pc = "getFleet"
        /\ requests' = [requests EXCEPT ![r] =
             IF old.cluster \in DOMAIN fleet
               THEN [old EXCEPT !.pc = pc, !.config = fleet[old.cluster]]
               ELSE None]
        /\ UNCHANGED <<matcherVars, fleetVars, storeVars, loop, mu, cancelReq, grantee>>
  BY DEF GetFleet, GetBack, At
<1>2. old \in ApiRequest /\ RequestShape(old) /\ FleetOK'
  BY <1>1, RequestFacts, FleetStays DEF fleetVars
<1>3. CASE old.cluster \notin DOMAIN fleet
  <2>1. requests' = [requests EXCEPT ![r] = None]
    BY <1>1, <1>3
  <2> QED
    BY <1>1, <1>2, <2>1, EditMoves DEF matcherVars
<1>4. CASE old.cluster \in DOMAIN fleet
  <2> DEFINE config == fleet[old.cluster]
             moved == [old EXCEPT !.pc = pc]
             new == [moved EXCEPT !.config = config]
  <2>1. config \in Configs /\ pc \in FleetPcs \cup CancelPcs
    BY <1>4 DEF IInv, Managed, FleetOK, FleetPcs
  <2>2. [old EXCEPT !.pc = pc, !.config = config] = new
    OBVIOUS
  <2>3. /\ moved \in ApiRequest /\ moved.pc = pc /\ moved.cluster = old.cluster
        /\ moved.name = old.name /\ moved.graph = old.graph
    BY <1>2, <2>1, PcEdit
  <2>4. requests' = [requests EXCEPT ![r] = new]
    BY <1>1, <1>4, <2>2
  <2> HIDE DEF moved, config
  <2>5. /\ new \in ApiRequest /\ new.pc = pc /\ new.cluster = old.cluster /\ new.config = config
        /\ new.name = old.name /\ new.graph = old.graph
    BY <2>1, <2>3, ConfigEdit
  <2> HIDE DEF new
  <2>6. RequestShape(new) /\ new.pc \in FleetPcs
    BY <1>1, <1>2, <2>1, <2>5 DEF RequestShape, FleetPcs, CancelPcs
  <2> QED
    BY <1>1, <1>2, <2>4, <2>6, EditMoves DEF matcherVars
<1> QED
  BY <1>3, <1>4

LEMMA AttachStep ==
  ASSUME IInv, NEW r \in Requests, AttachMatcher(r) \/ DetachMatcher(r)
  PROVE  Managed'
<1> DEFINE old == requests[r]
<1>1. PICK pc \in {"addBack", "getBack"} :
        /\ old # None /\ old.pc \in {"attach", "detach"} /\ ~At(r, "commit")
        /\ pc = "addBack" => old.pc = "attach"
        /\ Goto(r, pc) \/ Done(r)
        /\ UNCHANGED <<live, nextID>>
        /\ UNCHANGED <<fleetVars, storeVars, loop, mu, cancelReq, grantee>>
  BY DEF AttachMatcher, DetachMatcher, At, Matcher!AddSubsystem, Matcher!RemoveSubsystem,
         matcherVars
<1> DEFINE new == [old EXCEPT !.pc = pc]
<1>2. old \in ApiRequest /\ RequestShape(old) /\ FleetOK'
  BY <1>1, RequestFacts, FleetStays DEF fleetVars
<1>3. CASE Done(r)
  <2>1. requests' = [requests EXCEPT ![r] = None]
    BY <1>3 DEF Done
  <2> QED
    BY <1>1, <1>2, <2>1, EditMoves
<1>4. CASE Goto(r, pc)
  <2>1. requests' = [requests EXCEPT ![r] = new]
    BY <1>1, <1>4, GotoValue DEF FleetPcs
  <2>2. RequestShape(new) /\ new.pc \in FleetPcs
    BY <1>1, <1>2, PcEdit DEF RequestShape, FleetPcs, CancelPcs
  <2> QED
    BY <1>1, <1>2, <2>1, <2>2, EditMoves
<1> QED
  BY <1>1, <1>3, <1>4

LEMMA AddBackStep == ASSUME IInv, NEW r \in Requests, AddBack(r) PROVE Managed'
<1>1. /\ requests[r] # None /\ requests[r].pc = "addBack" /\ ~At(r, "commit")
      /\ fleet' = Put(fleet, requests[r].cluster, requests[r].config)
      /\ requests' = [requests EXCEPT ![r] = None]
      /\ UNCHANGED <<matcherVars, storeVars, loop, mu, cancelReq, grantee>>
  BY DEF AddBack, At, Done
<1>2. FleetOK'
  BY <1>1, RequestFacts, FleetEdits DEF RequestShape, FleetPcs
<1> QED
  BY <1>1, <1>2, EditMoves DEF matcherVars

LEMMA RemoveMatcherStep == ASSUME IInv, NEW r \in Requests, RemoveMatcher(r) PROVE Managed'
<1> DEFINE old == requests[r]
           new == [old EXCEPT !.pc = "removeFleet"]
<1>1. /\ old # None /\ old.pc = "removeMatcher" /\ ~At(r, "commit") /\ Goto(r, "removeFleet")
      /\ DOMAIN live' \subseteq DOMAIN live /\ nextID' = nextID
      /\ UNCHANGED <<fleetVars, storeVars, loop, mu, cancelReq, grantee>>
  BY DEF RemoveMatcher, At, Matcher!RemoveCluster, Matcher!Drop, Matcher!Restrict
<1>2. old \in ApiRequest /\ RequestShape(old) /\ FleetOK'
  BY <1>1, RequestFacts, FleetStays DEF fleetVars
<1>3. requests' = [requests EXCEPT ![r] = new]
  BY <1>1, GotoValue DEF FleetPcs
<1>4. RequestShape(new) /\ new.pc \in FleetPcs
  BY <1>1, <1>2, PcEdit DEF RequestShape, FleetPcs, CancelPcs
<1> QED
  BY <1>1, <1>2, <1>3, <1>4, EditMoves

LEMMA RemoveFleetStep == ASSUME IInv, NEW r \in Requests, RemoveFleet(r) PROVE Managed'
<1> DEFINE old == requests[r]
           new == [old EXCEPT !.pc = "forget"]
<1>1. /\ old # None /\ old.pc = "removeFleet" /\ ~At(r, "commit")
      /\ fleet' = Drop(fleet, {old.cluster})
      /\ Goto(r, "forget") \/ Done(r)
      /\ UNCHANGED <<matcherVars, storeVars, loop, mu, cancelReq, grantee>>
  BY DEF RemoveFleet, At
<1>2. old \in ApiRequest /\ RequestShape(old)
  BY <1>1, RequestFacts
<1>3. FleetOK'
  BY <1>1, <1>2, FleetEdits DEF RequestShape, FleetPcs
<1>4. CASE Done(r)
  <2>1. requests' = [requests EXCEPT ![r] = None]
    BY <1>4 DEF Done
  <2> QED
    BY <1>1, <1>3, <2>1, EditMoves DEF matcherVars
<1>5. CASE Goto(r, "forget")
  <2>1. requests' = [requests EXCEPT ![r] = new]
    BY <1>1, <1>5, GotoValue DEF FleetPcs
  <2>2. RequestShape(new) /\ new.pc \in FleetPcs
    BY <1>1, <1>2, PcEdit DEF RequestShape, FleetPcs, CancelPcs
  <2> QED
    BY <1>1, <1>3, <2>1, <2>2, EditMoves DEF matcherVars
<1> QED
  BY <1>1, <1>4, <1>5

LEMMA ForgetStep == ASSUME IInv, NEW r \in Requests, ForgetSecret(r) PROVE Managed'
<1>1. /\ ~At(r, "commit") /\ requests' = [requests EXCEPT ![r] = None]
      /\ UNCHANGED <<matcherVars, fleet, storeVars, loop, mu, cancelReq, grantee>>
  BY DEF ForgetSecret, At, Done
<1>2. FleetOK'
  BY <1>1, FleetStays
<1> QED
  BY <1>1, <1>2, EditMoves DEF matcherVars

\* A request that changes the fleet arrives with what its steps need.
LEMMA ArriveStep ==
  ASSUME IInv, NEW request, ArriveEdit(request), RequestShape(request), request.pc \in FleetPcs
  PROVE  Managed'
<1>1. PICK r \in Requests : requests[r] = None /\ requests' = [requests EXCEPT ![r] = request]
  BY DEF ArriveEdit, Arrive
<1>2. UNCHANGED <<matcherVars, fleetVars, storeVars, loop, mu, cancelReq, grantee>>
  BY DEF ArriveEdit
<1>3. ~At(r, "commit") /\ FleetOK'
  BY <1>1, <1>2, FleetStays DEF At, fleetVars
<1> QED
  BY <1>1, <1>2, <1>3, EditMoves DEF matcherVars

\* The requests that change the fleet, as they arrive.
LEMMA NewRequestShape ==
  ASSUME NEW G, G = Containments \/ G = AuxGraphs, NEW pc \in FleetPcs, NEW c \in Clusters,
         NEW name \in Names \cup {Matcher!ContainmentSubsystem, None}, NEW graph \in G \cup {None},
         NEW config \in Configs \cup {None},
         NEW request,
         request = [pc |-> pc, cluster |-> c, name |-> name, graph |-> graph, config |-> config,
                    job |-> None, rec |-> NewJob]
  PROVE  /\ request \in ApiRequest /\ request.pc = pc /\ request.cluster = c
         /\ request.name = name /\ request.graph = graph /\ request.config = config
<1>1. request \in RequestWith(G)
  BY NewJobIsJob DEF RequestWith, FleetPcs
<1> QED
  BY <1>1 DEF ApiRequest

LEMMA AttachValue ==
  ASSUME NEW c, NEW name, NEW graph, NEW new,
         new = [NewRequest EXCEPT !.pc = "getFleet", !.cluster = c, !.name = name, !.graph = graph]
  PROVE  new = [pc |-> "getFleet", cluster |-> c, name |-> name, graph |-> graph,
                config |-> None, job |-> None, rec |-> NewJob]
BY DEF NewRequest

LEMMA DetachValue ==
  ASSUME NEW c, NEW name, NEW new,
         new = [NewRequest EXCEPT !.pc = "detach", !.cluster = c, !.name = name]
  PROVE  new = [pc |-> "detach", cluster |-> c, name |-> name, graph |-> None,
                config |-> None, job |-> None, rec |-> NewJob]
BY DEF NewRequest

LEMMA UnregisterValue ==
  ASSUME NEW c, NEW new,
         new = [NewRequest EXCEPT !.pc = "removeMatcher", !.cluster = c]
  PROVE  new = [pc |-> "removeMatcher", cluster |-> c, name |-> None, graph |-> None,
                config |-> None, job |-> None, rec |-> NewJob]
BY DEF NewRequest

LEMMA CancelValue ==
  ASSUME NEW pc, NEW job, NEW rec, NEW new,
         new = [NewRequest EXCEPT !.job = job, !.rec = rec, !.pc = pc]
  PROVE  new = [pc |-> pc, cluster |-> None, name |-> None, graph |-> None,
                config |-> None, job |-> job, rec |-> rec]
BY DEF NewRequest

LEMMA RegisterStep ==
  ASSUME IInv, NEW c \in Clusters, NEW config \in Configs, NEW graph \in Offered \cup {None},
         BeginRegister(c, config, graph)
  PROVE  Managed'
<1>0. PICK name : name = Matcher!ContainmentSubsystem
  OBVIOUS
<1>1. PICK new : /\ new = [NewRequest EXCEPT !.pc = "addFleet", !.cluster = c, !.config = config,
                                             !.name = name, !.graph = graph]
                 /\ ArriveEdit(new)
  BY <1>0 DEF BeginRegister
<1>2. new = [pc |-> "addFleet", cluster |-> c, name |-> name, graph |-> graph,
             config |-> config, job |-> None, rec |-> NewJob]
  BY ONLY <1>1 DEF NewRequest
<1>3. "addFleet" \in FleetPcs /\ graph \in Containments \cup {None}
  BY InlineAssumption DEF FleetPcs
<1>4. /\ new \in ApiRequest /\ new.pc = "addFleet" /\ new.cluster = c
      /\ new.name = name /\ new.graph = graph /\ new.config = config
  BY <1>0, <1>2, <1>3, NewRequestShape
<1>5. RequestShape(new) /\ new.pc \in FleetPcs
  BY <1>0, <1>3, <1>4 DEF RequestShape, FleetPcs, CancelPcs
<1> QED
  BY <1>1, <1>5, ArriveStep

LEMMA BeginAttachStep ==
  ASSUME IInv, NEW c \in Clusters, NEW name, NEW graph, BeginAttach(c, name, graph),
         \/ name = Matcher!ContainmentSubsystem /\ graph \in Containments
         \/ name \in Names /\ graph \in AuxGraphs
  PROVE  Managed'
<1>1. PICK new : /\ new = [NewRequest EXCEPT !.pc = "getFleet", !.cluster = c, !.name = name,
                       !.graph = graph]
                 /\ ArriveEdit(new)
  BY DEF BeginAttach
<1>2. new = [pc |-> "getFleet", cluster |-> c, name |-> name, graph |-> graph,
                config |-> None, job |-> None, rec |-> NewJob]
  BY <1>1, AttachValue
<1>3. "getFleet" \in FleetPcs
  BY DEF FleetPcs
<1>4. /\ new \in ApiRequest /\ new.pc = "getFleet" /\ new.cluster = c
      /\ new.name = name /\ new.graph = graph
  BY <1>2, <1>3, NewRequestShape
<1>5. RequestShape(new) /\ new.pc \in FleetPcs
  BY <1>4 DEF RequestShape, FleetPcs, CancelPcs
<1> QED
  BY <1>1, <1>5, ArriveStep

LEMMA BeginDetachStep ==
  ASSUME IInv, NEW c \in Clusters, NEW name \in Names, BeginDetach(c, name)
  PROVE  Managed'
<1>1. PICK new : /\ new = [NewRequest EXCEPT !.pc = "detach", !.cluster = c, !.name = name]
                 /\ ArriveEdit(new)
  BY DEF BeginDetach
<1>2. new = [pc |-> "detach", cluster |-> c, name |-> name, graph |-> None,
                config |-> None, job |-> None, rec |-> NewJob]
  BY <1>1, DetachValue
<1>3. "detach" \in FleetPcs
  BY DEF FleetPcs
<1>4. /\ new \in ApiRequest /\ new.pc = "detach" /\ new.cluster = c
      /\ new.name = name
  BY <1>2, <1>3, NewRequestShape
<1>5. RequestShape(new) /\ new.pc \in FleetPcs
  BY <1>4 DEF RequestShape, FleetPcs, CancelPcs
<1> QED
  BY <1>1, <1>5, ArriveStep

LEMMA BeginUnregisterStep ==
  ASSUME IInv, NEW c \in Clusters, BeginUnregister(c)
  PROVE  Managed'
<1>1. PICK new : /\ new = [NewRequest EXCEPT !.pc = "removeMatcher", !.cluster = c]
                 /\ ArriveEdit(new)
  BY DEF BeginUnregister
<1>2. new = [pc |-> "removeMatcher", cluster |-> c, name |-> None, graph |-> None,
                config |-> None, job |-> None, rec |-> NewJob]
  BY <1>1, UnregisterValue
<1>3. "removeMatcher" \in FleetPcs
  BY DEF FleetPcs
<1>4. new \in ApiRequest /\ new.pc = "removeMatcher" /\ new.cluster = c
  BY <1>2, <1>3, NewRequestShape
<1>5. RequestShape(new) /\ new.pc \in FleetPcs
  BY <1>4 DEF RequestShape, FleetPcs, CancelPcs
<1> QED
  BY <1>1, <1>5, ArriveStep

\* More jobs may be cancelled than before: what the ticker knows only weakens.
LEMMA CancelledMore ==
  ASSUME IInv, NEW cr, cancelReq \subseteq cr
  PROVE  LoopKnows(loop, queue, cr)
<1>1. /\ LoopKnows(loop, queue, cancelReq)
      /\ \A j \in loop.todo \ cr : j \in loop.todo \ cancelReq
      /\ loop.job \notin cr => loop.job \notin cancelReq
  BY DEF IInv, Managed, LoopOK
<1> QED
  BY <1>1 DEF LoopKnows

LEMMA BeginCancelStep == ASSUME IInv, NEW j \in Jobs, BeginCancel(j) PROVE Managed'
<1>0. PICK pc \in {"cancelRemote", "lock"} :
        /\ Arrive([NewRequest EXCEPT !.job = j, !.rec = queue[j], !.pc = pc])
        /\ queue[j] # None /\ cancelReq' = cancelReq \cup {j}
        /\ UNCHANGED <<matcherVars, fleetVars, storeVars, loop, mu, grantee>>
  <2>1. CASE queue[j].handle # 0 /\ queue[j].cluster # None
    BY <2>1 DEF BeginCancel
  <2>2. CASE ~(queue[j].handle # 0 /\ queue[j].cluster # None)
    BY <2>2 DEF BeginCancel
  <2> QED
    BY <2>1, <2>2
<1>1. PICK new : /\ new = [NewRequest EXCEPT !.job = j, !.rec = queue[j], !.pc = pc]
                 /\ Arrive(new)
  BY <1>0
<1>2. UNCHANGED <<live, nextID, fleet, queue, remote, loop, mu, grantee>>
  BY <1>0 DEF matcherVars, fleetVars, storeVars
<1>3. queue[j] \in Job /\ RecOK(queue[j], j, Len(remote), grantee)
  BY <1>0 DEF IInv, Managed, Records
<1>4. new = [pc |-> pc, cluster |-> None, name |-> None, graph |-> None, config |-> None,
             job |-> j, rec |-> queue[j]]
  BY ONLY <1>1 DEF NewRequest
<1>5. /\ new \in ApiRequest /\ new.pc = pc /\ new.job = j /\ new.rec = queue[j]
      /\ pc \in CancelPcs /\ pc \notin FleetPcs
  BY <1>3, <1>4 DEF ApiRequest, RequestWith, CancelPcs, FleetPcs
<1>6. RequestShape(new) /\ RequestOK(new, queue, cancelReq', Len(remote), grantee)
  BY <1>0, <1>3, <1>5 DEF RequestShape, RequestOK, FleetPcs, CancelPcs
<1>7. PICK r \in Requests : requests[r] = None /\ requests' = [requests EXCEPT ![r] = new]
  BY <1>1 DEF Arrive
<1>8. /\ requests \in [Requests -> ApiRequest \cup {None}] /\ requests'[r] = new
      /\ \A s \in Requests \ {r} : requests'[s] = requests[s]
  BY <1>7 DEF IInv, Managed, RequestsOK
<1>9. RequestsOK'
  <2>1. requests' \in [Requests -> ApiRequest \cup {None}]
    BY <1>5, <1>7, <1>8
  <2>2. ASSUME NEW s \in Requests
        PROVE  RequestOK(requests'[s], queue, cancelReq', Len(remote), grantee)
    <3>1. CASE s = r
      BY <1>6, <1>8, <3>1
    <3>2. CASE s # r
      <4>1. RequestOK(requests[s], queue, cancelReq, Len(remote), grantee)
        BY DEF IInv, Managed, RequestsOK
      <4> QED
        BY <1>0, <1>8, <3>2, <4>1 DEF RequestOK
    <3> QED
      BY <3>1, <3>2
  <2> QED
    BY <1>2, <2>1, <2>2 DEF RequestsOK
<1>10. Locked'
  <2> SUFFICES ASSUME NEW s \in Requests
               PROVE  (mu = s) = (requests'[s] # None /\ requests'[s].pc = "commit")
    BY <1>2 DEF Locked, At
  <2>1. (mu = s) = At(s, "commit")
    BY DEF IInv, Managed, Locked
  <2> QED
    BY <1>0, <1>5, <1>7, <1>8, <2>1 DEF At
<1>11. Grants' /\ Remotes' /\ FleetOK' /\ NothingHalfWay'
  BY <1>2 DEF IInv, Managed, Grants, Remotes, FleetOK, NothingHalfWay
<1>12. Records' /\ Holdings'
  BY <1>0, <1>2 DEF IInv, Managed, Records, Holdings, Held
<1>13. LoopOK'
  <2>1. LoopKnows(loop, queue, cancelReq')
    BY <1>0, CancelledMore
  <2> QED
    BY <1>2, <2>1 DEF IInv, Managed, LoopOK
<1> QED
  BY <1>9, <1>10, <1>11, <1>12, <1>13 DEF Managed

\* The native jobs move on.
LEMMA RemoteEdits ==
  ASSUME IInv, NEW h \in DOMAIN remote, NEW st \in Statuses,
         remote' = [remote EXCEPT ![h].state = st]
  PROVE  Remotes' /\ Len(remote') = Len(remote)
<1> DEFINE R == [job : Jobs, cluster : Clusters \cup {None}, state : Statuses]
           new == [remote[h] EXCEPT !.state = st]
<1>0. remote \in Seq(R)
  BY DEF IInv, Managed, Remotes
<1> HIDE DEF R
<1>1. remote[h] \in R /\ h \in 1..Len(remote)
  BY ONLY <1>0, h \in DOMAIN remote
<1>2. new \in R
  BY <1>1 DEF R
<1>3. remote' = [remote EXCEPT ![h] = new]
  OBVIOUS
<1> HIDE DEF new
<1>4. remote' \in Seq(R) /\ Len(remote') = Len(remote)
  BY <1>0, <1>1, <1>2, <1>3
<1> QED
  BY <1>4 DEF Remotes, R

LEMMA RemoteMoves ==
  ASSUME IInv, Remotes', Len(remote') = Len(remote),
         UNCHANGED <<live, nextID, fleet, queue, loop, mu, cancelReq, grantee>>
  PROVE  /\ Grants' /\ Records' /\ FleetOK' /\ LoopOK' /\ NothingHalfWay' /\ Holdings'
BY DEF IInv, Managed, Grants, Records, FleetOK, LoopOK, NothingHalfWay, Holdings, Held

LEMMA FinishStep ==
  ASSUME IInv, NEW h \in DOMAIN remote, RemoteFinish(h)
  PROVE  Managed'
<1>1. UNCHANGED <<live, nextID, fleet, queue, loop, requests, mu, cancelReq, grantee>>
  BY DEF RemoteFinish, matcherVars, fleetVars, apiVars
<1>2. PICK st \in Statuses : remote' = [remote EXCEPT ![h].state = st]
  BY InlineAssumption DEF RemoteFinish, Statuses
<1>3. Remotes' /\ Len(remote') = Len(remote)
  BY <1>2, RemoteEdits
<1>4. RequestsOK' /\ Locked'
  BY <1>1, <1>3 DEF IInv, Managed, RequestsOK, Locked, At
<1> QED
  BY <1>1, <1>3, <1>4, RemoteMoves DEF Managed

\* The other requests are as they were.
LEMMA OthersLocked ==
  ASSUME IInv, NEW r \in Requests, NEW new \in ApiRequest \cup {None},
         requests' = [requests EXCEPT ![r] = new], UNCHANGED mu,
         ~At(r, "commit"), new # None => new.pc # "commit"
  PROVE  Locked'
<1> SUFFICES ASSUME NEW s \in Requests
             PROVE  (mu = s) = (requests'[s] # None /\ requests'[s].pc = "commit")
  BY DEF Locked, At
<1>1. (mu = s) = At(s, "commit")
  BY DEF IInv, Managed, Locked
<1>2. /\ requests \in [Requests -> ApiRequest \cup {None}] /\ requests'[r] = new
      /\ s # r => requests'[s] = requests[s]
  BY DEF IInv, Managed, RequestsOK
<1> QED
  BY <1>1, <1>2 DEF At

LEMMA OthersRequest ==
  ASSUME IInv, NEW r \in Requests, NEW new, requests' = [requests EXCEPT ![r] = new],
         new \in ApiRequest \cup {None}, UNCHANGED <<cancelReq, grantee>>,
         Len(remote') = Len(remote),
         \A j \in Jobs : queue[j] # None => queue'[j] # None,
         RequestOK(new, queue', cancelReq, Len(remote), grantee)
  PROVE  RequestsOK'
<1>1. /\ requests \in [Requests -> ApiRequest \cup {None}] /\ requests'[r] = new
      /\ \A s \in Requests \ {r} : requests'[s] = requests[s]
  BY DEF IInv, Managed, RequestsOK
<1>2. requests' \in [Requests -> ApiRequest \cup {None}]
  BY <1>1
<1>3. ASSUME NEW s \in Requests
      PROVE  RequestOK(requests'[s], queue', cancelReq, Len(remote), grantee)
  <2>1. CASE s = r
    BY <1>1, <2>1
  <2>2. CASE s # r
    <3>1. RequestOK(requests[s], queue, cancelReq, Len(remote), grantee)
      BY DEF IInv, Managed, RequestsOK
    <3> QED
      BY <1>1, <2>2, <3>1 DEF RequestOK, RequestShape
  <2> QED
    BY <2>1, <2>2
<1> QED
  BY <1>2, <1>3 DEF RequestsOK

LEMMA CancelRemoteStep == ASSUME IInv, NEW r \in Requests, CancelRemote(r) PROVE Managed'
<1> DEFINE old == requests[r]
           new == [old EXCEPT !.pc = "lock"]
<1>1. /\ old # None /\ old.pc = "cancelRemote" /\ ~At(r, "commit") /\ Goto(r, "lock")
      /\ UNCHANGED <<matcherVars, fleetVars, queue, arrival, loop, mu, edits, cancelReq, grantee>>
  BY DEF CancelRemote, At
<1>2. UNCHANGED <<live, nextID, fleet, queue, loop, mu, cancelReq, grantee>>
  BY <1>1 DEF matcherVars, fleetVars
<1>3. Remotes' /\ Len(remote') = Len(remote)
  <2>1. PICK h : \E st \in Statuses :
          remote' = remote \/ remote' = [remote EXCEPT ![h].state = st]
    <3>1. CASE remote' = remote
      BY <3>1 DEF Statuses
    <3>2. CASE remote' # remote
      BY <3>2, InlineAssumption DEF CancelRemote, Statuses
    <3> QED
      BY <3>1, <3>2
  <2>0. PICK st \in Statuses : remote' = remote \/ remote' = [remote EXCEPT ![h].state = st]
    BY <2>1
  <2>2. CASE h \in DOMAIN remote /\ remote' = [remote EXCEPT ![h].state = st]
    BY <2>2, RemoteEdits
  <2>3. CASE h \notin DOMAIN remote /\ remote' = [remote EXCEPT ![h].state = st]
    <3>1. remote' = remote
      BY <2>3 DEF IInv, Managed, Remotes
    <3> QED
      BY <3>1 DEF IInv, Managed, Remotes
  <2>4. CASE remote' = remote
    BY <2>4 DEF IInv, Managed, Remotes
  <2> QED
    BY <2>0, <2>2, <2>3, <2>4
<1>4. old \in ApiRequest /\ RequestOK(old, queue, cancelReq, Len(remote), grantee)
  BY <1>1, RequestFacts
<1>5. requests' = [requests EXCEPT ![r] = new]
  BY <1>1, GotoValue DEF CancelPcs
<1>6. new \in ApiRequest /\ new.pc = "lock" /\ new.job = old.job /\ new.rec = old.rec
  BY <1>4, PcEdit DEF CancelPcs
<1>7. RequestOK(new, queue, cancelReq, Len(remote), grantee)
  BY <1>1, <1>4, <1>6 DEF RequestOK, RequestShape, FleetPcs, CancelPcs
<1> HIDE DEF new
<1>8. RequestsOK'
  BY <1>2, <1>3, <1>5, <1>6, <1>7, OthersRequest
<1>9. Locked'
  BY <1>1, <1>2, <1>5, <1>6, OthersLocked
<1> QED
  BY <1>2, <1>3, <1>8, <1>9, RemoteMoves DEF Managed

LEMMA CancelLockStep == ASSUME IInv, NEW r \in Requests, CancelLock(r) PROVE Managed'
<1> DEFINE old == requests[r]
           moved == [old EXCEPT !.pc = "commit"]
           new == [moved EXCEPT !.rec = queue[old.job]]
<1>1. /\ old # None /\ old.pc = "lock" /\ mu = None /\ mu' = r
      /\ requests' = [requests EXCEPT ![r].pc = "commit", ![r].rec = queue[old.job]]
      /\ UNCHANGED <<matcherVars, fleetVars, storeVars, loop, cancelReq, grantee>>
  BY DEF CancelLock, At
<1>2. UNCHANGED <<live, nextID, fleet, queue, remote, loop, cancelReq, grantee>>
  BY <1>1 DEF matcherVars, fleetVars, storeVars
<1>3. old \in ApiRequest /\ RequestOK(old, queue, cancelReq, Len(remote), grantee)
  BY <1>1, RequestFacts
<1>4. /\ old.job \in Jobs /\ old.job \in cancelReq
      /\ queue[old.job] # None /\ queue[old.job] \in Job
      /\ RecOK(queue[old.job], old.job, Len(remote), grantee)
  BY <1>1, <1>3 DEF RequestOK, RequestShape, CancelPcs, IInv, Managed, Records
<1>5. requests \in [Requests -> ApiRequest \cup {None}] /\ r # None
  BY NoneAssumption DEF IInv, Managed, RequestsOK
<1>6. requests' = [requests EXCEPT ![r] = new]
  BY <1>1, <1>5
<1>7. moved \in ApiRequest /\ moved.pc = "commit" /\ moved.job = old.job
  BY <1>3, PcEdit DEF CancelPcs
<1> HIDE DEF moved
<1>8. /\ new \in ApiRequest /\ new.pc = "commit" /\ new.job = old.job
      /\ new.rec = queue[old.job]
  BY <1>4, <1>7, RecEdit
<1> HIDE DEF new
<1>9. RequestOK(new, queue, cancelReq, Len(remote), grantee)
  BY <1>4, <1>8 DEF RequestOK, RequestShape, FleetPcs, CancelPcs
<1>10. RequestsOK'
  BY <1>2, <1>6, <1>8, <1>9, OthersRequest
<1>11. Locked'
  <2> SUFFICES ASSUME NEW s \in Requests
               PROVE  (r = s) = (requests'[s] # None /\ requests'[s].pc = "commit")
    BY <1>1 DEF Locked, At
  <2>1. (mu = s) = At(s, "commit") /\ mu # s
    BY <1>1, NoneAssumption DEF IInv, Managed, Locked
  <2>2. CASE s = r
    BY <1>5, <1>6, <1>8, <2>2, NoneAssumption
  <2>3. CASE s # r
    BY <1>5, <1>6, <2>1, <2>3 DEF At
  <2> QED
    BY <2>2, <2>3
<1> QED
  BY <1>2, <1>10, <1>11
     DEF IInv, Managed, Grants, Records, Remotes, FleetOK, LoopOK, NothingHalfWay, Holdings, Held

\* Cancel frees what the record it locked named and fails the job.
LEMMA CancelCommitStep == ASSUME IInv, NEW r \in Requests, CancelCommit(r) PROVE Managed'
<1> DEFINE old == requests[r]
           j == old.job
           rec == [old.rec EXCEPT !.state = "FAILED", !.alloc = 0, !.note = None]
<1>1. /\ old # None /\ old.pc = "commit" /\ At(r, "commit")
      /\ FreeAlloc(old.rec.alloc) /\ queue' = [queue EXCEPT ![j] = rec]
      /\ mu' = None /\ requests' = [requests EXCEPT ![r] = None]
      /\ UNCHANGED <<arrival, remote, fleetVars, loop, cancelReq, grantee>>
  BY DEF CancelCommit, At, Store, Done
<1>2. /\ UNCHANGED <<fleet, remote, loop, cancelReq, grantee, nextID>>
      /\ DOMAIN live' \subseteq DOMAIN live
  BY <1>1, FreeAllocFacts DEF fleetVars
<1>3. /\ j \in Jobs /\ j \in cancelReq /\ queue[j] # None
      /\ RecOK(old.rec, j, Len(remote), grantee)
  BY <1>1, RequestFacts DEF RequestOK, RequestShape, CancelPcs
<1>4. old.rec \in Job /\ 0 \in 0..MaxAllocs
  BY <1>3, InlineAssumption DEF RecOK
<1>5. rec \in Job /\ rec.state = "FAILED" /\ rec.alloc = 0 /\ rec.handle = old.rec.handle
  BY <1>4 DEF Job, JobStates
<1> HIDE DEF rec
<1>6. RecOK(rec, j, Len(remote), grantee) /\ ~HalfWay(rec) /\ Terminal(rec.state) /\ rec # None
  BY <1>3, <1>5, NoneAssumption DEF RecOK, HalfWay, Terminal
<1>7. /\ queue \in [Jobs -> Job \cup {None}] /\ queue' \in [Jobs -> Job \cup {None}]
      /\ queue'[j] = rec /\ \A i \in Jobs \ {j} : queue'[i] = queue[i]
      /\ \A i \in Jobs : queue[i] # None => queue'[i] # None
  BY <1>1, <1>3, <1>5, <1>6 DEF IInv, Managed, Records
<1>8. Grants'
  BY <1>2, <1>7 DEF IInv, Managed, Grants
<1>9. Records'
  BY <1>2, <1>3, <1>5, <1>6, <1>7 DEF IInv, Managed, Records
<1>10. Remotes' /\ FleetOK'
  BY <1>2 DEF IInv, Managed, Remotes, FleetOK
<1>11. RequestsOK'
  <2>1. RequestOK(None, queue', cancelReq, Len(remote), grantee)
    BY DEF RequestOK
  <2> QED
    BY <1>1, <1>2, <1>7, <2>1, OthersRequest
<1>12. Locked'
  <2> SUFFICES ASSUME NEW s \in Requests
               PROVE  (None = s) = (requests'[s] # None /\ requests'[s].pc = "commit")
    BY <1>1 DEF Locked, At
  <2>1. None # s /\ mu = r
    BY <1>1, NoneAssumption DEF IInv, Managed, Locked
  <2>2. s # r => ~At(s, "commit")
    BY <2>1 DEF IInv, Managed, Locked
  <2>3. requests \in [Requests -> ApiRequest \cup {None}]
    BY DEF IInv, Managed, RequestsOK
  <2> QED
    BY <1>1, <2>1, <2>2, <2>3 DEF At
<1>13. NothingHalfWay'
  BY <1>2, <1>6, <1>7 DEF IInv, Managed, NothingHalfWay, HalfWay
<1>14. Holdings'
  <2> SUFFICES ASSUME NEW a \in DOMAIN live, grantee[a] \notin cancelReq
               PROVE  Held(a, grantee[a], loop, queue')
    BY <1>2 DEF Holdings
  <2>1. grantee[a] \in Jobs \ {j} /\ Held(a, grantee[a], loop, queue)
    BY <1>3 DEF IInv, Managed, Grants, Holdings
  <2> QED
    BY <1>7, <2>1 DEF Held
<1>15. LoopOK'
  <2>1. LoopKnows(loop, queue, cancelReq)
    BY DEF IInv, Managed, LoopOK
  <2>2. loop.todo \subseteq Jobs /\ (loop.pc \notin RestPcs => loop.job \in Jobs)
    BY LoopFacts
  <2>3. \A i \in Jobs : i \notin cancelReq => queue'[i] = queue[i]
    BY <1>3, <1>7
  <2>4. loop.pc \in PlacePcs \cup PollPcs \cup DispatchPcs => loop.pc \notin RestPcs
    BY DEF PlacePcs, PollPcs, DispatchPcs, RestPcs
  <2>5. \A i \in Jobs : queue'[i] = queue[i] \/ (~HalfWay(queue'[i]) /\ Terminal(queue'[i].state))
    BY <1>6, <1>7
  <2>6. LoopKnows(loop, queue', cancelReq)
    <3>1. /\ \A i \in loop.todo : queue'[i] # None
          /\ loop.pc \notin RestPcs => queue'[loop.job] # None
      BY <1>7, <2>1, <2>2 DEF LoopKnows
    <3>2. loop.pc \in PlacePcs => ~HalfWay(queue'[loop.job])
      BY <2>1, <2>2, <2>4, <2>5 DEF LoopKnows
    <3>3. loop.pc \in PollPcs => ~HalfWay(queue'[loop.job])
      BY <2>1, <2>2, <2>4, <2>5 DEF LoopKnows
    <3>4. loop.pc = "release" => Terminal(queue'[loop.job].state)
      BY <2>1, <2>2, <2>4, <2>5 DEF LoopKnows, PollPcs
    <3>5. \A i \in loop.todo \ cancelReq : queue'[i] = queue[i]
      BY <2>2, <2>3
    <3>6. loop.pc \notin RestPcs /\ loop.job \notin cancelReq => queue'[loop.job] = queue[loop.job]
      BY <2>2, <2>3
    <3>7. loop.pc \in {"observe", "release"} => loop.pc \notin RestPcs
      BY DEF RestPcs
    <3> QED
      BY <2>1, <2>4, <3>1, <3>2, <3>3, <3>4, <3>5, <3>6, <3>7 DEF LoopKnows
  <2> QED
    BY <1>2, <2>6 DEF IInv, Managed, LoopOK
<1> QED
  BY <1>8, <1>9, <1>10, <1>11, <1>12, <1>13, <1>14, <1>15 DEF Managed

-----------------------------------------------------------------------------
(* The invariant *)

LEMMA LoopStep == ASSUME IInv, Loop PROVE Managed'
<1>1. CASE Tick \/ FleetCheck \/ NoteEmptyFleet \/ GetJob \/ EvaluateJob \/ FailInfeasible
  BY <1>1, TickStep, FleetCheckStep, NoteEmptyStep, GetJobStep, EvaluateStep, InfeasibleStep
<1>2. CASE FilterDispatchable
  BY <1>2, FilterStep
<1>3. CASE NoteWaiting("noteEmulated", "emulated only") \/ NoteWaiting("noteFull", "no free capacity")
  BY <1>3, NoteStep
<1>4. CASE \E c \in Clusters : AllocateOn(c) \/ NoRoomOn(c)
  BY <1>4, AllocateStep, NoRoomStep
<1>5. CASE UpdateMatched \/ DispatchGet \/ DispatchMark \/ DispatchSubmit \/ DispatchRunning
  BY <1>5, UpdateStep, DispatchGetStep, MarkStep, SubmitStep, RunningStep
<1>6. CASE FailJobFree \/ FailJobUpdate
  BY <1>6, FailFreeStep, FailUpdateStep
<1>7. CASE MonitorSnapshot \/ MonitorStatus \/ MonitorUpdate \/ MonitorRelease
  BY <1>7, SnapshotStep, StatusStep, MonitorUpdateStep, MonitorReleaseStep
<1> QED
  BY <1>1, <1>2, <1>3, <1>4, <1>5, <1>6, <1>7 DEF Loop

LEMMA RequestStep == ASSUME IInv, NEW r \in Requests, Request(r) PROVE Managed'
<1>1. CASE AddFleet(r) \/ AddMatcher(r) \/ IssueSecret(r) \/ GetFleet(r) \/ GetBack(r) \/ AddBack(r)
  BY <1>1, AddFleetStep, AddMatcherStep, IssueStep, FleetReadStep, AddBackStep
<1>2. CASE AttachMatcher(r) \/ DetachMatcher(r) \/ RemoveMatcher(r) \/ RemoveFleet(r) \/ ForgetSecret(r)
  BY <1>2, AttachStep, RemoveMatcherStep, RemoveFleetStep, ForgetStep
<1>3. CASE CancelRemote(r) \/ CancelLock(r) \/ CancelCommit(r)
  BY <1>3, CancelRemoteStep, CancelLockStep, CancelCommitStep
<1> QED
  BY <1>1, <1>2, <1>3 DEF Request

LEMMA StutterStep == ASSUME IInv, UNCHANGED vars PROVE Managed'
<1>1. /\ UNCHANGED <<live, nextID, fleet, queue, remote, loop, requests, mu, cancelReq, grantee>>
  BY DEF vars, matcherVars, fleetVars, storeVars, apiVars
<1>2. Remotes' /\ Len(remote') = Len(remote) /\ RequestsOK' /\ Locked'
  BY <1>1 DEF IInv, Managed, Remotes, RequestsOK, Locked, At
<1> QED
  BY <1>1, <1>2, RemoteMoves DEF Managed

LEMMA NextIInv == IInv /\ [Next]_vars => IInv'
<1> SUFFICES ASSUME IInv, [Next]_vars PROVE Managed'
  BY MatcherKept DEF IInv
<1>1. CASE \E j \in Jobs : Submit(j) \/ BeginCancel(j)
  BY <1>1, SubmitJobStep, BeginCancelStep
<1>2. CASE \E c \in Clusters, config \in Configs, graph \in Offered \cup {None} :
             BeginRegister(c, config, graph)
  BY <1>2, RegisterStep
<1>3. CASE \E c \in Clusters, graph \in Offered :
             BeginAttach(c, Matcher!ContainmentSubsystem, graph)
  BY <1>3, BeginAttachStep, InlineAssumption
<1>4. CASE \E c \in Clusters, name \in Names, graph \in AuxGraphs : BeginAttach(c, name, graph)
  BY <1>4, BeginAttachStep
<1>5. CASE \/ \E c \in Clusters, name \in Names : BeginDetach(c, name)
           \/ \E c \in Clusters : BeginUnregister(c)
  BY <1>5, BeginDetachStep, BeginUnregisterStep
<1>6. CASE \/ \E r \in Requests : Request(r)
           \/ Loop
           \/ \E h \in DOMAIN remote : RemoteFinish(h)
  BY <1>6, RequestStep, LoopStep, FinishStep
<1>7. CASE Quiet \/ UNCHANGED vars
  BY <1>7, StutterStep DEF Quiet
<1> QED
  BY <1>1, <1>2, <1>3, <1>4, <1>5, <1>6, <1>7 DEF Next

LEMMA InitMatcher == Matcher!Init <=> MP!Init
BY DEF Matcher!Init, MP!Init

LEMMA InitIInv == Init => IInv
<1> SUFFICES ASSUME Init PROVE IInv
  OBVIOUS
<1>1. /\ queue = [j \in Jobs |-> None] /\ remote = <<>> /\ loop = Idle /\ fleet = <<>>
      /\ requests = [r \in Requests |-> None] /\ mu = None /\ cancelReq = {} /\ grantee = <<>>
      /\ MP!Init /\ live = <<>> /\ nextID = 0
  BY InitMatcher DEF Init, Matcher!Init
<1>2. MatcherOK
  <2>1. MP!IInv
    BY <1>1, MP!InitIInv, SameConstants
  <2>2. MP!OrderOK
    <3>1. order = <<>> /\ DOMAIN clusters = {}
      BY <1>1 DEF MP!Init
    <3> QED
      BY <3>1, MP!ListsEmpty, SameConstants DEF MP!OrderOK
  <2> QED
    BY <2>1, <2>2 DEF MatcherOK
<1>3. Grants /\ Holdings
  BY <1>1, InlineAssumption DEF Grants, Holdings
<1>4. Records /\ NothingHalfWay
  BY <1>1 DEF Records, NothingHalfWay
<1>5. Remotes /\ FleetOK
  BY <1>1 DEF Remotes, FleetOK
<1>6. Locked
  BY <1>1, NoneAssumption DEF Locked, At
<1>7. RequestsOK
  BY <1>1 DEF RequestsOK, RequestOK
<1>8. LoopOK
  BY <1>1, IdleShape
     DEF LoopOK, LoopKnows, LoopRecs, RestPcs, PlacePcs, DispatchPcs, PollPcs, WaitPcs, WatchPcs
<1> QED
  BY <1>2, <1>3, <1>4, <1>5, <1>6, <1>7, <1>8 DEF IInv, Managed

LEMMA Invariant == Spec => []IInv
BY InitIInv, NextIInv, PTL DEF Spec

-----------------------------------------------------------------------------
(* What the manager promises *)

\* Every request, pass and monitor step is a step of the matcher of sim.go or
\* leaves it alone: what the matcher promises its callers holds inside the
\* manager too, whatever its threads do (manager.go:106-184, 277-291, 520-572).
THEOREM MatcherImplemented == Spec => Matcher!Spec
<1>1. Init => Matcher!Init
  BY DEF Init
<1>2. IInv /\ [Next]_vars => [Matcher!Next]_(Matcher!vars)
  <2> SUFFICES ASSUME MP!Next PROVE Matcher!Next
    BY NextMatcher DEF MP!vars, Matcher!vars
  <2>1. Matcher!ClusterGraph = MP!ClusterGraph
    BY DEF Matcher!ClusterGraph, MP!ClusterGraph, Matcher!PartialFunctions, MP!PartialFunctions
  <2>2. Matcher!ContainmentSubsystem = MP!ContainmentSubsystem
    BY DEF Matcher!ContainmentSubsystem, MP!ContainmentSubsystem
  <2> QED
    BY <2>1, <2>2, SameSteps DEF Matcher!Next, MP!Next
<1> QED
  BY <1>1, <1>2, Invariant, PTL DEF Spec, Matcher!Spec

\* Inline dispatch leaves no job half-way: MATCHED and DISPATCHING are states
\* of the ticker's own job only, for any number of requests, clusters and jobs
\* (manager.go:287-289, 462-495).
THEOREM NeverHalfWay == Spec => []NothingHalfWay
<1>1. IInv => NothingHalfWay
  BY DEF IInv, Managed
<1> QED
  BY <1>1, Invariant, PTL

\* No allocation outlives its job, but for the job of a Cancel that raced the
\* ticker (manager.go:277-291, 544-572).
THEOREM AlwaysOwned == Spec => []AllocationsOwned
<1>1. ASSUME IInv PROVE AllocationsOwned
  <2> SUFFICES ASSUME NEW a \in DOMAIN live, grantee[a] \notin cancelReq
               PROVE  \/ loop.job = grantee[a]
                      \/ queue[grantee[a]].alloc = a /\ ~Terminal(queue[grantee[a]].state)
    BY DEF AllocationsOwned
  <2>1. Held(a, grantee[a], loop, queue)
    BY <1>1 DEF IInv, Managed, Holdings
  <2> QED
    BY <2>1 DEF Held
<1> QED
  BY <1>1, Invariant, PTL

\* The store, the records and the locals of every thread keep their types, and
\* m.mu is held by exactly the request inside failByID (manager.go:146-153).
THEOREM TypeCorrect == Spec => []TypeOK
<1>1. ASSUME IInv PROVE TypeOK
  <2>1. MP!TypeOK
    BY <1>1 DEF IInv, MatcherOK, MP!IInv
  <2>2. Matcher!TypeOK
    <3>1. /\ Matcher!ClusterGraph = MP!ClusterGraph /\ Matcher!Nodes = MP!Nodes
          /\ Matcher!LiveAlloc = MP!LiveAlloc
      BY DEF Matcher!ClusterGraph, MP!ClusterGraph, Matcher!PartialFunctions,
             MP!PartialFunctions, Matcher!LiveAlloc, MP!LiveAlloc, Matcher!Nodes, MP!Nodes
    <3>2. \A S, T : Matcher!PartialFunctions(S, T) = MP!PartialFunctions(S, T)
      BY DEF Matcher!PartialFunctions, MP!PartialFunctions
    <3> QED
      BY <2>1, <3>1, <3>2 DEF Matcher!TypeOK, MP!TypeOK
  <2>3. FleetOK /\ queue \in [Jobs -> Job \cup {None}] /\ Locked
    BY <1>1 DEF IInv, Managed, Records
  <2>4. loop.rec \in Job
    BY <1>1, LoopFacts DEF LoopState
  <2> QED
    BY <2>2, <2>3, <2>4 DEF TypeOK, FleetOK, Locked
<1> QED
  BY <1>1, Invariant, PTL

\* Three steps call Free, each for the job its record is about.
LEMMA FreesOwn ==
  ASSUME IInv, NEW a \in DOMAIN live, NEW j \in Jobs, NEW rec,
         RecOK(rec, j, Len(remote), grantee), FreeAlloc(rec.alloc), a \notin DOMAIN live'
  PROVE  grantee[a] = j
<1>1. a = rec.alloc /\ a # 0
  BY FreeAllocFacts, LoopFacts
<1> QED
  BY <1>1 DEF RecOK

LEMMA RequestFrees ==
  ASSUME IInv, NEW r \in Requests, Request(r), NEW a \in DOMAIN live, a \notin DOMAIN live'
  PROVE  live[a].cluster \notin DOMAIN clusters' \/ Terminal(queue'[grantee[a]].state)
<1>1. CASE RemoveMatcher(r)
  <2>1. live[a].cluster = requests[r].cluster
    BY <1>1 DEF RemoveMatcher, Matcher!RemoveCluster, Matcher!Drop, Matcher!Restrict
  <2>2. requests[r].cluster \notin DOMAIN clusters'
    BY <1>1 DEF RemoveMatcher, Matcher!RemoveCluster, Matcher!Drop, Matcher!Restrict
  <2> QED
    BY <2>1, <2>2
<1>2. CASE CancelCommit(r)
  <2> DEFINE j == requests[r].job
             rec == [requests[r].rec EXCEPT !.state = "FAILED", !.alloc = 0, !.note = None]
  <2>1. /\ requests[r] # None /\ requests[r].pc = "commit"
        /\ FreeAlloc(requests[r].rec.alloc) /\ queue' = [queue EXCEPT ![j] = rec]
    BY <1>2 DEF CancelCommit, At, Store
  <2>2. j \in Jobs /\ RecOK(requests[r].rec, j, Len(remote), grantee)
    BY <2>1, RequestFacts DEF RequestOK, RequestShape, CancelPcs
  <2>3. grantee[a] = j
    BY <2>1, <2>2, FreesOwn
  <2>4. rec.state = "FAILED"
    BY <2>2 DEF RecOK, Job
  <2> HIDE DEF rec
  <2>5. queue'[j] = rec
    BY <2>1, <2>2 DEF IInv, Managed, Records
  <2> QED
    BY <2>3, <2>4, <2>5 DEF Terminal
<1>3. CASE ~RemoveMatcher(r) /\ ~CancelCommit(r)
  <2>1. UNCHANGED live
    BY <1>3 DEF Request, AddFleet, AddMatcher, Matcher!AddCluster, IssueSecret, GetFleet,
                AttachMatcher, Matcher!AddSubsystem, AddBack, DetachMatcher,
                Matcher!RemoveSubsystem, GetBack, RemoveFleet, ForgetSecret, CancelRemote,
                CancelLock, matcherVars
  <2> QED
    BY <2>1
<1> QED
  BY <1>1, <1>2, <1>3

LEMMA LoopFreesOwn ==
  ASSUME IInv, Loop, NEW a \in DOMAIN live, a \notin DOMAIN live'
  PROVE  \/ Terminal(queue'[grantee[a]].state)
         \/ loop.pc = "free" /\ loop.job = grantee[a]
<1>1. CASE FailJobFree
  <2>1. loop.pc = "free" /\ FreeAlloc(loop.rec.alloc)
    BY <1>1 DEF FailJobFree
  <2>2. loop.job \in Jobs /\ RecOK(loop.rec, loop.job, Len(remote), grantee)
    BY <2>1, LoopFacts DEF RestPcs
  <2> QED
    BY <2>1, <2>2, FreesOwn
<1>2. CASE MonitorRelease
  <2>1. loop.pc = "release" /\ FreeAlloc(loop.rec.alloc) /\ queue' = queue
    BY <1>2 DEF MonitorRelease, storeVars
  <2>2. loop.job \in Jobs /\ RecOK(loop.rec, loop.job, Len(remote), grantee)
    BY <2>1, PollFacts DEF PollPcs
  <2>3. Terminal(queue[loop.job].state)
    BY <2>1 DEF IInv, Managed, LoopOK, LoopKnows
  <2> QED
    BY <2>1, <2>2, <2>3, FreesOwn
<1>3. CASE \E c \in Clusters : AllocateOn(c)
  <2>1. DOMAIN live \subseteq DOMAIN live'
    BY <1>3 DEF AllocateOn, Matcher!Allocate, Matcher!AllocateSatisfyOnly, Matcher!Put
  <2> QED
    BY <2>1
<1>4. CASE ~FailJobFree /\ ~MonitorRelease /\ ~\E c \in Clusters : AllocateOn(c)
  <2>1. UNCHANGED matcherVars
    BY <1>4
       DEF Loop, Tick, FleetCheck, NoteEmptyFleet, GetJob, EvaluateJob, FailInfeasible,
           FilterDispatchable, NoteWaiting, NoRoomOn, UpdateMatched, DispatchGet, DispatchMark,
           DispatchSubmit, DispatchRunning, FailJobUpdate, MonitorSnapshot, MonitorStatus,
           MonitorUpdate
  <2> QED
    BY <2>1 DEF matcherVars
<1> QED
  BY <1>1, <1>2, <1>3, <1>4

\* No Free, although each works from an old copy of a record, ever releases an
\* allocation of another job, or of a job that is still to run (manager.go:146-153,
\* 556-571, pipeline.go:147-157).
THEOREM NeverReleasedForAnother == Spec => ReleasedForItsJob
<1> DEFINE A == \A a \in DOMAIN live :
                  a \notin DOMAIN live' =>
                    \/ live[a].cluster \notin DOMAIN clusters'
                    \/ Terminal(queue'[grantee[a]].state)
                    \/ loop.pc = "free" /\ loop.job = grantee[a]
<1>1. IInv /\ [Next]_vars => [A]_vars
  <2> SUFFICES ASSUME IInv, Next, NEW a \in DOMAIN live, a \notin DOMAIN live'
               PROVE  \/ live[a].cluster \notin DOMAIN clusters'
                      \/ Terminal(queue'[grantee[a]].state)
                      \/ loop.pc = "free" /\ loop.job = grantee[a]
    OBVIOUS
  <2>1. CASE \E r \in Requests : Request(r)
    BY <2>1, RequestFrees
  <2>2. CASE Loop
    BY <2>2, LoopFreesOwn
  <2>3. CASE ~Loop /\ ~\E r \in Requests : Request(r)
    <3>1. UNCHANGED matcherVars
      BY <2>3
         DEF Next, Submit, BeginCancel, BeginRegister, BeginAttach, BeginDetach, BeginUnregister,
             ArriveEdit, RemoteFinish, Quiet, vars
    <3> QED
      BY <3>1 DEF matcherVars
  <2> QED
    BY <2>1, <2>2, <2>3
<1> QED
  BY <1>1, Invariant, PTL DEF Spec, ReleasedForItsJob

=============================================================================
