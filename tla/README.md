# fluxq: a TLA+ verification project

fluxq takes jobspecs, finds a cluster of a fleet that can run each of them,
reserves capacity there, submits the job in the cluster's own dialect and
follows it to its end.  This directory holds TLA+ models of the parts where
that can go wrong, TLC configurations that check them on small instances, and
TLAPS proofs of the results that hold for every instance.

## 1. Inventory of the system

| Part | State | Operations | Talks to |
|---|---|---|---|
| Manager (`pkg/manager/manager.go`) | `m.mu`, `m.seq`, the ticker | Submit, Cancel, CancelAll, Register/UnregisterCluster, Register/UnregisterSubsystem, DiscoverCluster, Step (a scheduling pass, then the inline monitor) | store, matcher, fleet, dispatcher, drivers |
| Staged pipeline (`pipeline.go`) | none of its own | handleDispatch, handleRepair, handleMonitor, reschedule, failByID | store and matcher inside `m.mu`; drivers and the repair agent outside |
| River transport (`river.go`) | river's job table | Work of three workers, enqueueStage, RiverDispatcher | the handlers; retries and attempt limits are river's |
| Inline path (`manager.go` 447-572) | none | dispatchNow, monitorOnce, failJob, in the ticker's goroutine, no lock | store, matcher, drivers |
| Job store (`pkg/queue`) | job records | Enqueue, Get, Update, Provisional, Active, All; memory, SQLite, Postgres | - |
| SimMatcher (`pkg/matcher/sim.go`) | graphs, iteration order, ledger, live allocations, id counter | AddCluster, RemoveCluster, Add/RemoveSubsystem, Evaluate, Allocate, Free | graph, jobspec |
| FluxionMatcher (`fluxion.go`, `fluxion_worker.go`) | one context per cluster and subsystem, worker processes, owner index | the same interface, over a line protocol to workers | flux-sched |
| Fleet (`pkg/graph`) | id to cluster graph | Add, Remove, Get, Clusters; subsystems attach and detach | - |
| Policy, scorer, reconciler, jobspec | none | Order/HeadOfLineBlock; RankWithTrace; Propose; counts | pure |
| Transformer, validator (`pkg/transform`, `validate.go`) | none | Transform, Repair; the verdict | pure, but for the agent |
| Discovery, vocabulary (`discover.go`, `pkg/vocabulary`) | none | facts of nodes to graphs; what a fleet advertises | pure |
| Drivers, emulator (`pkg/cluster`) | the backend's jobs | Submit, Status, Cancel, Logs | Flux, Kubernetes, Slurm |
| Server (`cmd/fluxq/serve.go`) | none of its own | start over a durable or volatile store, preload a fleet | everything above |
| API, command line, Python client | none | decode a request, call the manager, print | manager |

What is hard.  The ticker's goroutine (scheduling), up to 16 river workers and
any number of API requests share the store and the matcher.  The stage handlers
and Cancel guard their read-modify-write of a record with `m.mu`, and drop the
lock around driver calls; the scheduling pass never takes it.  A record is
always written whole, so a writer with an old copy undoes what happened since.
An allocation is a resource with an owner that changes hands (pass, dispatch,
repair, monitor, back to scheduling) and must be freed exactly once on every
path.  River delivers a stage at least once and silently discards it after its
last attempt.  Clusters come and go while all this runs.  With a database the
records and river's rows outlive a crash and nothing else does: not the fleet,
not the ledger, not the counters of ids.  The full list, with
the line where each hazard bites, is `hazards` in `PROJECT.json`.

What makes the parts correct:

- matcher: no node is given out twice; the ledger is exactly what live
  allocations hold, through re-registration and graph replacement; an id is
  never reused, so a late Free cannot hit somebody else;
- pipeline: a record names only its own live allocation; an allocation always
  has an owner that will free it; a native job runs only on reserved capacity;
  a job is in one stage and runs once; Cancel is final; every job finishes;
- policy: under FCFS a pass lets no job overtake a blocked one it has read;
- server: after a crash somebody still looks at every job that was on its way,
  nothing is started twice, and completion is reported on evidence;
- artifacts: what the transformer makes, the validator passes and the backend
  accepts; what it claims and mounts fits the node it lands on.

## 2. Modules

| Module | Models | Composition |
|---|---|---|
| `Reservations` | what a matcher promises its callers | abstract specification |
| `SimMatcher` | `pkg/matcher/sim.go`, one action per method | implements `Reservations` (live allocations as holdings) |
| `SimMatcherProofs` | - | TLAPS proofs about `SimMatcher` |
| `Pipeline` | the pass, the stages, river and Cancel on one store and one matcher | composes four concurrent parts |
| `InlineManager` | the manager without a database: the ticker's pass, inline dispatch and monitor, API requests on fleet and jobs | `Matcher == INSTANCE SimMatcher`: the matcher's own actions are its steps |
| `FluxionMatcher` | `fluxion.go` and its worker processes | on its own |
| `Placement` | evaluation, scoring, placement and repacking of one job | on its own; the walks over trees are operator constants |
| `Artifacts` | discovery, vocabulary, transformer, validator, drivers' acceptance, for the placed job | EXTENDS `Placement`: the job goes on with the cluster chosen there |
| `ResourceTrees` | the walks: jobspec counts, the shape Fluxion is asked for, anyof, node capacity, subtree matching | EXTENDS `Artifacts`: its operators are the values of `Placement`'s |
| `PlacementProofs` | - | TLAPS proofs about `Placement` and `Artifacts` |
| `Backends` | native jobs of Kubernetes and Flux, and what the drivers make of them | on its own |
| `Server` | the durable server and its crashes: store, river rows, pass, dispatch, monitor | EXTENDS `Backends` |
| `ServerProofs` | - | TLAPS proofs about `Server` |
| `PipelineProofs`, `StageProofs` | - | TLAPS proofs about `Pipeline`: who owns an allocation; what runs on it |
| `FluxionProofs` | - | TLAPS proofs about `FluxionMatcher` |
| `InlineInvariant`, `InlineProofs` | - | the inductive invariant of `InlineManager`, and TLAPS proofs about it, with the matcher inside it |
| `OrderLemmas` | - | lemmas on the order of clusters, for both matchers' proofs |
| `MC...` | constants for TLC | |

### SimMatcher

Every method holds the matcher's mutex, so each is one atomic action.  The Go
maps are functions with the registered ids, or live allocation ids, as domain.
A containment tree is a function from node vertices (numbered in graph order)
to capacities; an auxiliary tree is the set of requests `satisfyResource` finds
in it.  Error and "no room" returns change nothing and are stutters.
`MaxAllocs` bounds the ids minted.

### Pipeline

A locked section of a handler is two steps: `Get` when `m.mu` is free (which
takes it), and `Update`, which releases it.  Driver calls are steps without the
lock.  A scheduling pass is one step for the snapshot and one for every later
call of the store, matcher or river, without the lock.  `sched`, each river job in
`tasks` and `canceller` carry the locals of their goroutine, the copy of the
job record included; that copy is what makes lost updates visible.  `Free`,
which the code calls between Get and Update, is part of the Update step: it
commutes with everything the pass does between them, except that the freed
room is visible one step later.  A native job is an entry of `remote`; when it
ends, or which state a cancelled one reports, is up to the environment.
The fleet is fixed.  A note is one flag ("waiting"), the only text compared.

Submit stamps a job and enqueues it in two steps, without a lock (`SubmitStamp`,
`SubmitEnqueue`), so jobs can enter the store in another order than that of their
stamps.  `arrival` is the order of the stamps.  In which order the store lists what
it holds is `ListedBefore`: by time, as the memory and Postgres stores do, or, with
`TextOrder`, by the text SQLite writes, whose RFC3339Nano drops zeros at the end of
the fraction.  `Clock` has the fractions that the first, second, ... stamp come to;
no two are equal.  `MaxSubmits` bounds the jobs that clients submit, of those that
`Jobs` offers; `EndStates` are the ways a native job may end.

`Faults` selects which calls may fail: `status`, `remoteCancel` (driver errors)
and `insert` (a river insert).  `Outcomes` is the set of verdicts an attempt may
come to, chosen freely at each attempt.

### InlineManager

One ticker goroutine (`loop`) makes a pass, dispatches each placed job at once,
and polls the running ones; it takes no lock.  Every call of the store, the
matcher, the fleet or a driver is a step of its own, and `loop` carries the
records read so far.  API requests (`requests`) register, attach to, detach
from and remove a cluster, each as the sequence of fleet and matcher calls the
manager makes, or cancel a job.  A fleet entry is the cluster's dispatch config;
graphs are kept by the matcher, whose seven actions are reused through INSTANCE.
The edit secret decides which requests can arrive.  Submit is one step here, but a
job takes any place in the order of the stamps, which is all that the two steps of
`Pipeline` come to when nothing depends on when the stamp was given.

### FluxionMatcher

Contexts and worker processes are numbered in order of creation, so that a
replaced one stays visible.  A worker is up or killed and has a number of jobs;
what its graph matches is the room it has.  AddCluster and AddSubsystem spawn
before they lock, so each is two steps and calls overlap; a spawn may fail after
any number of workers.  `grants` is the history of what callers hold.

### Placement

Resource trees, graph vertices and sections are nested records.  The four walks
over them are operator constants: `Ask` (what a jobspec comes to), `Capacity` (of
a node), `Satisfies` (a graph and a section of requirements) and `Within` (the
vertices of a graph).  `ResourceTrees` defines them as the recursive operators
they are in the code (`Counts`, `NodeCapacity`, `SectionSatisfied`, `Vertices`), and
`MCPlacement.cfg` gives them these values, so the `placement` run walks real trees;
the proofs use only what the two modules assume of the walks:

| Assumption | Says | In the code |
|---|---|---|
| `FleetsAssumption` | node lists are lists, capacities are not negative | sizes are clamped to at least 1 before they are added (`sim.go` 98-124) |
| `RequestsAssumption` | a job asks for a node at least, and for no more than `MaxCount` of anything | `counts` ends with nodes at least 1 (`jobspec.go` 160-162) |
| `ContainmentAssumption` | the tree `Containment` builds counts to the numbers it is built from | `jobspec.go` 252-266 against 102-164 |
| `ClustersAssumption` | managers are known; an architecture is one value, of those views exist for | `SingletonSubsystem`; anything else the code takes for amd64 |
| `JobsAssumption` | the sections that classify a job ask for a plain value | what the vocabulary offers (`derive.go` 66-92) |
| `FactsAssumption` | a discovered cluster advertises what its facts come to | `manager.go` 366-418 |
| `WithinAssumption` | a graph's vertices are its roots and those below them | `jgf.go` 57-79 |
| `SatisfiesAssumption` | a graph that satisfies a section has a vertex for each plain entry | `sim.go` 138-191 |

TLC evaluates every one of them on the run's fleets, jobs and walks.  `MaxCount`
bounds the cores and nodes of a jobspec, for TLC's sake; the proofs hold for any.

A score is a fraction, so ties are exact; a shuffle followed by a stable sort is
any order in which scores do not increase.  The machine takes one job through
evaluation, ranking, placement, and failing or automatic resubmission of the
reconciler's proposal.

### Artifacts

A fleet may also be described by facts read off nodes; `SubsystemsFromFacts` and
`ContainmentFromFacts` make its graphs.  An artifact is text; kept of it are its
type, the kind of its object, the words that a later check looks for, and what
it claims of a node.  The deterministic transformer makes one artifact per
manager, or an error; the agent's texts are not modelled, only that they may be
anything is (`Outcomes` in `Pipeline`).

### Backends and Server

`Server` looks at one thing: what a crash can come between.  `store` is the table
of job records, `rows` river's table, each row with the locals of the handler
that works on it; both survive `Crash`, but rows are back at their start.
`fleet`, `ledger`, `nextID`, `seq` and `pass` start again.  Sections under
`m.mu` are one step here, since `Pipeline` already splits them.  A handler is
Begin (the record is read), Attempt or Poll (the driver is called), Commit (the
record is written), the insert of the next row, and the completion of this one,
and a crash can come between any two of them.  Job ids are numbers modulo
`IdSpace`, which stands for the four digits of `pad`.

`Backends` is the world that goes on meanwhile: objects with pods that succeed,
fail or vanish.  A batch Job is named by its jobspec, a MiniCluster by jobspec
and job id, a Flux job by the instance.  The two readers of a batch Job,
`readState` and `ownedJobState`, ask about failures in opposite orders and are
modelled as two operators.

The emulators are left out here: without `--dev` the pass places nothing on an
emulated cluster, and a cluster without a real driver that does not ask to be
emulated is refused.  So is the repair stage: the server's default transformer
cannot repair.

## 3. Runs

All runs take at most about three minutes with two workers.

| Run | Checks | Instance, and why it is enough |
|---|---|---|
| `sim_matcher` | TypeOK, NoDoubleBooking, LedgerExact, OneCandidatePerCluster, FreeNowMeansRoom, ImplementsReservations | 2 clusters, 3 containments (none yet, one node, two different nodes), 1 auxiliary subsystem with 2 graphs, 3 jobspecs, 3 ids: registration, replacement by a smaller graph, removal and return all happen under live allocations |
| `pipeline` | TypeOK, OwnAllocation, AllocationsOwned, NoOvertaking | 2 of 4 jobs - two alike that compete for a one-job cluster, one that fits nowhere, one feasible only on an emulated cluster - with racing Submits, one Cancel, FCFS, a store sorted by time, all faults, 1 reschedule, 2 repair attempts.  The two like jobs are symmetric.  Native jobs end as completed only: how they end makes no difference to these properties.  Deadlock is not checked: a lost insert or a discarded stage really strands a job |
| `pipeline_live` | HeldByAStage, RunsReserved, OneAtATime, JobsSettle | 2 of 3 jobs: two that compete for a one-job cluster, one of which can also run on a second, and one that fits nowhere; Backfill, SQLite's order, native jobs that complete or fail, 1 reschedule, 2 repair attempts, 2 river attempts; no faults and no Cancel |
| `inline` | TypeOK, NothingHalfWay, AllocationsOwned, ReleasedForItsJob | 1 cluster that may come, change and go (4 requests, one at a time) while 2 jobs run, one of which needs software; 1 Cancel; submits, status calls and remote cancels may fail |
| `fluxion` | TypeOK, NoOrphanWorkers, NoDeadWorkers, OwnersRegistered | 2 clusters, 1 auxiliary name, 2 calls at once, 3 workers, 2 contexts, 2 grants: replacement, removal and failed starts in any order |
| `placement` | SameAskOfBothMatchers, AnyOfMeansOne, RepackFits, RepackComplete, CoresPreserved, BestFit, StubContract, ViewLoads, DevicesClaimed, VocabularyIsMatched, RequiredIsReal | hand-made fleets of up to 2 clusters of 1 to 3 nodes of 3 shapes, any of them busy, and fleets discovered from 6 kinds of hardware (like and unlike nodes, one and two vendors, unknown values) under every manager; 13 resource trees, 4 sections, images of 5 ages, one jobspec with a forbidden word |
| `server` | TypeOK, RunningIsWatched, NoTwinObjects, SuccessIsSeen, WatchedEnds | 1 submission of 2 pods on a cluster of each kind, 2 river rows, 2 crashes, 1 pod failure, 1 object that vanishes: a dispatch is redelivered twice, and a monitor row doubled.  Also explored, without error: 3 rows; and 2 submissions with 1 crash (2.2 million states, the safety properties).  Deadlock is not checked: the server may have nothing left to do |
| `cancel_final` | CancelFinal, violated | see findings |
| `fails_only_impossible` | FailsOnlyImpossible, violated | see findings |
| `matcher_within_fleet` | MatcherWithinFleet, violated | see findings; 1 cluster, 2 requests at a time |
| `held_until_freed` | HeldUntilFreed, violated | see findings |
| `records_survive` | RecordsSurvive, violated | see findings |

The code's limits (3 reschedules, 3 repair attempts, river's 25 attempts) are
1, 2 and 2 in the runs: the bound is met and passed either way.  `IdSpace`
stands for 10000; what matters is that a number comes back.

Fairness.  In `pipeline_live` the scheduling pass is weakly fair because the
ticker keeps calling Step; a stage is strongly fair because river keeps its
workers running and Go's mutex does not starve a waiter; native jobs end, which
is an assumption on the environment.  Cancel and Submit are not fair.  In
`server` the pass and the work on each row are weakly fair (ticker, workers and
rescuer run; a section under `m.mu` is one step), each cluster is registered
again after a crash (by `--fleet`, or by its owner), and pods succeed in the
end.  Crashes, failures, disappearances and submissions are not fair.

### Findings

1. *Cancel is not final* (`cancel_final`).  The pass reads a job, a Cancel
   completes, the pass writes MATCHED over FAILED, and the job is dispatched.
   Or `failByID` reads the record, the pass writes MATCHED with an allocation,
   `failByID` writes FAILED without one, and nobody frees the allocation.
2. *Jobs fail while a cluster registers* (`fails_only_impossible`).  A pass with
   an empty fleet lets jobs wait; one that runs after the fleet got the new
   cluster and before the cluster has its containment fails them all as
   impossible, for good.
3. *Fluxion allocation ids collide* (`held_until_freed`).  The owner index is
   keyed by the worker's own job number.  With two clusters, or after a
   containment was replaced, Free of one allocation releases another's.
4. *The matcher knows a cluster the fleet lacks* (`matcher_within_fleet`).  The comment
   of RegisterCluster says that the order of its steps rules this out.  It does for one
   request at a time; but an unregistration removes the cluster from the matcher, a
   registration of the same cluster, by a holder of its secret, puts it back in both,
   and the unregistration then removes it from the fleet.
5. *A restart overwrites jobs* (`records_survive`).  The counter of job ids
   starts from 1 with the process and Enqueue is an upsert: the first submission
   after a restart takes the place of job-0001.

The passing runs exempt, where a property says so, only jobs Cancel was called
for, or (in `Server`) ids that were given out twice: a reused id can leave a
RUNNING record without a cluster that is polled forever.

The models show more disagreements between the code and what the repository says,
which no run of this project exhibits as a violation; the properties that pass are
stated so that they do not claim them:

- repacking does not keep the work that reconcile.go:6-10 ("total task count") and
  reconcile.go:128-132 ("total tasks, cores-per-task, GPU need") promise and
  reconcile_test.go:37-40 says of 99 tasks.  Tasks given per slot change in number with
  the nodes (that test's own 99 become 3; it counts cores); a request for nodes without
  cores counts as one core for each; GPUs are kept per node, so their total changes; the
  exclusive flag is dropped.  What holds is that the cores, where cores are asked for,
  and the requirements stay (`CoresPreserved`);
- FCFS is "strict submit order" (policy.go:22) over jobs listed "oldest-first"
  (queue.go:71).  A job stamped before another and enqueued after the pass has read the
  queue is overtaken (manager.go:80-81); and SQLite sorts stamps as text (sqlite.go:68,
  89), where 05.5Z comes after 05.51Z.  What holds is that among the jobs a pass has
  read, over a store sorted by time, none is overtaken (`NoOvertaking`; with
  `TextOrder = TRUE` it fails);
- an allocation "is owned by whatever stage holds the job" (pipeline.go:14), but when
  the insert of the dispatch stage fails, scheduleOnce discards the error and the job
  stays MATCHED with its allocation and no stage (HeldByAStage fails with the fault
  `insert`); a crash between the two writes does the same, which is why
  RunningIsWatched begins with DISPATCHING;
- with insert errors a stage that already submitted is run again by river and submits a
  second native job, so that the allocation of the first may be freed while it runs
  (OneAtATime and RunsReserved fail with it).

Other things the models show, most of them kept under `hazards`:

- a dispatch that is redelivered after a crash finds its object's name taken:
  the job is reported FAILED and its allocation freed while the object runs; on
  Flux, where names are not its own, a second native job is started;
- after a restart the ledger is empty and allocation ids start again, so that
  clusters can be over-committed, and freeing the id of an old record releases
  whatever has it now;
- a transient outcome at river's last attempt strands a job in DISPATCHING, which is
  why JobsSettle has no such outcome; only a test seam produces it
  (runAttempt and runRepair never do);
- a full cluster outranks one with nodes to spare (`BestFit` shows that the
  placement is still right);
- a batch Job is read as failed at its first failed pod although its controller
  goes on, and as completed at its first succeeded pod although others run;
- a batch Job has the name of the jobspec alone, so a second run of one jobspec
  finds the name taken while the first one's object is there;
- of unlike nodes the poorest one's GPUs are claimed, and one node without any
  refuses the job (the comment of DevicesClaimed);
- an architecture that is no name of amd64 or arm is given an amd64 view, which is
  why `ClustersAssumption` leaves such clusters out of ViewLoads.

## 4. Proofs

`SimMatcherProofs` (about 640 obligations) proves, for all clusters, graphs,
subsystems, jobspecs and any number of ids:

- `TypeCorrect`, `NeverDoubleBooked`, `LedgerAlwaysExact`: `Spec => []TypeOK`,
  `[]NoDoubleBooking`, `[]LedgerExact`;
- `SimImplementsReservations`: `Spec => Promise!Spec`;
- `FreeNowIsKept`: `Spec => []FreeNowMeansRoom`.

The inductive invariant is `IInv == TypeOK /\ NoDoubleBooking /\ LedgerExact`.
NoDoubleBooking alone is not inductive: Allocate avoids the *ledger*, so it
needs that the ledger covers what live allocations hold; and Free subtracts a
set from the ledger, so exactness needs that no other allocation shares those
nodes.  `FreeNowIsKept` rests on `FirstNodesCount`: the first k of at least k nodes
are k.  The set of the first k is given by each node's rank, so there is nothing to
induct over: the rank is injective into 0..n-1 (`RankInjective`), hence onto it, and
the first k nodes are those it sends to 0..k-1.  The assumptions used are those of
`SimMatcher` on its constants.

`ServerProofs` (about 1700 obligations) proves, for all clusters and their kinds, submissions, rows, ids
and any number of crashes:

- `TypeCorrect`, `AlwaysWatched`, `NeverTwins`: `Spec => []TypeOK`,
  `[]RunningIsWatched`, `[]NoTwinObjects`;
- `CompletedOnEvidence`: `Spec => []SuccessIsSeen`.

The inductive invariant adds to TypeOK and RunningIsWatched what the handlers
rely on: `PassOK` and `RowsOK` (what the pass and a row name is stored, and what
a worker remembers of a job belongs to that job's receipt), `RecordsKeepIds` (a
record stands under the id its user was given; a stale record that is written
back still does) and `ObjectsNamed` (on Kubernetes the name of an object tells
the submission it was made for, which is why two names differ or the jobs do).
`Persistence` is the lemma that all of these lean on: no step, a crash included,
takes a record or a receipt away.

`SuccessIsSeen` needs an invariant of its own, `Sighted`, of every id given to one
user.  The record that completes and the poll that saw success are kept apart - the
poll works from a handle it read earlier, its answer is written later, and in
between the job may have been dispatched again - so the proof shows that they mean
the same native job.  A record still SUBMITTED has no row and no handle; hence
a pass that writes back its copy, the one step that changes a record's cluster,
finds the job untouched; hence every handle in the record, and in any row of the job,
is on the record's cluster, where on Kubernetes the name is settled by cluster, job
and id.  What was made once is there or is in `gone`, so an answer given because the
object was missing never meets an object made later under that name.
TLC checked `Sighted` on the `server` instance with 2 submissions and 1 crash (2.6
million states) before it was proved.

`PipelineProofs` proves, for all jobs, clusters, room, outcomes, faults, limits and
any number of river workers:

- `TypeCorrect`, `NamesItsOwn`, `NoLeak`: `Spec => []TypeOK`, `[]OwnAllocation`,
  `[]AllocationsOwned`;
- `FirstComeFirstServed`: `Spec => NoOvertaking`, from the assumptions that the
  policy is FCFS (`HeadOfLineBlock`) and the store sorts by time (`~TextOrder`).

The pass takes no lock, so neither ownership property is inductive.  The
strengthening says why it need not: while the pass places a job, the job is in
no stage and owns nothing (`PassOK`, `WaitingIsFree`), so only Cancel can have
changed its record; a job is in at most one stage (`OneStage`), so a stage only
competes with Cancel; and those two exclude each other by `m.mu`, so that what
was read under it is still what the store holds (`LocksOK`).  No overtaking adds
that the pass takes the jobs of its snapshot in order and leaves behind no fresh one
of them that is older than one still to place (`FifoOK`); a job enqueued meanwhile,
whatever its stamp, is not of the snapshot.

`StageProofs` goes on from there to what runs at the clusters:

- `ReservedRuns`, `RunsOnce`: `Spec => []RunsReserved`, `[]OneAtATime`, from the
  assumption that river takes what is inserted (`"insert" \notin Faults`);
- `SomebodyHolds`: `Spec => []HeldByAStage`, if moreover no attempt has a
  transient outcome, which river answers by discarding the stage in the end.

With those faults the properties do fail (section 3).  The invariant `SInv`
follows a native job through the stages of its job: before a submit none can run
(`Unstarted`), between the submit and the write only the one whose handle the
stage remembers (`Submitting`), after it only the one the record names
(`Watching`); a handle is written back as it was (`HandlesStill`), and a stage of a
job has the allocation and the cluster it works with (`ReservedOK`).

`FluxionProofs` proves, for all clusters, subsystem names, graphs and calls in
flight:

- `TypeCorrect`, `NoOrphans`, `NoneDead`, `OwnersForgotten`: `Spec => []TypeOK`,
  `[]NoOrphanWorkers`, `[]NoDeadWorkers`, `[]OwnersRegistered`.

Here the invariant is that running and being held are the same thing, and that a
worker has one holder, a registered cluster or a call in flight (`OneHolder`),
which has a worker of its own for each subsystem (`OwnSlots`): so close, which
kills all workers of the old holder, kills nobody else's.

`InlineProofs` (about 2400 obligations) proves, for all clusters, graphs, jobs,
configurations and any number of requests in flight:

- `TypeCorrect`, `NeverHalfWay`, `AlwaysOwned`: `Spec => []TypeOK`,
  `[]NothingHalfWay`, `[]AllocationsOwned`;
- `NeverReleasedForAnother`: `Spec => ReleasedForItsJob`;
- `MatcherImplemented`: `Spec => Matcher!Spec`, so the ledger is exact and no node
  is given out twice inside the manager too.

The ticker works on copies of records and takes no lock, so nothing about an
allocation is inductive without saying how old a copy may be.  `IInv` (in
`InlineInvariant`) does: `LoopKnows` says that between two steps a copy still
shows state and allocation of its job unless a client has cancelled that job,
because nobody but the ticker and Cancel writes a record; `LoopRecs` and
`RequestOK` say that whatever copy is used, the allocation in it was granted to
its job, which makes every Free release the right one even where the copy is
stale; `Holdings` says at which step of the ticker an allocation is in its
hands, and `Locked` who is inside failByID.  The matcher is reused by INSTANCE,
and so are its proofs: `NextMatcher` shows each step of the manager to be one of
the matcher's, and the invariants of `SimMatcherProofs` come with it.

`OrderLemmas` is about the sequence in which both matchers visit their clusters:
appending a new id and removing one by RemoveFirst keep it a list of the
registered ids without repetition.  With it, `EachVisitedOnce` in
`SimMatcherProofs` is `Spec => []OneCandidatePerCluster`.

`PlacementProofs` (about 1300 obligations) proves, for all fleets, jobs, scorers and
walks that keep the assumptions of section 2:

- `CoresKept`, `ProposalsFit`, `FailsOnlyUnrepackable`: `SpecA => []CoresPreserved`,
  `[]RepackFits`, `[]RepackComplete`;
- `WastesLeast`: `SpecA => []BestFit`;
- `ArtifactsAccepted`, `DevicesSuffice`, `MountsWhatLoads`: `SpecA => []StubContract`,
  `[]DevicesClaimed`, `[]ViewLoads`;
- `RequirementsReal`: `SpecA => []RequiredIsReal`.

The inductive invariant says what a later step still knows of an earlier one.
`JobKept`: a job is resubmitted with other resources and nothing else changed, and
they come to as many cores (an exact division loses none, `ExactDivision`).
`FoundKept`: nodes become busy only with the placement, so what was found out about
a cluster holds until it is decided on.  `RankedKept`: no cluster with room was
passed over, and those left are in order of their scores; a cluster may be passed
over only if it had no room, whatever its score promised.  Between two clusters with
room the scores decide by surplus alone, since both match every requirement
(`ScoresOrder`: cross-multiplied fractions, so the order is exact).  `ArtifactKept`
ties the artifact to the cluster and job it was made for.  That a proposal fits
needs that the shape has as many nodes as the split takes, and all of these have the
shape's capacity (`RepackFits` proper); that none is missed needs that any even
sharing the reader can name is one of the divisors tried.  For `RequirementsReal` the chain
is followed backwards: the graph that satisfied the section has a vertex for its
plain entry, discovery made that graph with one value, and no node has another
(`UniformValue`; for memory the bucket of the smallest node, whose floor is below
every node's).  TLC checked the invariant on the `placement` instance before it was
proved.

The assumptions on constants are those the modules name: sizes are naturals,
`Names` of Fluxion is finite (a map of a running program), and `None`, which stands
for nil, is not one of the things it stands in for.

Only model-checked: liveness under fairness, with ENABLED (`JobsSettle`,
`WatchedEnds`; of `Promise!Spec` the safety is proved), and what the recursive walks of
`ResourceTrees` compute: `SameAskOfBothMatchers` and `AnyOfMeansOne` compare two
walks over one tree, and `VocabularyIsMatched` says that one walk finds what another
listed.  That the walks keep the assumptions above is model-checked too.
These would need induction over trees, which this prover does not do.

## 5. Not modelled

- The agent that writes and repairs artifacts (`pkg/transform/agent.go`): what it
  may answer is the set `Outcomes`.
- The wording of artifacts, notes and logs; HTTP and command line decoding, the
  Python client, Explain and the scoring trace.
- The wire protocols of Kubernetes and Flux, connections and credentials; river's
  engine start-up, migrations and worker counts; the SQL and JSON encodings.
- The emulators' timers, and Postgres against SQLite: both stores are one table
  with atomic rows.
- Mixed faults: `Server` has crashes without Cancel or driver errors, `Pipeline`
  the reverse.

`components` in `PROJECT.json` says for each part what is and is not covered.

## 6. Plan

Done: the matcher and its promise, the staged pipeline, the inline manager, the
Fluxion matcher, placement, artifacts, and the durable server.  What is left:

- Cancel and driver errors in `Server`, whose state space now stops at crashes;
- what the agent may do to a jobspec, if it ever gets a contract to be checked;
- the emulators' timers, for a server started with `--dev`.
