------------------------------ MODULE Pipeline ------------------------------
(***************************************************************************)
(* The staged job pipeline over a fixed fleet: the scheduling pass          *)
(* (manager.go, scheduleOnce), the dispatch, repair and monitor stages run  *)
(* by river workers (pipeline.go, river.go) and the Cancel API, all on one  *)
(* job store and one matcher.                                               *)
(*                                                                          *)
(* Granularity.  Stage handlers and Cancel read and write the store inside  *)
(* m.mu, and call drivers outside it; scheduleOnce never takes m.mu.  So a  *)
(* locked section is two steps, Get under a free lock and Update releasing  *)
(* it, and a scheduling pass is one step per store, matcher or river call.  *)
(* Free, which the code calls between the two, is part of the second.       *)
(* Submit, which holds no lock while it stamps the job and enqueues it, is  *)
(* two steps as well: handlers of the API run concurrently.                 *)
(*                                                                          *)
(* A job record keeps what control depends on.  Its note is only the flag   *)
(* "waiting", the one text setNote compares before writing.                 *)
(***************************************************************************)
EXTENDS Naturals, FiniteSets, Sequences

CONSTANTS
  Jobs,                 \* jobs that may be submitted
  Clusters,             \* the registered clusters
  Feasible,             \* job -> clusters Evaluate finds feasible for it
  Dispatchable,         \* clusters that are not emulated
  Room,                 \* cluster -> jobs it can hold at once
  HeadOfLineBlock,      \* the policy: TRUE is FCFS, FALSE is Backfill
  TextOrder,            \* the store sorts stamps as text: TRUE is SQLite
  Clock,                \* the stamps given, earliest first: see TextBefore
  Outcomes,             \* what a dispatch or repair attempt may come to
  EndStates,            \* how native jobs may end
  MaxSubmits,           \* how many of the jobs clients submit
  MaxReschedules,       \* maxReschedules
  RepairMaxAttempts,    \* repairMaxAttempts
  StageMaxAttempts,     \* river's default for the other stages
  Faults,               \* the faults that may happen, see FaultKinds
  MaxCancels,           \* how many jobs clients may call Cancel for
  Slots,                \* places for river jobs
  None                  \* the empty string, and "no such record"

AllOutcomes == {"success", "repairable", "wrongTarget", "transient", "hardFail"}

\* status, remoteCancel: the driver call returns an error.  insert: a river
\* Insert returns an error.
FaultKinds == {"status", "remoteCancel", "insert"}

Digit == 0..9

ASSUME PipelineAssumption ==
  /\ Feasible \in [Jobs -> SUBSET Clusters] /\ Dispatchable \subseteq Clusters
  /\ Room \in [Clusters -> Nat] /\ HeadOfLineBlock \in BOOLEAN
  /\ TextOrder \in BOOLEAN /\ Clock \in Seq(Seq(Digit))
  /\ Outcomes \subseteq AllOutcomes /\ Faults \subseteq FaultKinds
  /\ EndStates \subseteq {"COMPLETED", "FAILED"} /\ EndStates # {}
  /\ MaxSubmits \in Nat /\ MaxReschedules \in Nat /\ MaxCancels \in Nat
  /\ RepairMaxAttempts \in Nat \ {0} /\ StageMaxAttempts \in Nat \ {0}
  /\ Slots \subseteq Nat \ {0} /\ None \notin Jobs \cup Clusters \cup Nat

VARIABLES
  queue,      \* job -> its record, or None before Enqueue
  arrival,    \* jobs in order of SubmittedAt
  live,       \* allocation id -> [job, cluster]
  nextID,     \* allocation ids minted
  remote,     \* handle -> [job, cluster, state], the native jobs
  mu,         \* holder of m.mu, or None
  sched,      \* the scheduling pass
  tasks,      \* slot -> river job, or None
  canceller,  \* the client in Cancel
  cancelReq   \* jobs Cancel was called for

vars == <<queue, arrival, live, nextID, remote, mu, sched, tasks, canceller,
          cancelReq>>

JobStates == {"SUBMITTED", "MATCHED", "DISPATCHING", "RUNNING", "COMPLETED", "FAILED"}

Terminal(st) == st \in {"COMPLETED", "FAILED"}

Job == [state : JobStates, alloc : Nat \cup {None}, cluster : Clusters \cup {None},
        handle : Nat \cup {None}, reschedules : 0..MaxReschedules, waiting : BOOLEAN]

NewJob == [state |-> "SUBMITTED", alloc |-> None, cluster |-> None,
           handle |-> None, reschedules |-> 0, waiting |-> FALSE]

Put(f, x, v) == [y \in DOMAIN f \cup {x} |-> IF y = x THEN v ELSE f[y]]

Drop(f, S) == [y \in DOMAIN f \ S |-> f[y]]

\* The locked sections a handler can end in.
Sections == {"running", "keep", "fail", "reschedule", "observe"}

\* What the drivers report of a native job.
NativeStates == {"RUNNING", "COMPLETED", "FAILED"}

Allocation == [job : Jobs, cluster : Clusters]
NativeJob == [job : Jobs, cluster : Clusters, state : NativeStates]

\* snapshot is what the pass read of the queue, prov the part still to try.
Pass == [pc : {"idle", "get", "fail", "note", "place", "update", "insert"},
         snapshot : SUBSET Jobs, prov : SUBSET Jobs, job : Jobs \cup {None}, rec : Job,
         left : SUBSET Clusters, alloc : Nat \cup {None}, cluster : Clusters \cup {None}]

Caller == [pc : {"idle", "remote", "lock", "commit"}, job : Jobs \cup {None}, rec : Job]

Idle == [pc |-> "idle", snapshot |-> {}, prov |-> {}, job |-> None, rec |-> NewJob,
         left |-> {}, alloc |-> None, cluster |-> None]

\* The client as a holder of m.mu.
Client == 0

NoClient == [pc |-> "idle", job |-> None, rec |-> NewJob]

\* A river job waiting for a worker.  rec (the copy of the job), todo (the
\* locked section to come), handle and status are the handler's locals.
NewTask(stage, j) ==
  [stage |-> stage, job |-> j, attempt |-> 1, pc |-> "ready", rec |-> NewJob,
   todo |-> None, handle |-> None, status |-> "RUNNING"]

Task ==
  [stage : {"dispatch", "repair", "monitor"}, job : Jobs, attempt : Nat \ {0},
   pc : {"ready", "mark", "attempt", "peek", "cancelRemote", "status", "lock",
         "commit", "insert"},
   rec : Job, todo : Sections \cup {None},
   handle : Nat \cup {None}, status : NativeStates]

ASSUME NoneAssumption == None \notin Job /\ None \notin Task /\ None \notin Sections

MaxAttempts(t) == IF t.stage = "repair" THEN RepairMaxAttempts ELSE StageMaxAttempts

Init ==
  /\ queue = [j \in Jobs |-> None] /\ arrival = <<>>
  /\ live = <<>> /\ nextID = 0 /\ remote = <<>> /\ mu = None
  /\ sched = Idle /\ tasks = [s \in Slots |-> None]
  /\ canceller = NoClient /\ cancelReq = {}

Stamped(j) == \E m \in DOMAIN arrival : arrival[m] = j

\* Submit takes the job's SubmittedAt ...
SubmitStamp(j) ==
  /\ ~Stamped(j) /\ Len(arrival) < MaxSubmits
  /\ arrival' = Append(arrival, j)
  /\ UNCHANGED <<queue, live, nextID, remote, mu, sched, tasks, canceller, cancelReq>>

\* ... and writes the record; another Submit may have done both in between.
SubmitEnqueue(j) ==
  /\ Stamped(j) /\ queue[j] = None
  /\ queue' = [queue EXCEPT ![j] = NewJob]
  /\ UNCHANGED <<arrival, live, nextID, remote, mu, sched, tasks, canceller, cancelReq>>

-----------------------------------------------------------------------------
(* The matcher and the drivers, as the pipeline uses them *)

HasRoom(c) == Cardinality({a \in DOMAIN live : live[a].cluster = c}) < Room[c]

\* MUTANT: the record is cleared and Free is not called.
LedgerNotFreed(rec) == live

\* MUTANT: Free is called and the record still names the allocation.
RecordNotCleared(rec) == rec

\* freeLocked: Free the allocation the record names and clear the name.
FreedLedger(rec) == Drop(live, {rec.alloc})
FreedRecord(rec) == [rec EXCEPT !.alloc = None]

\* Driver.Cancel.  What Status says of a cancelled job depends on the backend:
\* Kubernetes reports a deleted object as completed, the others as failed.
StopRemote(h) ==
  \/ /\ remote[h].state = "RUNNING"
     /\ \E st \in EndStates : remote' = [remote EXCEPT ![h].state = st]
  \/ remote[h].state # "RUNNING" /\ UNCHANGED remote
  \/ "remoteCancel" \in Faults /\ UNCHANGED remote

\* The native job ends by itself.
RemoteFinish(h) ==
  /\ remote[h].state = "RUNNING"
  /\ \E st \in EndStates : remote' = [remote EXCEPT ![h].state = st]
  /\ UNCHANGED <<queue, arrival, live, nextID, mu, sched, tasks, canceller, cancelReq>>

-----------------------------------------------------------------------------
(* scheduleOnce: no m.mu anywhere *)

\* k was stamped before j.
Before(k, j) ==
  \E m, n \in DOMAIN arrival : m < n /\ arrival[m] = k /\ arrival[n] = j

\* A stamp is the digits of its fraction of a second, no zero at their end, as
\* time.RFC3339Nano writes them: the "Z" that follows sorts after every digit.
TextBefore(a, b) ==
  LET char(digits, n) == IF n <= Len(digits) THEN digits[n] ELSE 10
  IN \E n \in 1..(Len(a) + Len(b)) :
       /\ char(a, n) < char(b, n)
       /\ \A m \in 1..(n - 1) : char(a, m) = char(b, m)

\* The store lists k before j.
ListedBefore(k, j) ==
  IF TextOrder
    THEN \E m, n \in DOMAIN arrival :
           arrival[m] = k /\ arrival[n] = j /\ TextBefore(Clock[m], Clock[n])
    ELSE Before(k, j)

Provisional == {j \in Jobs : queue[j] # None /\ queue[j].state = "SUBMITTED"}

\* The next job of prov, in the order the store listed them: one, as arrival
\* repeats none and no two stamps are equal.
First(prov) == {j \in prov : \A k \in prov : ~ListedBefore(k, j)}

\* The pass over snapshot goes on to the next job, or ends.
Advance(snapshot, prov) ==
  IF prov = {} THEN Idle
  ELSE [Idle EXCEPT !.pc = "get", !.snapshot = snapshot, !.prov = prov]

SchedSnapshot ==
  /\ sched.pc = "idle" /\ Provisional # {}
  /\ sched' = Advance(Provisional, Provisional)
  /\ UNCHANGED <<queue, arrival, live, nextID, remote, mu, tasks, canceller, cancelReq>>

\* MUTANT: a job noted as waiting is not tried again.
SchedGetSkippingWaiting(j) ==
  /\ sched.pc = "get" /\ j \in First(sched.prov)
  /\ LET targets == Feasible[j] \cap Dispatchable
     IN sched' = IF queue[j].state # "SUBMITTED" \/ queue[j].waiting
                   THEN Advance(sched.snapshot, sched.prov \ {j})
                   ELSE [sched EXCEPT !.job = j, !.rec = queue[j], !.left = targets,
                           !.pc = IF Feasible[j] = {} THEN "fail"
                                  ELSE IF targets = {} THEN "note" ELSE "place"]
  /\ UNCHANGED <<queue, arrival, live, nextID, remote, mu, tasks, canceller, cancelReq>>

\* Re-read the job, skip it unless still submitted, Evaluate, filter.
SchedGet(j) ==
  /\ sched.pc = "get" /\ j \in First(sched.prov)
  /\ LET targets == Feasible[j] \cap Dispatchable
     IN sched' = IF queue[j].state # "SUBMITTED" THEN Advance(sched.snapshot, sched.prov \ {j})
                 ELSE [sched EXCEPT !.job = j, !.rec = queue[j], !.left = targets,
                         !.pc = IF Feasible[j] = {} THEN "fail"
                                ELSE IF targets = {} THEN "note" ELSE "place"]
  /\ UNCHANGED <<queue, arrival, live, nextID, remote, mu, tasks, canceller, cancelReq>>

\* failInfeasible, without a reconciler: the whole record read earlier is
\* written back.
SchedFail ==
  /\ sched.pc = "fail"
  /\ queue' = [queue EXCEPT ![sched.job] =
                 [sched.rec EXCEPT !.state = "FAILED", !.waiting = FALSE]]
  /\ sched' = Advance(sched.snapshot, sched.prov \ {sched.job})
  /\ UNCHANGED <<arrival, live, nextID, remote, mu, tasks, canceller, cancelReq>>

\* Matcher.Allocate on the next cluster of the ranking, which is any order.
SchedAllocate(c) ==
  /\ sched.pc = "place" /\ c \in sched.left
  /\ IF HasRoom(c)
       THEN /\ nextID' = nextID + 1
            /\ live' = Put(live, nextID + 1, [job |-> sched.job, cluster |-> c])
            /\ sched' = [sched EXCEPT !.pc = "update", !.alloc = nextID + 1, !.cluster = c]
       ELSE /\ sched' = [sched EXCEPT !.left = @ \ {c},
                           !.pc = IF sched.left = {c} THEN "note" ELSE "place"]
            /\ UNCHANGED <<live, nextID>>
  /\ UNCHANGED <<queue, arrival, remote, mu, tasks, canceller, cancelReq>>

SchedUpdate ==
  /\ sched.pc = "update"
  /\ queue' = [queue EXCEPT ![sched.job] =
       [sched.rec EXCEPT !.state = "MATCHED", !.alloc = sched.alloc,
                         !.cluster = sched.cluster, !.waiting = FALSE]]
  /\ sched' = [sched EXCEPT !.pc = "insert", !.alloc = None]
  /\ UNCHANGED <<arrival, live, nextID, remote, mu, tasks, canceller, cancelReq>>

\* RiverDispatcher.Dispatch; its error is discarded.
SchedDispatch ==
  /\ sched.pc = "insert"
  /\ \/ \E s \in Slots : /\ tasks[s] = None
                         /\ \A r \in Slots : tasks[r] = None => s <= r
                         /\ tasks' = [tasks EXCEPT ![s] = NewTask("dispatch", sched.job)]
     \/ "insert" \in Faults /\ UNCHANGED tasks
  /\ sched' = Advance(sched.snapshot, sched.prov \ {sched.job})
  /\ UNCHANGED <<queue, arrival, live, nextID, remote, mu, canceller, cancelReq>>

\* MUTANT: FCFS goes on behind a blocked job.
SchedNoteWithoutBlock ==
  /\ sched.pc = "note"
  /\ queue' = IF sched.rec.waiting THEN queue
              ELSE [queue EXCEPT ![sched.job] = [sched.rec EXCEPT !.waiting = TRUE]]
  /\ sched' = Advance(sched.snapshot, sched.prov \ {sched.job})
  /\ UNCHANGED <<arrival, live, nextID, remote, mu, tasks, canceller, cancelReq>>

\* setNote writes the record read earlier, if the note changes; under FCFS
\* the job blocks the ones behind it.
SchedNote ==
  /\ sched.pc = "note"
  /\ queue' = IF sched.rec.waiting THEN queue
              ELSE [queue EXCEPT ![sched.job] = [sched.rec EXCEPT !.waiting = TRUE]]
  /\ sched' = IF HeadOfLineBlock THEN Idle ELSE Advance(sched.snapshot, sched.prov \ {sched.job})
  /\ UNCHANGED <<arrival, live, nextID, remote, mu, tasks, canceller, cancelReq>>

Sched ==
  \/ SchedSnapshot \/ SchedFail
  \/ \E j \in Jobs : SchedGet(j)
  \/ \E c \in Clusters : SchedAllocate(c)
  \/ SchedUpdate \/ SchedDispatch \/ SchedNote

-----------------------------------------------------------------------------
(* Stage handlers, run by a river worker on the job in slot s *)

At(s, pc) == tasks[s] # None /\ tasks[s].pc = pc

Local(s, t) == tasks' = [tasks EXCEPT ![s] = t]

\* Work returned an error: river runs the job again, up to its limit.
Retry(t) == IF t.attempt < MaxAttempts(t)
              THEN [NewTask(t.stage, t.job) EXCEPT !.attempt = t.attempt + 1]
              ELSE None

\* handleDispatch, first locked section.
DispatchBegin(s) ==
  /\ At(s, "ready") /\ tasks[s].stage = "dispatch" /\ mu = None
  /\ LET rec == queue[tasks[s].job]
     IN IF Terminal(rec.state)
          THEN Local(s, None) /\ UNCHANGED mu
          ELSE /\ Local(s, [tasks[s] EXCEPT !.pc = "mark", !.rec = rec])
               /\ mu' = s
  /\ UNCHANGED <<queue, arrival, live, nextID, remote, sched, canceller, cancelReq>>

DispatchMark(s) ==
  /\ At(s, "mark")
  /\ LET rec == [tasks[s].rec EXCEPT !.state = "DISPATCHING"]
     IN /\ queue' = [queue EXCEPT ![tasks[s].job] = rec]
        /\ Local(s, [tasks[s] EXCEPT !.pc = "attempt", !.rec = rec])
  /\ mu' = None
  /\ UNCHANGED <<arrival, live, nextID, remote, sched, canceller, cancelReq>>

\* handleRepair reads the job and marks nothing.
RepairBegin(s) ==
  /\ At(s, "ready") /\ tasks[s].stage = "repair" /\ mu = None
  /\ LET rec == queue[tasks[s].job]
     IN Local(s, IF Terminal(rec.state) THEN None
                 ELSE [tasks[s] EXCEPT !.pc = "attempt", !.rec = rec])
  /\ UNCHANGED <<queue, arrival, live, nextID, remote, mu, sched, canceller, cancelReq>>

\* MUTANT: an exhausted repair is left to river, which discards it.
RoutedWithoutExhaustion(t, outcome) ==
  CASE outcome = "success" -> [t EXCEPT !.pc = "lock", !.todo = "running"]
    [] outcome = "wrongTarget" -> [t EXCEPT !.pc = "peek", !.todo = "reschedule"]
    [] outcome = "repairable" -> [t EXCEPT !.pc = "lock", !.todo = "keep"]
    [] outcome = "transient" /\ t.stage = "dispatch" -> Retry(t)
    [] OTHER -> [t EXCEPT !.pc = "lock", !.todo = "fail"]

\* The switch on the outcome: which locked section follows, or a retry.
Routed(t, outcome) ==
  CASE outcome = "success" -> [t EXCEPT !.pc = "lock", !.todo = "running"]
    [] outcome = "wrongTarget" -> [t EXCEPT !.pc = "peek", !.todo = "reschedule"]
    [] outcome = "repairable" /\ (t.stage = "dispatch" \/ t.attempt < MaxAttempts(t))
         -> [t EXCEPT !.pc = "lock", !.todo = "keep"]
    [] outcome = "transient" /\ t.stage = "dispatch" -> Retry(t)
    [] OTHER -> [t EXCEPT !.pc = "lock", !.todo = "fail"]

\* runAttempt and runRepair, unlocked.  Only a submit that succeeds leaves a
\* native job behind; an unassigned cluster is a hard failure.
Attempt(s) ==
  /\ At(s, "attempt")
  /\ LET c == tasks[s].rec.cluster
         t == [tasks[s] EXCEPT !.rec = NewJob]
         h == Cardinality(DOMAIN remote) + 1
     IN IF c = None
          THEN Local(s, Routed(t, "hardFail")) /\ UNCHANGED remote
          ELSE \/ /\ "success" \in Outcomes
                  /\ remote' = Put(remote, h, [job |-> t.job, cluster |-> c,
                                               state |-> "RUNNING"])
                  /\ Local(s, [Routed(t, "success") EXCEPT !.handle = h])
               \/ \E outcome \in Outcomes \ {"success"} :
                    Local(s, Routed(t, outcome)) /\ UNCHANGED remote
  /\ UNCHANGED <<queue, arrival, live, nextID, mu, sched, canceller, cancelReq>>

\* reschedule, first locked section: only the handle is read.
ReschedulePeek(s) ==
  /\ At(s, "peek") /\ mu = None
  /\ LET h == queue[tasks[s].job].handle
     IN Local(s, [tasks[s] EXCEPT !.handle = h,
                    !.pc = IF h = None THEN "lock" ELSE "cancelRemote"])
  /\ UNCHANGED <<queue, arrival, live, nextID, remote, mu, sched, canceller, cancelReq>>

RescheduleCancel(s) ==
  /\ At(s, "cancelRemote")
  /\ StopRemote(tasks[s].handle)
  /\ Local(s, [tasks[s] EXCEPT !.pc = "lock"])
  /\ UNCHANGED <<queue, arrival, live, nextID, mu, sched, canceller, cancelReq>>

\* handleMonitor, first locked section: the handle to poll is read.
MonitorBegin(s) ==
  /\ At(s, "ready") /\ tasks[s].stage = "monitor" /\ mu = None
  /\ LET rec == queue[tasks[s].job]
     IN Local(s, IF Terminal(rec.state) THEN None
                 ELSE [tasks[s] EXCEPT !.handle = rec.handle,
                         !.pc = IF rec.handle = None THEN "insert" ELSE "status"])
  /\ UNCHANGED <<queue, arrival, live, nextID, remote, mu, sched, canceller, cancelReq>>

\* Driver.Status, unlocked; on an error the poll is repeated later.
MonitorStatus(s) ==
  /\ At(s, "status")
  /\ \/ Local(s, [tasks[s] EXCEPT !.pc = "lock", !.todo = "observe",
                    !.status = remote[tasks[s].handle].state])
     \/ /\ "status" \in Faults
        /\ Local(s, [tasks[s] EXCEPT !.pc = "insert"])
  /\ UNCHANGED <<queue, arrival, live, nextID, remote, mu, sched, canceller, cancelReq>>

\* The last locked section of a handler: Get ...
Lock(s) ==
  /\ At(s, "lock") /\ mu = None
  /\ mu' = s
  /\ Local(s, [tasks[s] EXCEPT !.pc = "commit", !.rec = queue[tasks[s].job]])
  /\ UNCHANGED <<queue, arrival, live, nextID, remote, sched, canceller, cancelReq>>

\* ... and Update.  rec is the record just read.
Commit(s, todo, rec, next) ==
  /\ At(s, "commit") /\ tasks[s].todo = todo
  /\ queue' = [queue EXCEPT ![tasks[s].job] = rec]
  /\ Local(s, next)
  /\ mu' = None
  /\ UNCHANGED <<arrival, nextID, remote, sched, canceller, cancelReq>>

ThenInsert(s) == [tasks[s] EXCEPT !.pc = "insert", !.rec = NewJob]

\* A submit succeeded: running under its handle, the monitor stage follows.
CommitRunning(s) ==
  /\ Commit(s, "running",
            [tasks[s].rec EXCEPT !.state = "RUNNING", !.handle = tasks[s].handle,
                                 !.waiting = FALSE],
            ThenInsert(s))
  /\ UNCHANGED live

\* A rejected artifact: the allocation is kept for the repair stage.
CommitKeep(s) ==
  /\ Commit(s, "keep", [tasks[s].rec EXCEPT !.waiting = FALSE],
            IF tasks[s].stage = "dispatch" THEN ThenInsert(s) ELSE Retry(tasks[s]))
  /\ UNCHANGED live

\* failByID.
CommitFail(s) ==
  /\ Commit(s, "fail",
            [FreedRecord(tasks[s].rec) EXCEPT !.state = "FAILED", !.waiting = FALSE],
            None)
  /\ live' = FreedLedger(tasks[s].rec)

\* MUTANT: one hand-back too many.
CommitRescheduleOffByOne(s) ==
  /\ LET rec == [FreedRecord(tasks[s].rec) EXCEPT !.handle = None, !.waiting = FALSE]
     IN Commit(s, "reschedule",
               IF rec.reschedules > MaxReschedules
                 THEN [rec EXCEPT !.state = "FAILED"]
                 ELSE [rec EXCEPT !.state = "SUBMITTED", !.cluster = None,
                                  !.reschedules = @ + 1],
               None)
  /\ live' = FreedLedger(tasks[s].rec)

\* reschedule, second locked section: back to scheduling, a bounded number
\* of times.
CommitReschedule(s) ==
  /\ LET rec == [FreedRecord(tasks[s].rec) EXCEPT !.handle = None, !.waiting = FALSE]
     IN Commit(s, "reschedule",
               IF rec.reschedules + 1 > MaxReschedules
                 THEN [rec EXCEPT !.state = "FAILED"]
                 ELSE [rec EXCEPT !.state = "SUBMITTED", !.cluster = None,
                                  !.reschedules = @ + 1],
               None)
  /\ live' = FreedLedger(tasks[s].rec)

\* MUTANT: the allocation is freed on every poll.
CommitObserveFreeing(s) ==
  LET st == tasks[s].status
      rec == [tasks[s].rec EXCEPT !.state = st, !.waiting = FALSE]
  IN /\ Commit(s, "observe", FreedRecord(rec), IF Terminal(st) THEN None ELSE ThenInsert(s))
     /\ live' = FreedLedger(rec)

\* handleMonitor, second locked section.
CommitObserve(s) ==
  LET st == tasks[s].status
      rec == [tasks[s].rec EXCEPT !.state = st, !.waiting = FALSE]
  IN /\ Commit(s, "observe", IF Terminal(st) THEN FreedRecord(rec) ELSE rec,
               IF Terminal(st) THEN None ELSE ThenInsert(s))
     /\ live' = IF Terminal(st) THEN FreedLedger(rec) ELSE live

\* MUTANT: a repaired job goes through dispatch again, as the diagram at
\* river.go:8 draws it, although repair has already submitted it.
NextStageAsDrawn(t) ==
  CASE t.stage = "dispatch" /\ t.todo = "keep" -> "repair"
    [] t.stage = "repair" -> "dispatch"
    [] OTHER -> "monitor"

\* enqueueStage, and the monitor's re-insert: the next stage's river job takes
\* the place of this one, which is done.
NextStage(t) == IF t.stage = "dispatch" /\ t.todo = "keep" THEN "repair" ELSE "monitor"

Insert(s) ==
  /\ At(s, "insert")
  /\ \/ Local(s, NewTask(NextStage(tasks[s]), tasks[s].job))
     \/ "insert" \in Faults /\ Local(s, Retry(tasks[s]))
  /\ UNCHANGED <<queue, arrival, live, nextID, remote, mu, sched, canceller, cancelReq>>

Stage(s) ==
  \/ DispatchBegin(s) \/ DispatchMark(s) \/ RepairBegin(s) \/ Attempt(s)
  \/ ReschedulePeek(s) \/ RescheduleCancel(s) \/ MonitorBegin(s) \/ MonitorStatus(s)
  \/ Lock(s) \/ CommitRunning(s) \/ CommitKeep(s) \/ CommitFail(s)
  \/ CommitReschedule(s) \/ CommitObserve(s) \/ Insert(s)

-----------------------------------------------------------------------------
(* Cancel, called by a client once per job *)

CancelBegin(j) ==
  /\ canceller.pc = "idle" /\ mu = None
  /\ j \notin cancelReq /\ Cardinality(cancelReq) < MaxCancels /\ queue[j] # None /\ ~Terminal(queue[j].state)
  /\ canceller' = IF queue[j].handle # None /\ queue[j].cluster # None
                    THEN [pc |-> "remote", job |-> j, rec |-> queue[j]]
                    ELSE [pc |-> "lock", job |-> j, rec |-> NewJob]
  /\ cancelReq' = cancelReq \cup {j}
  /\ UNCHANGED <<queue, arrival, live, nextID, remote, mu, sched, tasks>>

\* Best effort: an error only changes the note.
CancelRemote ==
  /\ canceller.pc = "remote"
  /\ StopRemote(canceller.rec.handle)
  /\ canceller' = [canceller EXCEPT !.pc = "lock", !.rec = NewJob]
  /\ UNCHANGED <<queue, arrival, live, nextID, mu, sched, tasks, cancelReq>>

\* failByID.
CancelLock ==
  /\ canceller.pc = "lock" /\ mu = None
  /\ mu' = Client
  /\ canceller' = [canceller EXCEPT !.pc = "commit", !.rec = queue[canceller.job]]
  /\ UNCHANGED <<queue, arrival, live, nextID, remote, sched, tasks, cancelReq>>

CancelCommit ==
  /\ canceller.pc = "commit"
  /\ queue' = [queue EXCEPT ![canceller.job] =
       [FreedRecord(canceller.rec) EXCEPT !.state = "FAILED", !.waiting = FALSE]]
  /\ live' = FreedLedger(canceller.rec)
  /\ mu' = None
  /\ canceller' = NoClient
  /\ UNCHANGED <<arrival, nextID, remote, sched, tasks, cancelReq>>

Cancel ==
  \/ \E j \in Jobs : CancelBegin(j)
  \/ CancelRemote \/ CancelLock \/ CancelCommit

-----------------------------------------------------------------------------

\* Every submitted job is at rest and no other will come; the system idles.
Quiet ==
  /\ \A j \in Jobs : IF Stamped(j) THEN queue[j] # None /\ Terminal(queue[j].state)
                     ELSE Len(arrival) = MaxSubmits
  /\ UNCHANGED vars

Next ==
  \/ \E j \in Jobs : SubmitStamp(j) \/ SubmitEnqueue(j)
  \/ Sched
  \/ \E s \in Slots : Stage(s)
  \/ \E h \in DOMAIN remote : RemoteFinish(h)
  \/ Cancel
  \/ Quiet

\* The ticker keeps running passes, river keeps its workers running, native
\* jobs end.  Strong fairness for the stages because Go's mutex does not
\* starve a waiter.
Fairness ==
  /\ WF_vars(Sched)
  /\ \A s \in Slots : SF_vars(Stage(s))
  /\ \A h \in 1..(Cardinality(Jobs) * (MaxReschedules + 1)) :
       WF_vars(h \in DOMAIN remote /\ RemoteFinish(h))

Spec == Init /\ [][Next]_vars

FairSpec == Spec /\ Fairness

-----------------------------------------------------------------------------
(* Properties *)

\* Records, locals and river jobs are well formed; in particular no job is
\* ever handed back more than maxReschedules times (pipeline.go:45-48, 325).
TypeOK ==
  /\ queue \in [Jobs -> Job \cup {None}]
  /\ nextID \in Nat
  /\ \A a \in DOMAIN live : a \in 1..nextID /\ live[a] \in Allocation
  /\ remote \in [DOMAIN remote -> NativeJob]
  /\ DOMAIN remote \subseteq Nat /\ IsFiniteSet(DOMAIN remote)
  /\ mu \in Slots \cup {Client, None}
  /\ tasks \in [Slots -> Task \cup {None}]
  /\ \A s \in Slots : tasks[s] # None => tasks[s].attempt <= MaxAttempts(tasks[s])
  /\ sched \in Pass /\ canceller \in Caller
  /\ cancelReq \subseteq Jobs

Submitted(j) == queue[j] # None

\* A record names only a live allocation of its own job on its own cluster,
\* and a finished job names none, through every interleaving of the pass, the
\* stages and Cancel: so nothing is freed twice (freeLocked, pipeline.go:137).
OwnAllocation ==
  \A j \in Jobs : Submitted(j) /\ queue[j].alloc # None =>
    /\ queue[j].alloc \in DOMAIN live
    /\ live[queue[j].alloc] = [job |-> j, cluster |-> queue[j].cluster]
    /\ ~Terminal(queue[j].state)

\* No allocation leaks: each is in the hands of the pass or of its job, which
\* has not finished.  Only a job Cancel was called for is exempt (see
\* CancelFinal) (pipeline.go:13-17).
AllocationsOwned ==
  \A a \in DOMAIN live :
    \/ live[a].job \in cancelReq
    \/ sched.alloc = a
    \/ queue[live[a].job].alloc = a

\* "The allocation is owned by whatever stage holds the job" (pipeline.go:14):
\* a job that holds one is being placed or has a river job, so somebody will
\* release it.
HeldByAStage ==
  \A j \in Jobs : Submitted(j) /\ queue[j].alloc # None =>
    \/ sched.pc = "insert" /\ sched.job = j
    \/ \E s \in Slots : tasks[s] # None /\ tasks[s].job = j

\* A native job runs only while its fluxq job holds an allocation on the
\* cluster it runs on, so a cluster is never oversubscribed; a job Cancel was
\* called for is exempt (pipeline.go:162-339).
RunsReserved ==
  \A h \in DOMAIN remote :
    remote[h].state = "RUNNING" /\ remote[h].job \notin cancelReq =>
      \E a \in DOMAIN live :
        live[a] = [job |-> remote[h].job, cluster |-> remote[h].cluster]

\* A job is in at most one stage at a time and has at most one native job
\* running, across repairs, reschedules and Cancel (river.go:73-131).
OneAtATime ==
  /\ \A s, r \in Slots :
       s # r /\ tasks[s] # None /\ tasks[r] # None => tasks[s].job # tasks[r].job
  /\ \A h, g \in DOMAIN remote :
       h # g /\ remote[h].state = "RUNNING" /\ remote[g].state = "RUNNING"
         => remote[h].job # remote[g].job

\* What Cancel promises (manager.go:620 "stops a job at its cluster and releases
\* what it held", 632 "the allocation must be released either way"): once it
\* has returned the job is finished for good and no allocation is live for it,
\* but one the pass has still to record.
CancelFinal ==
  \A j \in cancelReq : canceller.job # j =>
    /\ Terminal(queue[j].state)
    /\ \A a \in DOMAIN live : live[a].job = j => sched.alloc = a

\* Under FCFS, with a store that lists oldest first, a pass places no job while
\* an older one of its snapshot, never placed before, still waits
\* (policy.go:22-27, queue.go:71, manager.go:297-300).  A job stamped earlier
\* and enqueued after the snapshot is not in the pass.
NoOvertaking ==
  [][\A j \in Provisional, k \in sched.snapshot :
       queue'[j].state = "MATCHED" /\ Before(k, j)
       => queue[k].state # "SUBMITTED" \/ queue[k].reschedules > 0]_vars

\* Every submitted job that some dispatchable cluster can take, or that none
\* ever can, finishes for good, whatever its attempts come to and however long
\* it had to wait for room (manager.go:203-302, pipeline.go:162-339).
JobsSettle ==
  \A j \in Jobs :
    Feasible[j] = {} \/ Feasible[j] \cap Dispatchable # {}
      => (Submitted(j) ~> [](Submitted(j) /\ Terminal(queue[j].state)))

=============================================================================
