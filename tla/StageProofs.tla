----------------------------- MODULE StageProofs -----------------------------
(***************************************************************************)
(* What runs for a job, and who watches it, for any jobs, clusters, policy, *)
(* limits and number of workers, as long as river takes what is inserted.   *)
(***************************************************************************)
EXTENDS PipelineProofs

Runs(r, h, j) == h \in DOMAIN r /\ r[h].state = "RUNNING" /\ r[h].job = j

OnlyRuns(r, j, g) == \A h : Runs(r, h, j) => h = g

NoneRuns(r, j) == \A h : ~Runs(r, h, j)

\* Where a handler can be.
Course(t) ==
  /\ t.stage = "monitor" => /\ t.pc \in {"ready", "status", "lock", "commit", "insert"}
                            /\ t.pc \in {"lock", "commit"} => t.todo = "observe"
                            /\ t.todo \in {None, "observe"}
  /\ t.stage # "monitor" => t.pc # "status" /\ t.todo # "observe"
  /\ t.pc = "insert" /\ t.stage # "monitor" =>
       t.todo = "running" \/ (t.todo = "keep" /\ t.stage = "dispatch")
  /\ t.pc \in {"peek", "cancelRemote"} => t.todo = "reschedule"
  /\ t.todo = "keep" /\ t.stage = "repair" => t.attempt < RepairMaxAttempts

\* A submit has succeeded and its handle is not stored yet; or it is.
Submitting(t) == t.pc \in {"lock", "commit"} /\ t.todo = "running"
Watching(t) == t.stage = "monitor" \/ (t.pc = "insert" /\ t.todo = "running")
Unstarted(t) == ~Submitting(t) /\ ~Watching(t)

\* What a stage knows of the native jobs r of its job, whose record is q.
TaskRuns(r, q, t) ==
  /\ Unstarted(t) => NoneRuns(r, t.job)
  /\ Submitting(t) => OnlyRuns(r, t.job, t.handle)
  /\ Watching(t) => OnlyRuns(r, t.job, q.handle)
  /\ t.pc = "status" => t.handle = q.handle
  /\ t.stage = "monitor" /\ t.pc \in {"lock", "commit"} /\ Terminal(t.status) => NoneRuns(r, t.job)

\* Of a job nobody holds, only the native job its record names can run.
RunsOK ==
  /\ \A h \in DOMAIN remote : queue[remote[h].job] # None
  /\ \A j \in Jobs : queue[j] # None /\ queue[j].state = "SUBMITTED" => NoneRuns(remote, j)
  /\ \A j \in Jobs : queue[j] # None /\ NoTask(j) => OnlyRuns(remote, j, queue[j].handle)
  /\ sched.pc \in PlacingPcs \cup {"insert"} => NoneRuns(remote, sched.job)
  /\ \A s \in Slots : tasks[s] # None =>
       Course(tasks[s]) /\ TaskRuns(remote, queue[tasks[s].job], tasks[s])

\* The record of a job is written back with the handle it had.
HandlesStill ==
  /\ \A j \in Jobs : queue[j] # None /\ queue[j].state = "SUBMITTED" => queue[j].handle = None
  /\ sched.pc \in PlacingPcs => sched.rec.handle = None /\ queue[sched.job].handle = None
  /\ canceller.pc = "commit" => canceller.rec.handle = queue[canceller.job].handle

\* A stage of a job has the allocation it runs on.
HasReserved(q, t) == q.alloc # None /\ (t.pc = "attempt" => t.rec.cluster = q.cluster)

ReservedOK ==
  /\ \A s \in Slots : tasks[s] # None /\ tasks[s].job \notin cancelReq =>
       HasReserved(queue[tasks[s].job], tasks[s])
  /\ sched.pc = "insert" /\ sched.job \notin cancelReq => queue[sched.job].alloc # None
  /\ \A j \in Jobs : \A h : Runs(remote, h, j) /\ j \notin cancelReq =>
       queue[j].alloc # None /\ queue[j].cluster = remote[h].cluster

SInv == RunsOK /\ HandlesStill /\ ReservedOK

-----------------------------------------------------------------------------

\* The native jobs of everybody but j are as they were or have ended.
OthersRun(j) ==
  /\ \A h \in DOMAIN remote' : remote'[h].job = j \/ (h \in DOMAIN remote /\ remote'[h].job = remote[h].job)
  /\ \A i, h : i # j /\ Runs(remote', h, i) => Runs(remote, h, i) /\ remote'[h].cluster = remote[h].cluster

LEMMA FewerRun ==
  ASSUME NEW j, NEW i, NEW g, OthersRun(j), i # j
  PROVE  /\ NoneRuns(remote, i) => NoneRuns(remote', i)
         /\ OnlyRuns(remote, i, g) => OnlyRuns(remote', i, g)
BY DEF OthersRun, NoneRuns, OnlyRuns

LEMMA OthersTaskRuns ==
  ASSUME NEW j, NEW q, NEW t, OthersRun(j), t.job # j, TaskRuns(remote, q, t)
  PROVE  TaskRuns(remote', q, t)
BY FewerRun DEF TaskRuns

\* A step of the stage in slot s, which leaves t there, rec in the store.
LEMMA SlotStep ==
  ASSUME IInv, SInv, NEW s \in Slots, NEW t, tasks[s] # None, Local(s, t),
         t # None => /\ t.job = tasks[s].job /\ Course(t) /\ TaskRuns(remote', queue'[tasks[s].job], t)
                     /\ tasks[s].job \notin cancelReq => HasReserved(queue'[tasks[s].job], t),
         t = None => OnlyRuns(remote', tasks[s].job, queue'[tasks[s].job].handle),
         \A i \in Jobs : i # tasks[s].job => queue'[i] = queue[i],
         queue'[tasks[s].job] # None,
         queue'[tasks[s].job].state = "SUBMITTED" =>
           NoneRuns(remote', tasks[s].job) /\ queue'[tasks[s].job].handle = None,
         canceller.pc = "commit" =>
           queue'[tasks[s].job].handle = queue[tasks[s].job].handle,
         OthersRun(tasks[s].job),
         \A h : Runs(remote', h, tasks[s].job) /\ tasks[s].job \notin cancelReq =>
           /\ queue'[tasks[s].job].alloc # None
           /\ queue'[tasks[s].job].cluster = remote'[h].cluster,
         UNCHANGED <<sched, canceller, cancelReq>>
  PROVE  SInv'
<1> DEFINE j == tasks[s].job
<1>1. tasks[s] \in Task /\ j \in Jobs
  BY SlotFacts
<1>2. \A r \in Slots : tasks'[r] = IF r = s THEN t ELSE tasks[r]
  BY DEF Local, IInv, TypeOK
<1>3. \A r \in Slots : r # s /\ tasks[r] # None => tasks[r].job \in Jobs /\ tasks[r].job # j
  BY SlotFacts DEF IInv, OneStage
<1>4. sched.pc \in PlacingPcs \cup {"insert"} => sched.job \in Jobs /\ sched.job # j
  BY DEF IInv, Known, PassOK, NoTask
<1>5. canceller.pc = "commit" => canceller.job \in Jobs
  BY DEF IInv, Known, TypeOK
<1>6. \A h \in DOMAIN remote : remote[h].job \in Jobs
  BY DEF IInv, TypeOK, NativeJob
<1> HIDE DEF j
<1>7. RunsOK'
  <2>1. \A h \in DOMAIN remote' : queue'[remote'[h].job] # None
    BY <1>6 DEF j, OthersRun, SInv, RunsOK
  <2>2. \A i \in Jobs : queue'[i] # None /\ queue'[i].state = "SUBMITTED" => NoneRuns(remote', i)
    BY FewerRun DEF j, SInv, RunsOK
  <2>3. ASSUME NEW i \in Jobs, queue'[i] # None, NoTask(i)'
        PROVE OnlyRuns(remote', i, queue'[i].handle)
    <3>1. CASE i = j
      BY <1>2, <2>3, <3>1 DEF j, NoTask
    <3>2. CASE i # j
      <4>1. NoTask(i)
        BY <1>2, <2>3, <3>2 DEF j, NoTask
      <4> QED
        BY <2>3, <3>2, <4>1, FewerRun DEF j, SInv, RunsOK
    <3> QED
      BY <3>1, <3>2
  <2>4. sched'.pc \in PlacingPcs \cup {"insert"} => NoneRuns(remote', sched'.job)
    BY <1>4, FewerRun DEF j, SInv, RunsOK
  <2>5. ASSUME NEW r \in Slots, tasks'[r] # None
        PROVE  Course(tasks'[r]) /\ TaskRuns(remote', queue'[tasks'[r].job], tasks'[r])
    <3>1. CASE r = s
      BY <1>2, <2>5, <3>1 DEF j
    <3>2. CASE r # s
      BY <1>2, <1>3, <2>5, <3>2, OthersTaskRuns DEF j, SInv, RunsOK
    <3> QED
      BY <3>1, <3>2
  <2> QED
    BY <2>1, <2>2, <2>3, <2>4, <2>5 DEF RunsOK
<1>8. HandlesStill'
  <2>1. sched'.pc \in PlacingPcs => sched'.rec.handle = None /\ queue'[sched'.job].handle = None
    BY <1>4 DEF j, SInv, HandlesStill
  <2>2. canceller'.pc = "commit" => canceller'.rec.handle = queue'[canceller'.job].handle
    BY <1>5 DEF j, SInv, HandlesStill
  <2>3. \A i \in Jobs : queue'[i] # None /\ queue'[i].state = "SUBMITTED" => queue'[i].handle = None
    BY DEF j, SInv, HandlesStill
  <2> QED
    BY <2>1, <2>2, <2>3 DEF HandlesStill
<1>9. ReservedOK'
  <2>1. ASSUME NEW r \in Slots, tasks'[r] # None, tasks'[r].job \notin cancelReq
        PROVE  HasReserved(queue'[tasks'[r].job], tasks'[r])
    <3>1. CASE r = s
      BY <1>2, <2>1, <3>1 DEF j
    <3>2. CASE r # s
      BY <1>2, <1>3, <2>1, <3>2 DEF j, SInv, ReservedOK
    <3> QED
      BY <3>1, <3>2
  <2>2. sched'.pc = "insert" /\ sched'.job \notin cancelReq' => queue'[sched'.job].alloc # None
    BY <1>4 DEF j, SInv, ReservedOK
  <2>3. ASSUME NEW i \in Jobs, NEW h, Runs(remote', h, i), i \notin cancelReq
        PROVE  queue'[i].alloc # None /\ queue'[i].cluster = remote'[h].cluster
    <3>1. CASE i = j
      BY <2>3, <3>1 DEF j
    <3>2. CASE i # j
      BY <2>3, <3>2 DEF j, OthersRun, SInv, ReservedOK
    <3> QED
      BY <3>1, <3>2
  <2> QED
    BY <2>1, <2>2, <2>3 DEF ReservedOK
<1> QED
  BY <1>7, <1>8, <1>9 DEF SInv

\* What the invariant says of one slot.
LEMMA SlotRuns ==
  ASSUME IInv, SInv, NEW s \in Slots, tasks[s] # None
  PROVE  /\ Course(tasks[s]) /\ TaskRuns(remote, queue[tasks[s].job], tasks[s])
         /\ queue[tasks[s].job].state # "SUBMITTED"
         /\ tasks[s].job \notin cancelReq => HasReserved(queue[tasks[s].job], tasks[s])
         /\ \A h : Runs(remote, h, tasks[s].job) /\ tasks[s].job \notin cancelReq =>
              /\ queue[tasks[s].job].alloc # None
              /\ queue[tasks[s].job].cluster = remote[h].cluster
         /\ OthersRun(tasks[s].job) \/ remote' # remote
         /\ tasks[s].pc \in {"mark", "commit"} =>
              tasks[s].rec = queue[tasks[s].job] /\ canceller.pc # "commit"
<1>1. tasks[s].job \in Jobs /\ queue[tasks[s].job] # None
  BY SlotFacts
<1>2. queue[tasks[s].job].state # "SUBMITTED"
  BY <1>1 DEF IInv, WaitingIsFree, NoTask
<1>3. OthersRun(tasks[s].job) \/ remote' # remote
  BY DEF OthersRun, Runs
<1>4. tasks[s].pc \in {"mark", "commit"} =>
        tasks[s].rec = queue[tasks[s].job] /\ canceller.pc # "commit"
  BY NothingIsNone DEF IInv, LocksOK
<1> QED
  BY <1>1, <1>2, <1>3, <1>4 DEF SInv, RunsOK, ReservedOK

\* A step that changes only the slot.
LEMMA QuietStep ==
  ASSUME IInv, SInv, NEW s \in Slots, NEW t, tasks[s] # None, Local(s, t),
         t # None => /\ t.job = tasks[s].job /\ Course(t) /\ TaskRuns(remote, queue[t.job], t)
                     /\ t.pc = "attempt" => t.rec.cluster = queue[t.job].cluster,
         t = None => OnlyRuns(remote, tasks[s].job, queue[tasks[s].job].handle),
         UNCHANGED <<queue, remote, sched, canceller, cancelReq>>
  PROVE  SInv'
<1>1. queue[tasks[s].job] # None /\ queue[tasks[s].job].state # "SUBMITTED"
  BY SlotFacts, SlotRuns
<1>2. OthersRun(tasks[s].job)
  BY SlotRuns
<1>3. /\ \A h : Runs(remote', h, tasks[s].job) /\ tasks[s].job \notin cancelReq =>
           /\ queue'[tasks[s].job].alloc # None
           /\ queue'[tasks[s].job].cluster = remote'[h].cluster
      /\ t # None /\ tasks[s].job \notin cancelReq => HasReserved(queue'[tasks[s].job], t)
  BY SlotRuns DEF HasReserved
<1> QED
  BY <1>1, <1>2, <1>3, SlotStep

\* What a retry leaves to do is an attempt from the beginning.
LEMMA RetryCourse ==
  ASSUME NEW t \in Task, Retry(t) # None
  PROVE  /\ Retry(t).job = t.job /\ Retry(t).stage = t.stage /\ Retry(t).pc = "ready"
         /\ Retry(t).todo = None
BY DEF Retry, NewTask

\* A retried dispatch or repair has started nothing.
LEMMA RetryQuiet ==
  ASSUME NEW t \in Task, t.stage # "monitor", NoneRuns(remote, t.job), NEW r, r = Retry(t),
         r # None
  PROVE  /\ r.job = t.job /\ r.pc = "ready" /\ Course(r)
         /\ \A q : TaskRuns(remote, q, r)
<1>1. r.job = t.job /\ r.stage = t.stage /\ r.pc = "ready" /\ r.todo = None
  BY RetryCourse
<1>2. None \notin {"running", "keep", "observe"}
  BY NoneAssumption DEF Sections
<1> QED
  BY <1>1, <1>2 DEF Course, TaskRuns, Unstarted, Submitting, Watching

\* An attempt that started nothing.
LEMMA RoutedQuiet ==
  ASSUME NEW t \in Task, t.stage # "monitor", NoneRuns(remote, t.job),
         NEW outcome, outcome # "success", NEW r, r = Routed(t, outcome), r # None
  PROVE  /\ r.job = t.job /\ r.pc # "attempt" /\ Course(r)
         /\ TaskRuns(remote, queue[r.job], r)
<1>1. ASSUME NEW pc \in {"lock", "peek"}, NEW todo \in {"reschedule", "keep", "fail"},
             pc = "peek" => todo = "reschedule",
             todo = "keep" => t.stage = "dispatch" \/ t.attempt < MaxAttempts(t),
             r = [t EXCEPT !.pc = pc, !.todo = todo]
      PROVE  /\ r.job = t.job /\ r.pc # "attempt" /\ Course(r)
             /\ TaskRuns(remote, queue[r.job], r)
  <2>1. /\ r.job = t.job /\ r.stage = t.stage /\ r.pc = pc /\ r.todo = todo /\ r.attempt = t.attempt
    BY <1>1 DEF Task
  <2>2. Course(r)
    BY <1>1, <2>1 DEF Course, MaxAttempts
  <2>3. TaskRuns(remote, queue[r.job], r)
    BY <1>1, <2>1 DEF TaskRuns, Unstarted, Submitting, Watching
  <2> QED
    BY <1>1, <2>1, <2>2, <2>3
<1>2. CASE outcome = "wrongTarget"
  BY <1>1, <1>2 DEF Routed
<1>3. CASE outcome = "repairable" /\ (t.stage = "dispatch" \/ t.attempt < MaxAttempts(t))
  BY <1>1, <1>3 DEF Routed
<1>4. CASE outcome = "transient" /\ t.stage = "dispatch"
  <2>1. r = Retry(t)
    BY <1>4 DEF Routed
  <2> QED
    BY <2>1, RetryQuiet
<1>5. CASE /\ outcome # "wrongTarget"
           /\ ~(outcome = "repairable" /\ (t.stage = "dispatch" \/ t.attempt < MaxAttempts(t)))
           /\ ~(outcome = "transient" /\ t.stage = "dispatch")
  BY <1>1, <1>5 DEF Routed
<1> QED
  BY <1>2, <1>3, <1>4, <1>5

\* Driver.Cancel starts nothing.
LEMMA StopRuns ==
  ASSUME TypeOK, NEW g, StopRemote(g) \/ UNCHANGED remote
  PROVE  /\ DOMAIN remote' = DOMAIN remote
         /\ \A h \in DOMAIN remote : remote'[h].job = remote[h].job
         /\ \A h, i : Runs(remote', h, i) => Runs(remote, h, i) /\ remote'[h].cluster = remote[h].cluster
<1>1. CASE UNCHANGED remote
  BY <1>1 DEF Runs
<1>2. ASSUME NEW st \in EndStates, remote' = [remote EXCEPT ![g].state = st]
      PROVE  /\ DOMAIN remote' = DOMAIN remote
             /\ \A h \in DOMAIN remote : remote'[h].job = remote[h].job
             /\ \A h, i : Runs(remote', h, i) => Runs(remote, h, i) /\ remote'[h].cluster = remote[h].cluster
  <2>1. DOMAIN remote' = DOMAIN remote /\ st # "RUNNING"
    BY <1>2, PipelineAssumption
  <2>2. \A h \in DOMAIN remote :
          /\ remote[h] \in NativeJob
          /\ h # g => remote'[h] = remote[h]
          /\ h = g => remote'[h] = [remote[h] EXCEPT !.state = st]
    BY <1>2 DEF TypeOK
  <2>3. \A h \in DOMAIN remote :
          /\ remote'[h].job = remote[h].job /\ remote'[h].cluster = remote[h].cluster
          /\ remote'[h].state = "RUNNING" => remote[h].state = "RUNNING"
    <3> SUFFICES ASSUME NEW h \in DOMAIN remote
                 PROVE  /\ remote'[h].job = remote[h].job /\ remote'[h].cluster = remote[h].cluster
                        /\ remote'[h].state = "RUNNING" => remote[h].state = "RUNNING"
      OBVIOUS
    <3>1. CASE h = g
      BY <2>1, <2>2, <3>1 DEF NativeJob
    <3>2. CASE h # g
      BY <2>2, <3>2
    <3> QED
      BY <3>1, <3>2
  <2> QED
    BY <2>1, <2>3 DEF Runs
<1> QED
  BY <1>1, <1>2 DEF StopRemote

\* Fewer native jobs run; nothing else changes but one slot or the canceller.
LEMMA FewerTaskRuns ==
  ASSUME \A h, i : Runs(remote', h, i) => Runs(remote, h, i) /\ remote'[h].cluster = remote[h].cluster
  PROVE  /\ \A j : NoneRuns(remote, j) => NoneRuns(remote', j)
         /\ \A j, g : OnlyRuns(remote, j, g) => OnlyRuns(remote', j, g)
         /\ \A q, t : TaskRuns(remote, q, t) => TaskRuns(remote', q, t)
BY DEF NoneRuns, OnlyRuns, TaskRuns

\* The steps of a handler that change only its slot and the lock.
LEMMA QuietSteps ==
  ASSUME IInv, SInv, "insert" \notin Faults, NEW s \in Slots,
         \/ DispatchBegin(s) \/ RepairBegin(s) \/ ReschedulePeek(s)
         \/ MonitorBegin(s) \/ MonitorStatus(s) \/ Lock(s) \/ Insert(s)
  PROVE  SInv'
<1> DEFINE u == tasks[s]
<1> DEFINE j == u.job
<1> DEFINE q == queue[j]
<1>1. u # None /\ UNCHANGED <<queue, remote, sched, canceller, cancelReq>>
  BY DEF DispatchBegin, RepairBegin, ReschedulePeek, MonitorBegin, MonitorStatus, Lock, Insert, At
<1>2. u \in Task /\ j \in Jobs /\ q \in Job /\ HandleKnown(u.handle)
  BY <1>1, SlotFacts
<1>3. Course(u) /\ TaskRuns(remote, q, u)
  BY <1>1, SlotRuns
<1>4. None \notin Sections
  BY NoneAssumption
<1>5. CASE DispatchBegin(s)
  <2>1. u.pc = "ready" /\ u.stage = "dispatch"
    BY <1>5 DEF DispatchBegin, At
  <2>2. NoneRuns(remote, j)
    BY <1>3, <2>1 DEF TaskRuns, Unstarted, Submitting, Watching
  <2>3. PICK t : Local(s, t) /\ (t = None \/ t = [u EXCEPT !.pc = "mark", !.rec = q])
    BY <1>5 DEF DispatchBegin
  <2>4. CASE t = None
    BY <1>1, <2>2, <2>3, <2>4, QuietStep DEF OnlyRuns, NoneRuns
  <2>5. CASE t = [u EXCEPT !.pc = "mark", !.rec = q]
    <3>1. t.job = j /\ t.stage = "dispatch" /\ t.pc = "mark" /\ t.todo = u.todo
      BY <1>2, <2>1, <2>5 DEF Task
    <3> HIDE DEF q, j, u
    <3>2. Course(t) /\ TaskRuns(remote, queue[t.job], t)
      BY <1>3, <2>1, <2>2, <3>1
      DEF q, Course, TaskRuns, Unstarted, Submitting, Watching
    <3>3. t.job = tasks[s].job /\ t.pc # "attempt"
      BY <3>1 DEF j, u
    <3> QED
      BY <1>1, <2>2, <2>3, <3>2, <3>3, QuietStep DEF u, j, OnlyRuns, NoneRuns
  <2> QED
    BY <2>3, <2>4, <2>5
<1>6. CASE RepairBegin(s)
  <2>1. u.pc = "ready" /\ u.stage = "repair"
    BY <1>6 DEF RepairBegin, At
  <2>2. NoneRuns(remote, j)
    BY <1>3, <2>1 DEF TaskRuns, Unstarted, Submitting, Watching
  <2>3. PICK t : Local(s, t) /\ (t = None \/ t = [u EXCEPT !.pc = "attempt", !.rec = q])
    BY <1>6 DEF RepairBegin
  <2>4. CASE t = None
    BY <1>1, <2>2, <2>3, <2>4, QuietStep DEF OnlyRuns, NoneRuns
  <2>5. CASE t = [u EXCEPT !.pc = "attempt", !.rec = q]
    <3>1. /\ t.job = j /\ t.stage = "repair" /\ t.pc = "attempt" /\ t.todo = u.todo
          /\ t.rec = q /\ t.attempt = u.attempt
      BY <1>2, <2>1, <2>5 DEF Task
    <3> HIDE DEF q, j, u
    <3>2. Course(t) /\ TaskRuns(remote, queue[t.job], t)
      BY <1>3, <2>1, <2>2, <3>1
      DEF q, Course, TaskRuns, Unstarted, Submitting, Watching
    <3>3. t.job = tasks[s].job /\ t.rec.cluster = queue[t.job].cluster
      BY <3>1 DEF j, u, q
    <3> QED
      BY <1>1, <2>3, <2>2, <3>2, <3>3, QuietStep DEF u, j, OnlyRuns, NoneRuns
  <2> QED
    BY <2>3, <2>4, <2>5
<1>7. CASE ReschedulePeek(s)
  <2>1. u.pc = "peek"
    BY <1>7 DEF ReschedulePeek, At
  <2>2. u.stage # "monitor" /\ u.todo = "reschedule"
    BY <1>3, <2>1 DEF Course
  <2>3. NoneRuns(remote, j)
    BY <1>3, <2>1, <2>2 DEF TaskRuns, Unstarted, Submitting, Watching
  <2>4. PICK pc \in {"lock", "cancelRemote"} :
          Local(s, [u EXCEPT !.handle = q.handle, !.pc = pc])
    BY <1>7 DEF ReschedulePeek
  <2> DEFINE t == [u EXCEPT !.handle = q.handle, !.pc = pc]
  <2>5. t.job = j /\ t.stage = u.stage /\ t.pc = pc /\ t.todo = u.todo
    BY <1>2 DEF Task
  <2> HIDE DEF t, q, j, u
  <2>6. Course(t) /\ TaskRuns(remote, queue[t.job], t)
    BY <2>2, <2>3, <2>5 DEF Course, TaskRuns, Unstarted, Submitting, Watching
  <2>7. t.pc # "attempt" /\ t.job = tasks[s].job /\ OnlyRuns(remote, tasks[s].job, queue[tasks[s].job].handle)
    BY <2>3, <2>5 DEF u, j, OnlyRuns, NoneRuns
  <2>8. Local(s, t) /\ tasks[s] # None
    BY <1>1, <2>4 DEF t, u
  <2> QED
    BY <1>1, <2>6, <2>7, <2>8, QuietStep
<1>8. CASE MonitorBegin(s)
  <2>1. u.pc = "ready" /\ u.stage = "monitor"
    BY <1>8 DEF MonitorBegin, At
  <2>2. OnlyRuns(remote, j, q.handle)
    BY <1>3, <2>1 DEF TaskRuns, Watching
  <2>3. PICK t : /\ Local(s, t)
                 /\ t = None \/ \E pc \in {"insert", "status"} : t = [u EXCEPT !.handle = q.handle, !.pc = pc]
    BY <1>8 DEF MonitorBegin
  <2>4. CASE t = None
    BY <1>1, <2>2, <2>3, <2>4, QuietStep
  <2>5. ASSUME NEW pc \in {"insert", "status"}, t = [u EXCEPT !.handle = q.handle, !.pc = pc]
        PROVE  SInv'
    <3>1. /\ t.job = j /\ t.stage = "monitor" /\ t.pc = pc /\ t.todo = u.todo
          /\ t.handle = q.handle
      BY <1>2, <2>1, <2>5 DEF Task
    <3> HIDE DEF q, j, u
    <3>2. Course(t)
      BY <1>3, <2>1, <3>1 DEF Course
    <3>3. TaskRuns(remote, queue[t.job], t)
      BY <2>2, <3>1 DEF q, TaskRuns, Unstarted, Submitting, Watching
    <3>4. t.job = tasks[s].job /\ t.pc # "attempt"
      BY <3>1 DEF j, u
    <3> QED
      BY <1>1, <2>2, <2>3, <3>2, <3>3, <3>4, QuietStep DEF u, j, q
  <2> QED
    BY <2>3, <2>4, <2>5
<1>9. CASE MonitorStatus(s)
  <2>1. u.pc = "status"
    BY <1>9 DEF MonitorStatus, At
  <2>2. u.stage = "monitor" /\ u.handle = q.handle /\ OnlyRuns(remote, j, q.handle)
    BY <1>3, <2>1 DEF Course, TaskRuns, Watching
  <2>3. PICK t : /\ Local(s, t)
                 /\ \/ t = [u EXCEPT !.pc = "lock", !.todo = "observe",
                              !.status = remote[u.handle].state]
                    \/ t = [u EXCEPT !.pc = "insert"]
    BY <1>9 DEF MonitorStatus
  <2>4. CASE t = [u EXCEPT !.pc = "insert"]
    <3>1. t.job = j /\ t.stage = "monitor" /\ t.pc = "insert" /\ t.todo = u.todo
      BY <1>2, <2>2, <2>4 DEF Task
    <3> HIDE DEF q, j, u
    <3>2. Course(t) /\ TaskRuns(remote, queue[t.job], t)
      BY <1>3, <2>2, <3>1 DEF q, Course, TaskRuns, Unstarted, Submitting, Watching
    <3>3. t.job = tasks[s].job /\ t.pc # "attempt"
      BY <3>1 DEF j, u
    <3> QED
      BY <1>1, <2>2, <2>3, <3>2, <3>3, QuietStep DEF u, j, q
  <2>5. CASE t = [u EXCEPT !.pc = "lock", !.todo = "observe", !.status = remote[u.handle].state]
    <3>1. /\ t.job = j /\ t.stage = "monitor" /\ t.pc = "lock" /\ t.todo = "observe"
          /\ t.status = remote[u.handle].state
      BY <1>2, <2>2, <2>5 DEF Task
    <3>2. Terminal(t.status) => NoneRuns(remote, j)
      BY <2>2, <3>1 DEF Terminal, NoneRuns, OnlyRuns, Runs
    <3> HIDE DEF q, j, u
    <3>3. Course(t)
      BY <3>1 DEF Course
    <3>4. TaskRuns(remote, queue[t.job], t)
      BY <2>2, <3>1, <3>2 DEF q, TaskRuns, Unstarted, Submitting, Watching
    <3>5. t.job = tasks[s].job /\ t.pc # "attempt"
      BY <3>1 DEF j, u
    <3> QED
      BY <1>1, <2>2, <2>3, <3>3, <3>4, <3>5, QuietStep DEF u, j, q
  <2> QED
    BY <2>3, <2>4, <2>5
<1>10. CASE Lock(s)
  <2> DEFINE t == [u EXCEPT !.pc = "commit", !.rec = q]
  <2>1. u.pc = "lock" /\ Local(s, t)
    BY <1>10 DEF Lock, At
  <2>2. /\ t.job = j /\ t.stage = u.stage /\ t.pc = "commit" /\ t.todo = u.todo
        /\ t.handle = u.handle /\ t.status = u.status /\ t.attempt = u.attempt
        /\ u.job = j
    BY <1>2 DEF Task
  <2> t # None
    <3>1. t \in Task
      BY <1>2 DEF Task
    <3> QED
      BY <3>1, NothingIsNone
  <2> HIDE DEF t, q, j, u
  <2>3. Course(t)
    BY <1>3, <2>1, <2>2 DEF Course
  <2>4. TaskRuns(remote, queue[t.job], t)
    BY <1>3, <2>1, <2>2 DEF q, TaskRuns, Unstarted, Submitting, Watching
  <2>5. t.job = tasks[s].job /\ t.pc # "attempt"
    BY <2>2 DEF j, u
  <2> QED
    BY <1>1, <2>1, <2>3, <2>4, <2>5, QuietStep DEF u
<1>11. CASE Insert(s)
  <2> DEFINE t == NewTask(NextStage(u), j)
  <2>1. u.pc = "insert" /\ Local(s, t)
    BY <1>11 DEF Insert, At
  <2>2. /\ t.job = j /\ t.pc = "ready" /\ t.todo = None /\ t.stage = NextStage(u)
    BY DEF NewTask
  <2>3. CASE u.stage = "dispatch" /\ u.todo = "keep"
    <3>1. NextStage(u) = "repair" /\ NoneRuns(remote, j)
      BY <1>3, <2>1, <2>3 DEF NextStage, TaskRuns, Unstarted, Submitting, Watching
    <3> HIDE DEF t, q, j, u
    <3>2. Course(t) /\ TaskRuns(remote, queue[t.job], t)
      BY <1>4, <2>2, <3>1 DEF Course, TaskRuns, Unstarted, Submitting, Watching, Sections
    <3>3. t.job = tasks[s].job /\ t.pc # "attempt" /\ OnlyRuns(remote, tasks[s].job, queue[tasks[s].job].handle)
      BY <2>2, <3>1 DEF j, u, OnlyRuns, NoneRuns
    <3> QED
      BY <1>1, <2>1, <3>2, <3>3, QuietStep DEF u
  <2>4. CASE ~(u.stage = "dispatch" /\ u.todo = "keep")
    <3>1. NextStage(u) = "monitor" /\ OnlyRuns(remote, j, q.handle)
      BY <1>3, <2>1, <2>4 DEF NextStage, Course, TaskRuns, Watching
    <3> HIDE DEF t, q, j, u
    <3>2. Course(t) /\ TaskRuns(remote, queue[t.job], t)
      BY <1>4, <2>2, <3>1 DEF q, Course, TaskRuns, Unstarted, Submitting, Watching, Sections
    <3>3. t.job = tasks[s].job /\ t.pc # "attempt" /\ OnlyRuns(remote, tasks[s].job, queue[tasks[s].job].handle)
      BY <2>2, <3>1 DEF j, u, q
    <3> QED
      BY <1>1, <2>1, <3>2, <3>3, QuietStep DEF u
  <2> QED
    BY <2>3, <2>4
<1> QED
  BY <1>5, <1>6, <1>7, <1>8, <1>9, <1>10, <1>11

\* The steps of a handler that call a driver.
LEMMA DriverSteps ==
  ASSUME IInv, SInv, NEW s \in Slots, Attempt(s) \/ RescheduleCancel(s)
  PROVE  SInv'
<1> DEFINE u == tasks[s]
<1> DEFINE j == u.job
<1> DEFINE q == queue[j]
<1>1. u # None /\ UNCHANGED <<queue, sched, canceller, cancelReq>>
  BY DEF Attempt, RescheduleCancel, At
<1>2. u \in Task /\ j \in Jobs /\ q \in Job /\ q # None
  BY <1>1, SlotFacts
<1>3. /\ Course(u) /\ TaskRuns(remote, q, u) /\ q.state # "SUBMITTED"
      /\ j \notin cancelReq => HasReserved(q, u)
      /\ \A h : Runs(remote, h, j) /\ j \notin cancelReq =>
           q.alloc # None /\ q.cluster = remote[h].cluster
  BY <1>1, SlotRuns
<1>4. CASE RescheduleCancel(s)
  <2> DEFINE t == [u EXCEPT !.pc = "lock"]
  <2>1. u.pc = "cancelRemote" /\ Local(s, t) /\ StopRemote(u.handle)
    BY <1>4 DEF RescheduleCancel, At
  <2>2. /\ DOMAIN remote' = DOMAIN remote
        /\ \A h \in DOMAIN remote : remote'[h].job = remote[h].job
        /\ \A h, i : Runs(remote', h, i) => Runs(remote, h, i) /\ remote'[h].cluster = remote[h].cluster
    BY <2>1, StopRuns DEF IInv
  <2>3. /\ t.job = j /\ t.stage = u.stage /\ t.pc = "lock" /\ t.todo = u.todo
        /\ t.attempt = u.attempt
    BY <1>2 DEF Task
  <2> HIDE DEF t
  <2>4. u.stage # "monitor" /\ u.todo = "reschedule"
    BY <1>3, <2>1 DEF Course
  <2>5. NoneRuns(remote, j)
    BY <1>3, <2>1, <2>4 DEF TaskRuns, Unstarted, Submitting, Watching
  <2>6. NoneRuns(remote', j) /\ OthersRun(j)
    BY <2>2, <2>5 DEF NoneRuns, OthersRun, Runs
  <2> HIDE DEF q, j, u
  <2>7. Course(t) /\ TaskRuns(remote', q, t)
    BY <2>3, <2>4, <2>6 DEF Course, TaskRuns, Unstarted, Submitting, Watching
  <2>8. j \notin cancelReq => HasReserved(q, t)
    BY <1>3, <2>3 DEF HasReserved
  <2>9. NoneRuns(remote', tasks[s].job) /\ OthersRun(tasks[s].job) /\ Local(s, t)
    BY <2>1, <2>6 DEF j, u
  <2>10. /\ t # None => /\ t.job = tasks[s].job /\ Course(t)
                        /\ TaskRuns(remote', queue'[tasks[s].job], t)
                        /\ tasks[s].job \notin cancelReq => HasReserved(queue'[tasks[s].job], t)
         /\ tasks[s] # None /\ queue'[tasks[s].job] # None
         /\ queue'[tasks[s].job].state # "SUBMITTED"
    BY <1>1, <1>2, <1>3, <2>3, <2>7, <2>8 DEF j, u, q
  <2> QED
    BY <1>1, <2>9, <2>10, SlotStep DEF NoneRuns, OnlyRuns
<1>5. CASE Attempt(s)
  <2> DEFINE c == u.rec.cluster
  <2> DEFINE v == [u EXCEPT !.rec = NewJob]
  <2> DEFINE g == Cardinality(DOMAIN remote) + 1
  <2>1. u.pc = "attempt" /\ u.stage # "monitor"
    BY <1>3, <1>5 DEF Attempt, At, Course
  <2>2. NoneRuns(remote, j)
    BY <1>3, <2>1 DEF TaskRuns, Unstarted, Submitting, Watching
  <2>3. v \in Task /\ v.job = j /\ v.stage # "monitor"
    BY <1>2, <2>1, NewJobIsJob DEF Task
  <2>4. ASSUME NEW outcome, outcome # "success", Local(s, Routed(v, outcome)), UNCHANGED remote
        PROVE  SInv'
    <3> DEFINE t == Routed(v, outcome)
    <3> HIDE DEF v
    <3>1. t # None => /\ t.job = j /\ t.pc # "attempt" /\ Course(t)
                      /\ TaskRuns(remote, queue[t.job], t)
      BY <2>2, <2>3, <2>4, RoutedQuiet
    <3>2. Local(s, t)
      BY <2>4
    <3> HIDE DEF t
    <3> QED
      BY <1>1, <2>2, <2>4, <3>1, <3>2, QuietStep DEF OnlyRuns, NoneRuns
  <2>5. ASSUME remote' = Put(remote, g, [job |-> v.job, cluster |-> c, state |-> "RUNNING"]),
               Local(s, [Routed(v, "success") EXCEPT !.handle = g])
        PROVE  SInv'
    <3> DEFINE t == [[v EXCEPT !.pc = "lock", !.todo = "running"] EXCEPT !.handle = g]
    <3>1. /\ t.job = j /\ t.stage # "monitor" /\ t.pc = "lock" /\ t.todo = "running"
          /\ t.handle = g
      BY <2>3 DEF Task
    <3>2. Local(s, t)
      BY <2>5 DEF Routed
    <3>3. /\ DOMAIN remote' = DOMAIN remote \cup {g}
          /\ remote'[g].job = j /\ remote'[g].cluster = c
          /\ \A h \in DOMAIN remote : h # g => remote'[h] = remote[h]
      BY <2>3, <2>5 DEF Put
    <3> HIDE DEF t, g, c, v
    <3>4. OthersRun(j)
      BY <3>3 DEF OthersRun, Runs
    <3>5. OnlyRuns(remote', j, g)
      BY <2>2, <3>3 DEF OnlyRuns, NoneRuns, Runs
    <3> HIDE DEF q, j, u
    <3>6. Course(t) /\ TaskRuns(remote', q, t)
      BY <3>1, <3>5 DEF Course, TaskRuns, Unstarted, Submitting, Watching
    <3>7. j \notin cancelReq => HasReserved(q, t) /\ q.alloc # None /\ q.cluster = c
      BY <1>3, <2>1, <3>1 DEF HasReserved, c
    <3>8. \A h : Runs(remote', h, j) /\ j \notin cancelReq =>
             q.alloc # None /\ q.cluster = remote'[h].cluster
      BY <3>3, <3>5, <3>7 DEF OnlyRuns
    <3>9. t # None
      <4>1. t.pc = "lock"
        BY <3>1
      <4>2. g \in Nat
        BY FS_CardinalityType DEF g, IInv, TypeOK
      <4>3. t \in Task
        BY <2>3, <4>2 DEF t, Task, Sections
      <4> QED
        BY <4>3, NothingIsNone
    <3>10. /\ t.job = tasks[s].job /\ tasks[s] # None /\ queue'[tasks[s].job] # None
           /\ queue'[tasks[s].job].state # "SUBMITTED"
           /\ TaskRuns(remote', queue'[tasks[s].job], t) /\ OthersRun(tasks[s].job)
           /\ tasks[s].job \notin cancelReq => HasReserved(queue'[tasks[s].job], t)
           /\ \A h : Runs(remote', h, tasks[s].job) /\ tasks[s].job \notin cancelReq =>
                /\ queue'[tasks[s].job].alloc # None
                /\ queue'[tasks[s].job].cluster = remote'[h].cluster
      BY <1>1, <1>2, <1>3, <3>1, <3>4, <3>6, <3>7, <3>8 DEF j, u, q
    <3> QED
      BY <1>1, <3>2, <3>6, <3>9, <3>10, SlotStep
  <2> QED
    <3>1. "hardFail" # "success"
      OBVIOUS
    <3> QED
      BY <1>5, <2>4, <2>5, <3>1 DEF Attempt
<1> QED
  BY <1>4, <1>5

\* A stage writes r as the record of its job, whose native jobs stay.
LEMMA StageWrites ==
  ASSUME IInv, SInv, NEW s \in Slots, NEW t, NEW r \in Job, NEW q, NEW j,
         tasks[s] # None, tasks[s].pc \in {"mark", "commit"},
         j = tasks[s].job, q = queue[j],
         Local(s, t), queue' = [queue EXCEPT ![j] = r],
         t # None => /\ t.job = j /\ Course(t) /\ TaskRuns(remote, r, t)
                     /\ r.alloc = q.alloc
                     /\ t.pc = "attempt" => t.rec.cluster = r.cluster,
         t = None \/ r.state = "SUBMITTED" => NoneRuns(remote, j),
         r.state = "SUBMITTED" => r.handle = None,
         (r.alloc = q.alloc /\ r.cluster = q.cluster) \/ NoneRuns(remote, j),
         UNCHANGED <<remote, sched, canceller, cancelReq>>
  PROVE  SInv'
<1>1. j \in Jobs
  BY SlotFacts
<1>2. /\ \A h : Runs(remote, h, j) /\ j \notin cancelReq =>
           q.alloc # None /\ q.cluster = remote[h].cluster
      /\ j \notin cancelReq => q.alloc # None
      /\ canceller.pc # "commit"
  BY SlotRuns DEF HasReserved
<1>3. \A i \in Jobs : queue'[i] = IF i = j THEN r ELSE queue[i]
  BY <1>1 DEF IInv, TypeOK
<1>4. queue'[j] = r /\ r # None
  BY <1>1, <1>3, NothingIsNone
<1>5. OthersRun(j)
  BY DEF OthersRun, Runs
<1>6. \A h : Runs(remote, h, j) /\ j \notin cancelReq =>
        r.alloc # None /\ r.cluster = remote[h].cluster
  BY <1>2 DEF NoneRuns
<1>7. t # None /\ j \notin cancelReq => HasReserved(r, t)
  BY <1>2 DEF HasReserved
<1>8. t = None => OnlyRuns(remote, j, r.handle)
  BY DEF NoneRuns, OnlyRuns
<1> QED
  BY <1>2, <1>3, <1>4, <1>5, <1>6, <1>7, <1>8, SlotStep

\* The locked sections of a handler.
LEMMA WriteSteps ==
  ASSUME IInv, SInv, NEW s \in Slots,
         \/ DispatchMark(s) \/ CommitRunning(s) \/ CommitKeep(s) \/ CommitFail(s)
         \/ CommitReschedule(s) \/ CommitObserve(s)
  PROVE  SInv'
<1> DEFINE u == tasks[s]
<1> DEFINE j == u.job
<1> DEFINE q == queue[j]
<1>1. /\ u # None /\ u.pc \in {"mark", "commit"}
      /\ UNCHANGED <<remote, sched, canceller, cancelReq>>
  BY DEF DispatchMark, CommitRunning, CommitKeep, CommitFail, CommitReschedule,
         CommitObserve, Commit, At
<1>2. u \in Task /\ j \in Jobs /\ q \in Job /\ HandleKnown(u.handle)
  BY <1>1, SlotFacts
<1>3. Course(u) /\ TaskRuns(remote, q, u) /\ q.state # "SUBMITTED" /\ u.rec = q
  BY <1>1, SlotRuns
<1>4. u.handle \in Nat \cup {None} /\ u.status \in NativeStates
  BY <1>2 DEF Task
<1>5. /\ ThenInsert(s).job = j /\ ThenInsert(s).stage = u.stage
      /\ ThenInsert(s).pc = "insert" /\ ThenInsert(s).todo = u.todo
      /\ ThenInsert(s).attempt = u.attempt
  BY <1>2 DEF ThenInsert, Task
<1>6. CASE DispatchMark(s)
  <2> DEFINE r == [q EXCEPT !.state = "DISPATCHING"]
  <2> DEFINE t == [u EXCEPT !.pc = "attempt", !.rec = r]
  <2>1. u.pc = "mark" /\ Local(s, t) /\ queue' = [queue EXCEPT ![j] = r]
    BY <1>3, <1>6 DEF DispatchMark, At
  <2>2. /\ r \in Job /\ r.alloc = q.alloc /\ r.cluster = q.cluster /\ r.state = "DISPATCHING"
        /\ r.handle = q.handle
    BY <1>2 DEF Job, JobStates
  <2> HIDE DEF r
  <2>3. /\ t.job = j /\ t.stage = u.stage /\ t.pc = "attempt" /\ t.todo = u.todo
        /\ t.rec = r /\ t.attempt = u.attempt
    BY <1>2 DEF Task
  <2>4. t # None
    <3>1. t \in Task
      BY <1>2, <2>2 DEF Task
    <3> QED
      BY <3>1, NothingIsNone
  <2>5. u.stage # "monitor"
    BY <1>3, <2>1 DEF Course
  <2>6. NoneRuns(remote, j)
    BY <1>3, <2>1, <2>5 DEF TaskRuns, Unstarted, Submitting, Watching
  <2>7. Local(s, t) /\ queue' = [queue EXCEPT ![j] = r]
    BY <2>1
  <2> HIDE DEF t, q, j, u
  <2>8. Course(t) /\ TaskRuns(remote, r, t)
    BY <1>3, <2>3, <2>5, <2>6 DEF Course, TaskRuns, Unstarted, Submitting, Watching
  <2> QED
    BY <1>1, <2>2, <2>3, <2>4, <2>7, <2>8, StageWrites DEF u, j, q
<1>7. CASE CommitRunning(s)
  <2> DEFINE r == [q EXCEPT !.state = "RUNNING", !.handle = u.handle, !.waiting = FALSE]
  <2>1. /\ u.pc = "commit" /\ u.todo = "running" /\ Local(s, ThenInsert(s))
        /\ queue' = [queue EXCEPT ![j] = r]
    BY <1>3, <1>7 DEF CommitRunning, Commit, At
  <2>2. /\ r \in Job /\ r.alloc = q.alloc /\ r.cluster = q.cluster /\ r.state = "RUNNING"
        /\ r.handle = u.handle
    BY <1>2, <1>4 DEF Job, JobStates
  <2> HIDE DEF r
  <2>3. u.stage # "monitor"
    BY <1>3, <2>1 DEF Course
  <2>4. OnlyRuns(remote, j, u.handle)
    BY <1>3, <2>1, <2>3 DEF TaskRuns, Submitting
  <2> DEFINE t == ThenInsert(s)
  <2>5. /\ t.job = j /\ t.stage = u.stage /\ t.pc = "insert" /\ t.todo = "running"
        /\ t.attempt = u.attempt
    BY <1>5, <2>1
  <2>6. t # None
    <3>1. t \in Task
      BY <1>2, NewJobIsJob DEF ThenInsert, Task
    <3> QED
      BY <3>1, NothingIsNone
  <2>7. Local(s, t) /\ queue' = [queue EXCEPT ![j] = r]
    BY <2>1
  <2> HIDE DEF t, q, j, u
  <2>8. Course(t) /\ TaskRuns(remote, r, t)
    BY <2>2, <2>3, <2>4, <2>5 DEF Course, TaskRuns, Unstarted, Submitting, Watching
  <2> QED
    BY <1>1, <2>2, <2>5, <2>6, <2>7, <2>8, StageWrites DEF u, j, q
<1>8. CASE CommitKeep(s)
  <2> DEFINE r == [q EXCEPT !.waiting = FALSE]
  <2> DEFINE t == IF u.stage = "dispatch" THEN ThenInsert(s) ELSE Retry(u)
  <2>1. /\ u.pc = "commit" /\ u.todo = "keep" /\ Local(s, t)
        /\ queue' = [queue EXCEPT ![j] = r]
    BY <1>3, <1>8 DEF CommitKeep, Commit, At
  <2>2. /\ r \in Job /\ r.alloc = q.alloc /\ r.cluster = q.cluster /\ r.state = q.state
        /\ r.handle = q.handle
    BY <1>2 DEF Job, JobStates
  <2> HIDE DEF r
  <2>3. u.stage # "monitor"
    BY <1>3, <2>1 DEF Course
  <2>4. NoneRuns(remote, j)
    BY <1>3, <2>1, <2>3 DEF TaskRuns, Unstarted, Submitting, Watching
  <2>5. Local(s, t) /\ queue' = [queue EXCEPT ![j] = r]
    BY <2>1
  <2>6. CASE t # None
    <3>1. /\ t.job = j /\ t.pc # "attempt" /\ Course(t) /\ TaskRuns(remote, r, t)
      <4>1. CASE u.stage = "dispatch"
        <5>1. /\ t.job = j /\ t.stage = "dispatch" /\ t.pc = "insert" /\ t.todo = "keep"
          BY <1>5, <2>1, <4>1
        <5> HIDE DEF t, q, j, u
        <5> QED
          BY <2>4, <5>1 DEF Course, TaskRuns, Unstarted, Submitting, Watching
      <4>2. CASE u.stage # "dispatch"
        <5>1. t = Retry(u)
          BY <4>2
        <5> QED
          BY ONLY <1>2, <2>3, <2>4, <2>6, <5>1, RetryQuiet
      <4> QED
        BY <4>1, <4>2
    <3> HIDE DEF t, q, j, u
    <3> QED
      BY <1>1, <1>3, <2>2, <2>4, <2>5, <3>1, StageWrites DEF u, j, q
  <2>7. CASE t = None
    <3> HIDE DEF t, q, j, u
    <3> QED
      BY <1>1, <1>3, <2>2, <2>4, <2>5, <2>7, StageWrites DEF u, j, q
  <2> QED
    BY <2>6, <2>7
<1>9. CASE CommitFail(s)
  <2> DEFINE r == [FreedRecord(q) EXCEPT !.state = "FAILED", !.waiting = FALSE]
  <2>1. /\ u.pc = "commit" /\ u.todo = "fail" /\ Local(s, None)
        /\ queue' = [queue EXCEPT ![j] = r]
    BY <1>3, <1>9 DEF CommitFail, Commit, At
  <2>2. r \in Job /\ r.state = "FAILED"
    BY <1>2 DEF FreedRecord, Job, JobStates
  <2> HIDE DEF r
  <2>3. u.stage # "monitor"
    BY <1>3, <2>1 DEF Course
  <2>4. NoneRuns(remote, j)
    BY <1>3, <2>1, <2>3 DEF TaskRuns, Unstarted, Submitting, Watching
  <2> HIDE DEF q, j, u
  <2> QED
    BY <1>1, <2>1, <2>2, <2>4, StageWrites DEF u, j, q
<1>10. CASE CommitReschedule(s)
  <2> DEFINE f == [FreedRecord(q) EXCEPT !.handle = None, !.waiting = FALSE]
  <2> DEFINE r == IF f.reschedules + 1 > MaxReschedules
                    THEN [f EXCEPT !.state = "FAILED"]
                    ELSE [f EXCEPT !.state = "SUBMITTED", !.cluster = None,
                                   !.reschedules = @ + 1]
  <2>1. /\ u.pc = "commit" /\ u.todo = "reschedule" /\ Local(s, None)
        /\ queue' = [queue EXCEPT ![j] = r]
    BY <1>3, <1>10 DEF CommitReschedule, Commit, At
  <2>2. f \in Job /\ f.handle = None
    BY <1>2 DEF FreedRecord, Job
  <2> HIDE DEF f
  <2>3. r \in Job /\ r.handle = None
    <3>1. f.reschedules \in 0..MaxReschedules /\ MaxReschedules \in Nat
      BY <2>2, PipelineAssumption DEF Job
    <3>2. CASE f.reschedules + 1 > MaxReschedules
      BY <2>2, <3>2 DEF Job, JobStates
    <3>3. CASE ~(f.reschedules + 1 > MaxReschedules)
      <4>1. f.reschedules + 1 \in 0..MaxReschedules
        BY <3>1, <3>3
      <4> QED
        BY <2>2, <3>3, <4>1 DEF Job, JobStates
    <3> QED
      BY <3>2, <3>3
  <2> HIDE DEF r
  <2>4. u.stage # "monitor"
    BY <1>3, <2>1 DEF Course
  <2>5. NoneRuns(remote, j)
    BY <1>3, <2>1, <2>4 DEF TaskRuns, Unstarted, Submitting, Watching
  <2> HIDE DEF q, j, u
  <2> QED
    BY <1>1, <2>1, <2>3, <2>5, StageWrites DEF u, j, q
<1>11. CASE CommitObserve(s)
  <2> DEFINE st == u.status
  <2> DEFINE f == [q EXCEPT !.state = st, !.waiting = FALSE]
  <2>1. /\ u.pc = "commit" /\ u.todo = "observe"
        /\ Local(s, IF Terminal(st) THEN None ELSE ThenInsert(s))
        /\ queue' = [queue EXCEPT ![j] = IF Terminal(st) THEN FreedRecord(f) ELSE f]
    BY <1>3, <1>11 DEF CommitObserve, Commit, At
  <2>2. u.stage = "monitor"
    BY <1>3, <2>1 DEF Course
  <2>3. /\ f \in Job /\ f.alloc = q.alloc /\ f.cluster = q.cluster /\ f.handle = q.handle
        /\ f.state = st /\ st # "SUBMITTED"
    BY <1>2, <1>4 DEF Job, JobStates, NativeStates
  <2>4. CASE Terminal(st)
    <3>1. NoneRuns(remote, j)
      BY <1>3, <2>1, <2>2, <2>4 DEF TaskRuns
    <3> HIDE DEF f
    <3> DEFINE r == FreedRecord(f)
    <3>2. r \in Job /\ r.state # "SUBMITTED"
      BY <2>3 DEF FreedRecord, Job
    <3>3. Local(s, None) /\ queue' = [queue EXCEPT ![j] = r]
      BY <2>1, <2>4
    <3> HIDE DEF r, q, j, u
    <3> QED
      BY <1>1, <3>1, <3>2, <3>3, StageWrites DEF u, j, q
  <2>5. CASE ~Terminal(st)
    <3>1. OnlyRuns(remote, j, q.handle)
      BY <1>3, <2>2 DEF TaskRuns, Watching
    <3> HIDE DEF f
    <3> DEFINE t == ThenInsert(s)
    <3>2. /\ t.job = j /\ t.stage = "monitor" /\ t.pc = "insert" /\ t.todo = "observe"
      BY <1>5, <2>1, <2>2
    <3>3. Local(s, t) /\ queue' = [queue EXCEPT ![j] = f]
      BY <2>1, <2>5
    <3>4. t # None
      <4>1. t \in Task
        BY <1>2, NewJobIsJob DEF ThenInsert, Task
      <4> QED
        BY <4>1, NothingIsNone
    <3> HIDE DEF t, q, j, u
    <3>5. Course(t) /\ TaskRuns(remote, f, t)
      BY <2>3, <3>1, <3>2 DEF Course, TaskRuns, Unstarted, Submitting, Watching
    <3> QED
      BY <1>1, <2>3, <3>2, <3>3, <3>4, <3>5, StageWrites DEF u, j, q
  <2> QED
    BY <2>4, <2>5
<1> QED
  BY <1>6, <1>7, <1>8, <1>9, <1>10, <1>11

-----------------------------------------------------------------------------
(* The pass *)

\* A step of the pass that writes nothing.
LEMMA PassMoves ==
  ASSUME IInv, SInv,
         sched'.pc \in PlacingPcs =>
           /\ NoneRuns(remote, sched'.job)
           /\ sched'.rec.handle = None /\ queue[sched'.job].handle = None,
         sched'.pc # "insert",
         UNCHANGED <<queue, remote, tasks, canceller, cancelReq>>
  PROVE  SInv'
<1>1. RunsOK'
  BY DEF SInv, RunsOK, NoTask
<1>2. HandlesStill'
  BY DEF SInv, HandlesStill
<1>3. ReservedOK'
  BY DEF SInv, ReservedOK
<1> QED
  BY <1>1, <1>2, <1>3 DEF SInv

\* The pass writes the record of the job it is placing.
LEMMA PassRecords ==
  ASSUME IInv, SInv, NEW r \in Job, sched.pc \in PlacingPcs,
         queue' = [queue EXCEPT ![sched.job] = r], r.handle = None,
         sched'.pc \in {"idle", "get"}
           \/ (sched'.pc = "insert" /\ sched'.job = sched.job /\ r.alloc # None),
         UNCHANGED <<remote, tasks, canceller, cancelReq>>
  PROVE  SInv'
<1> DEFINE j == sched.job
<1>1. /\ j \in Jobs /\ queue[j] # None /\ NoTask(j) /\ NoneRuns(remote, j)
      /\ queue[j].handle = None
  BY DEF IInv, Known, PassOK, SInv, RunsOK, HandlesStill
<1>2. \A i \in Jobs : queue'[i] = IF i = j THEN r ELSE queue[i]
  BY <1>1 DEF IInv, TypeOK
<1>3. r # None
  BY NothingIsNone
<1>4. /\ \A s \in Slots : tasks[s] # None => tasks[s].job \in Jobs /\ tasks[s].job # j
      /\ canceller.pc = "commit" => canceller.job \in Jobs
      /\ \A h \in DOMAIN remote : remote[h].job \in Jobs
  BY <1>1 DEF NoTask, IInv, TypeOK, Known, Task, NativeJob
<1>5. RunsOK'
  <2>1. \A h \in DOMAIN remote : queue'[remote[h].job] # None
    BY <1>2, <1>3, <1>4 DEF SInv, RunsOK
  <2>2. \A i \in Jobs : queue'[i] # None /\ queue'[i].state = "SUBMITTED" => NoneRuns(remote, i)
    BY <1>1, <1>2 DEF SInv, RunsOK
  <2>3. \A i \in Jobs : queue'[i] # None /\ NoTask(i) => OnlyRuns(remote, i, queue'[i].handle)
    BY <1>1, <1>2 DEF SInv, RunsOK, NoneRuns, OnlyRuns
  <2>4. sched'.pc \in PlacingPcs \cup {"insert"} => NoneRuns(remote, sched'.job)
    BY <1>1 DEF PlacingPcs
  <2>5. \A s \in Slots : tasks[s] # None =>
          Course(tasks[s]) /\ TaskRuns(remote, queue'[tasks[s].job], tasks[s])
    BY <1>2, <1>4 DEF SInv, RunsOK
  <2> QED
    BY <2>1, <2>2, <2>3, <2>4, <2>5 DEF RunsOK, NoTask
<1>6. HandlesStill'
  <2>1. sched'.pc \notin PlacingPcs
    BY DEF PlacingPcs
  <2>2. \A i \in Jobs : queue'[i] # None /\ queue'[i].state = "SUBMITTED" => queue'[i].handle = None
    BY <1>2 DEF SInv, HandlesStill
  <2>3. canceller.pc = "commit" => canceller.rec.handle = queue'[canceller.job].handle
    BY <1>1, <1>2, <1>4 DEF SInv, HandlesStill
  <2> QED
    BY <2>1, <2>2, <2>3 DEF HandlesStill
<1>7. ReservedOK'
  <2>1. \A s \in Slots : tasks[s] # None /\ tasks[s].job \notin cancelReq =>
          HasReserved(queue'[tasks[s].job], tasks[s])
    BY <1>2, <1>4 DEF SInv, ReservedOK
  <2>2. sched'.pc = "insert" => queue'[sched'.job].alloc # None
    BY <1>1, <1>2
  <2>3. \A i \in Jobs : \A h : Runs(remote, h, i) /\ i \notin cancelReq =>
          queue'[i].alloc # None /\ queue'[i].cluster = remote[h].cluster
    BY <1>1, <1>2 DEF SInv, ReservedOK, NoneRuns
  <2> QED
    BY <2>1, <2>2, <2>3 DEF ReservedOK
<1> QED
  BY <1>5, <1>6, <1>7 DEF SInv

\* The job enters dispatch: river has taken it.
LEMMA PassHandsOver ==
  ASSUME IInv, SInv, "insert" \notin Faults, SchedDispatch
  PROVE  SInv'
<1> DEFINE j == sched.job
<1> DEFINE n == NewTask("dispatch", j)
<1>1. /\ sched.pc = "insert" /\ j \in Jobs /\ queue[j] # None /\ NoneRuns(remote, j)
      /\ sched' = Advance(sched.snapshot, sched.prov \ {j})
      /\ UNCHANGED <<queue, remote, canceller, cancelReq>>
  BY DEF SchedDispatch, IInv, Known, SInv, RunsOK
<1>2. PICK s \in Slots : tasks[s] = None /\ tasks' = [tasks EXCEPT ![s] = n]
  BY DEF SchedDispatch
<1>3. sched'.pc \in {"idle", "get"}
  BY <1>1, AdvanceHoldsNothing DEF IInv, TypeOK, Pass
<1>4. n.job = j /\ n.stage = "dispatch" /\ n.pc = "ready" /\ n.todo = None
  BY DEF NewTask
<1>5. Course(n) /\ TaskRuns(remote, queue[j], n)
  <2>1. None \notin Sections
    BY NoneAssumption
  <2> HIDE DEF n
  <2> QED
    BY <1>1, <1>4, <2>1 DEF Course, TaskRuns, Unstarted, Submitting, Watching, Sections
<1>6. j \notin cancelReq => HasReserved(queue[j], n)
  BY <1>1, <1>4 DEF SInv, ReservedOK, HasReserved
<1> HIDE DEF n
<1>7. \A r \in Slots : tasks'[r] = IF r = s THEN n ELSE tasks[r]
  BY <1>2 DEF IInv, TypeOK
<1>8. \A i : NoTask(i)' => NoTask(i)
  BY <1>2, <1>7 DEF NoTask
<1>9. RunsOK'
  <2>1. \A r \in Slots : tasks'[r] # None =>
          Course(tasks'[r]) /\ TaskRuns(remote, queue[tasks'[r].job], tasks'[r])
    BY <1>4, <1>5, <1>7 DEF SInv, RunsOK
  <2> QED
    BY <1>1, <1>3, <1>8, <2>1 DEF SInv, RunsOK, PlacingPcs
<1>10. HandlesStill'
  BY <1>1, <1>3 DEF SInv, HandlesStill, PlacingPcs
<1>11. ReservedOK'
  <2>1. \A r \in Slots : tasks'[r] # None /\ tasks'[r].job \notin cancelReq =>
          HasReserved(queue[tasks'[r].job], tasks'[r])
    BY <1>4, <1>6, <1>7 DEF SInv, ReservedOK
  <2> QED
    BY <1>1, <1>3, <2>1 DEF SInv, ReservedOK
<1> QED
  BY <1>9, <1>10, <1>11 DEF SInv

LEMMA PassRuns ==
  ASSUME IInv, SInv, "insert" \notin Faults, Sched
  PROVE  SInv'
<1> USE DEF PlacingPcs
<1>1. /\ sched \in Pass /\ sched.prov \subseteq Jobs /\ sched.snapshot \subseteq Jobs
      /\ sched.pc \in PlacingPcs =>
           /\ NoneRuns(remote, sched.job)
           /\ sched.rec.handle = None /\ queue[sched.job].handle = None
           /\ sched.job \in Jobs /\ sched.rec \in Job
  BY DEF IInv, TypeOK, Pass, Known, SInv, RunsOK, HandlesStill
<1>2. \A S, P \in SUBSET Jobs : Advance(S, P).pc \in {"idle", "get"}
  BY AdvanceHoldsNothing
<1>3. CASE SchedSnapshot
  <2>1. Provisional \in SUBSET Jobs
    BY DEF Provisional
  <2> QED
    BY <1>2, <1>3, <2>1, PassMoves DEF SchedSnapshot
<1>4. ASSUME NEW j \in Jobs, SchedGet(j) PROVE SInv'
  <2>1. CASE queue[j].state # "SUBMITTED"
    <3>1. sched' = Advance(sched.snapshot, sched.prov \ {j})
      BY <1>4, <2>1 DEF SchedGet
    <3>2. sched'.pc \in {"idle", "get"}
      BY <1>1, <1>2, <3>1
    <3> QED
      BY <1>4, <3>2, PassMoves DEF SchedGet
  <2>2. CASE queue[j].state = "SUBMITTED"
    <3>1. queue[j] # None
      BY <1>4 DEF SchedGet, First, IInv, Known
    <3>2. NoneRuns(remote, j) /\ queue[j].handle = None
      BY <2>2, <3>1 DEF SInv, RunsOK, HandlesStill
    <3>3. sched'.job = j /\ sched'.rec = queue[j] /\ sched'.pc # "insert"
      BY <1>1, <1>4, <2>2 DEF SchedGet, Pass
    <3> QED
      BY <1>4, <3>2, <3>3, PassMoves DEF SchedGet
  <2> QED
    BY <2>1, <2>2
<1>5. CASE SchedFail
  <2> DEFINE r == [sched.rec EXCEPT !.state = "FAILED", !.waiting = FALSE]
  <2>1. /\ sched.pc = "fail" /\ queue' = [queue EXCEPT ![sched.job] = r]
        /\ UNCHANGED <<remote, tasks, canceller, cancelReq>>
    BY <1>5 DEF SchedFail
  <2>2. r \in Job /\ r.handle = None
    BY <1>1, <2>1 DEF Job, JobStates
  <2>3. sched'.pc \in {"idle", "get"}
    BY <1>1, <1>2, <1>5 DEF SchedFail
  <2> HIDE DEF r
  <2> QED
    BY <2>1, <2>2, <2>3, PassRecords
<1>6. ASSUME NEW c \in Clusters, SchedAllocate(c) PROVE SInv'
  <2>1. /\ sched.pc = "place" /\ sched'.job = sched.job /\ sched'.rec = sched.rec
        /\ sched'.pc \in PlacingPcs
    BY <1>1, <1>6 DEF SchedAllocate, Pass
  <2> QED
    BY <1>1, <1>6, <2>1, PassMoves DEF SchedAllocate
<1>7. CASE SchedUpdate
  <2> DEFINE r == [sched.rec EXCEPT !.state = "MATCHED", !.alloc = sched.alloc,
                                    !.cluster = sched.cluster, !.waiting = FALSE]
  <2>1. /\ sched.pc = "update" /\ queue' = [queue EXCEPT ![sched.job] = r]
        /\ sched'.pc = "insert" /\ sched'.job = sched.job
        /\ UNCHANGED <<remote, tasks, canceller, cancelReq>>
    BY <1>1, <1>7 DEF SchedUpdate, Pass
  <2>2. sched.alloc \in Nat \cup {None} /\ sched.cluster \in Clusters \cup {None}
    BY <1>1 DEF Pass
  <2>3. sched.alloc # None
    BY <2>1, NothingIsNone DEF IInv, PassOK, TypeOK
  <2>4. r \in Job /\ r.handle = None /\ r.alloc # None
    BY <1>1, <2>1, <2>2, <2>3 DEF Job, JobStates
  <2> HIDE DEF r
  <2> QED
    BY <2>1, <2>4, PassRecords
<1>8. CASE SchedDispatch
  BY <1>8, PassHandsOver
<1>9. CASE SchedNote
  <2> DEFINE r == [sched.rec EXCEPT !.waiting = TRUE]
  <2>1. /\ sched.pc = "note"
        /\ UNCHANGED queue \/ queue' = [queue EXCEPT ![sched.job] = r]
        /\ UNCHANGED <<remote, tasks, canceller, cancelReq>>
    BY <1>9 DEF SchedNote
  <2>2. r \in Job /\ r.handle = None
    BY <1>1, <2>1 DEF Job, JobStates
  <2>3. sched'.pc \in {"idle", "get"}
    BY <1>1, <1>2, <1>9 DEF SchedNote, Idle
  <2> HIDE DEF r
  <2> QED
    BY <2>1, <2>2, <2>3, PassRecords, PassMoves
<1> QED
  BY <1>3, <1>4, <1>5, <1>6, <1>7, <1>8, <1>9 DEF Sched

-----------------------------------------------------------------------------
(* Submit, Cancel and the native jobs *)

\* A stamp alone is nothing the stages see.
LEMMA StampRuns == ASSUME SInv, NEW j \in Jobs, SubmitStamp(j) PROVE SInv'
<1>1. UNCHANGED <<queue, remote, sched, tasks, canceller, cancelReq>>
  BY DEF SubmitStamp
<1>2. RunsOK'
  BY <1>1 DEF SInv, RunsOK, NoTask
<1>3. HandlesStill' /\ ReservedOK'
  BY <1>1 DEF SInv, HandlesStill, ReservedOK
<1> QED
  BY <1>2, <1>3 DEF SInv

LEMMA SubmitRuns == ASSUME IInv, SInv, NEW j \in Jobs, SubmitEnqueue(j) PROVE SInv'
<1>1. /\ queue[j] = None /\ queue' = [queue EXCEPT ![j] = NewJob]
      /\ UNCHANGED <<remote, sched, tasks, canceller, cancelReq>>
  BY DEF SubmitEnqueue
<1>2. /\ \A i \in Jobs : queue'[i] = IF i = j THEN NewJob ELSE queue[i]
      /\ NewJob # None /\ NewJob.handle = None
  BY <1>1, NewJobIsJob, NothingIsNone DEF IInv, TypeOK
<1>3. /\ \A s \in Slots : tasks[s] # None => tasks[s].job \in Jobs /\ tasks[s].job # j
      /\ canceller.pc = "commit" => canceller.job \in Jobs /\ canceller.job # j
      /\ \A h \in DOMAIN remote : remote[h].job \in Jobs /\ remote[h].job # j
      /\ sched.pc \in PlacingPcs \cup {"insert"} => sched.job \in Jobs /\ sched.job # j
  BY <1>1 DEF IInv, TypeOK, Known, Task, NativeJob, SInv, RunsOK
<1>4. NoneRuns(remote, j)
  BY <1>3 DEF NoneRuns, Runs
<1>5. RunsOK'
  <2>1. \A h \in DOMAIN remote : queue'[remote[h].job] # None
    BY <1>2, <1>3 DEF SInv, RunsOK
  <2>2. \A i \in Jobs : queue'[i] # None /\ queue'[i].state = "SUBMITTED" => NoneRuns(remote, i)
    BY <1>2, <1>4 DEF SInv, RunsOK
  <2>3. \A i \in Jobs : queue'[i] # None /\ NoTask(i) => OnlyRuns(remote, i, queue'[i].handle)
    BY <1>2, <1>4 DEF SInv, RunsOK, NoneRuns, OnlyRuns
  <2>4. \A s \in Slots : tasks[s] # None =>
          Course(tasks[s]) /\ TaskRuns(remote, queue'[tasks[s].job], tasks[s])
    BY <1>2, <1>3 DEF SInv, RunsOK
  <2>5. sched.pc \in PlacingPcs \cup {"insert"} => NoneRuns(remote, sched.job)
    BY DEF SInv, RunsOK
  <2> QED
    BY <1>1, <2>1, <2>2, <2>3, <2>4, <2>5 DEF RunsOK, NoTask
<1>6. HandlesStill'
  BY <1>1, <1>2, <1>3 DEF SInv, HandlesStill
<1>7. ReservedOK'
  <2>1. \A s \in Slots : tasks[s] # None /\ tasks[s].job \notin cancelReq =>
          HasReserved(queue'[tasks[s].job], tasks[s])
    BY <1>2, <1>3 DEF SInv, ReservedOK
  <2>2. sched.pc = "insert" /\ sched.job \notin cancelReq => queue'[sched.job].alloc # None
    BY <1>2, <1>3 DEF SInv, ReservedOK
  <2>3. \A i \in Jobs : \A h : Runs(remote, h, i) /\ i \notin cancelReq =>
          queue'[i].alloc # None /\ queue'[i].cluster = remote[h].cluster
    BY <1>2, <1>4 DEF SInv, ReservedOK, NoneRuns
  <2> QED
    BY <1>1, <2>1, <2>2, <2>3 DEF ReservedOK
<1> QED
  BY <1>5, <1>6, <1>7 DEF SInv

\* The steps of Cancel that write nothing, and a native job that ends.
LEMMA CallerMoves ==
  ASSUME IInv, SInv, NEW g, StopRemote(g) \/ UNCHANGED remote,
         cancelReq \subseteq cancelReq',
         canceller'.pc = "commit" => canceller'.rec.handle = queue[canceller'.job].handle,
         UNCHANGED <<queue, sched, tasks>>
  PROVE  SInv'
<1>1. /\ DOMAIN remote' = DOMAIN remote
      /\ \A h \in DOMAIN remote : remote'[h].job = remote[h].job
      /\ \A h, i : Runs(remote', h, i) => Runs(remote, h, i) /\ remote'[h].cluster = remote[h].cluster
  BY StopRuns DEF IInv
<1>2. /\ \A j : NoneRuns(remote, j) => NoneRuns(remote', j)
      /\ \A j, h : OnlyRuns(remote, j, h) => OnlyRuns(remote', j, h)
      /\ \A q, t : TaskRuns(remote, q, t) => TaskRuns(remote', q, t)
  BY <1>1, FewerTaskRuns
<1>3. RunsOK'
  BY <1>1, <1>2 DEF SInv, RunsOK, NoTask
<1>4. HandlesStill'
  BY DEF SInv, HandlesStill
<1>5. ReservedOK'
  BY <1>1 DEF SInv, ReservedOK
<1> QED
  BY <1>3, <1>4, <1>5 DEF SInv

LEMMA CancelRuns == ASSUME IInv, SInv, Cancel PROVE SInv'
<1>1. canceller \in Caller
  BY DEF IInv, TypeOK
<1>2. ASSUME NEW j \in Jobs, CancelBegin(j) PROVE SInv'
  <2>1. canceller'.pc # "commit"
    BY <1>2 DEF CancelBegin
  <2> QED
    BY <1>2, <2>1, CallerMoves DEF CancelBegin
<1>3. CASE CancelRemote
  <2>1. canceller'.pc # "commit"
    BY <1>1, <1>3 DEF CancelRemote, Caller
  <2> QED
    BY <1>3, <2>1, CallerMoves DEF CancelRemote
<1>4. CASE CancelLock
  <2>1. canceller'.job = canceller.job /\ canceller'.rec = queue[canceller.job]
    BY <1>1, <1>4 DEF CancelLock, Caller
  <2> QED
    BY <1>4, <2>1, CallerMoves DEF CancelLock
<1>5. CASE CancelCommit
  <2> DEFINE j == canceller.job
  <2> DEFINE r == [FreedRecord(canceller.rec) EXCEPT !.state = "FAILED", !.waiting = FALSE]
  <2>1. /\ canceller.pc = "commit" /\ canceller' = NoClient
        /\ queue' = [queue EXCEPT ![j] = r]
        /\ UNCHANGED <<remote, sched, tasks, cancelReq>>
    BY <1>5 DEF CancelCommit
  <2>2. j \in Jobs /\ j \in cancelReq /\ queue[j] # None /\ canceller.rec.handle = queue[j].handle
    BY <2>1 DEF IInv, Known, TypeOK, SInv, HandlesStill
  <2>3. r \in Job /\ r.state = "FAILED" /\ r.handle = queue[j].handle
    BY <1>1, <2>2 DEF Caller, Job, JobStates, FreedRecord
  <2> HIDE DEF r
  <2>4. /\ \A i \in Jobs : queue'[i] = IF i = j THEN r ELSE queue[i]
        /\ r # None
    BY <2>1, <2>3, NothingIsNone DEF IInv, TypeOK
  <2>5. /\ \A i \in Jobs : queue[i] # None => queue'[i] # None /\ queue'[i].handle = queue[i].handle
        /\ \A i \in Jobs : queue'[i] # None => queue[i] # None
        /\ \A i \in Jobs : i \notin cancelReq => queue'[i] = queue[i]
    BY <2>2, <2>3, <2>4
  <2>6. /\ \A s \in Slots : tasks[s] # None => tasks[s].job \in Jobs /\ queue[tasks[s].job] # None
        /\ \A h \in DOMAIN remote : remote[h].job \in Jobs
        /\ sched.pc \in PlacingPcs \cup {"insert"} => sched.job \in Jobs /\ queue[sched.job] # None
    BY DEF IInv, TypeOK, Known, Task, NativeJob
  <2>7. RunsOK'
    <3>1. \A h \in DOMAIN remote : queue'[remote[h].job] # None
      BY <2>5, <2>6 DEF SInv, RunsOK
    <3>2. \A i \in Jobs : queue'[i] # None /\ queue'[i].state = "SUBMITTED" => NoneRuns(remote, i)
      BY <2>3, <2>4 DEF SInv, RunsOK
    <3>3. \A i \in Jobs : queue'[i] # None /\ NoTask(i) => OnlyRuns(remote, i, queue'[i].handle)
      BY <2>5 DEF SInv, RunsOK
    <3>4. \A s \in Slots : tasks[s] # None =>
            Course(tasks[s]) /\ TaskRuns(remote, queue'[tasks[s].job], tasks[s])
      BY <2>5, <2>6 DEF SInv, RunsOK, TaskRuns
    <3>5. sched.pc \in PlacingPcs \cup {"insert"} => NoneRuns(remote, sched.job)
      BY DEF SInv, RunsOK
    <3> QED
      BY <2>1, <3>1, <3>2, <3>3, <3>4, <3>5 DEF RunsOK, NoTask
  <2>8. HandlesStill'
    <3>1. \A i \in Jobs : queue'[i] # None /\ queue'[i].state = "SUBMITTED" => queue'[i].handle = None
      BY <2>3, <2>4 DEF SInv, HandlesStill
    <3>2. sched.pc \in PlacingPcs => sched.rec.handle = None /\ queue'[sched.job].handle = None
      BY <2>5, <2>6 DEF SInv, HandlesStill
    <3>3. canceller'.pc # "commit"
      BY <2>1 DEF NoClient
    <3> QED
      BY <2>1, <3>1, <3>2, <3>3 DEF HandlesStill
  <2>9. ReservedOK'
    <3>1. \A s \in Slots : tasks[s] # None /\ tasks[s].job \notin cancelReq =>
            HasReserved(queue'[tasks[s].job], tasks[s])
      BY <2>5, <2>6 DEF SInv, ReservedOK
    <3>2. sched.pc = "insert" /\ sched.job \notin cancelReq => queue'[sched.job].alloc # None
      BY <2>5, <2>6 DEF SInv, ReservedOK
    <3>3. \A i \in Jobs : \A h : Runs(remote, h, i) /\ i \notin cancelReq =>
            queue'[i].alloc # None /\ queue'[i].cluster = remote[h].cluster
      BY <2>5 DEF SInv, ReservedOK
    <3> QED
      BY <2>1, <3>1, <3>2, <3>3 DEF ReservedOK
  <2> QED
    BY <2>7, <2>8, <2>9 DEF SInv
<1> QED
  BY <1>2, <1>3, <1>4, <1>5 DEF Cancel

LEMMA StutterRuns == ASSUME SInv, UNCHANGED vars PROVE SInv'
<1>1. RunsOK'
  BY DEF SInv, RunsOK, NoTask, vars
<1>2. HandlesStill' /\ ReservedOK'
  BY DEF SInv, HandlesStill, ReservedOK, vars
<1> QED
  BY <1>1, <1>2 DEF SInv

-----------------------------------------------------------------------------

LEMMA InitSInv == Init => SInv
<1> SUFFICES ASSUME Init PROVE SInv
  OBVIOUS
<1>1. /\ queue = [j \in Jobs |-> None] /\ DOMAIN remote = {} /\ sched.pc = "idle"
      /\ tasks = [s \in Slots |-> None] /\ canceller.pc = "idle" /\ cancelReq = {}
  BY DEF Init, Idle, NoClient
<1>2. RunsOK
  BY <1>1 DEF RunsOK, PlacingPcs
<1>3. HandlesStill
  BY <1>1 DEF HandlesStill, PlacingPcs
<1>4. ReservedOK
  BY <1>1 DEF ReservedOK, Runs
<1> QED
  BY <1>2, <1>3, <1>4 DEF SInv

LEMMA NextSInv == ASSUME "insert" \notin Faults, IInv, SInv, [Next]_vars PROVE SInv'
<1>1. ASSUME NEW j \in Jobs, SubmitStamp(j) \/ SubmitEnqueue(j) PROVE SInv'
  BY <1>1, StampRuns, SubmitRuns
<1>2. ASSUME Sched PROVE SInv'
  BY <1>2, PassRuns
<1>3. ASSUME NEW s \in Slots, Stage(s) PROVE SInv'
  BY <1>3, QuietSteps, DriverSteps, WriteSteps DEF Stage
<1>4. ASSUME NEW h \in DOMAIN remote, RemoteFinish(h) PROVE SInv'
  <2>1. StopRemote(h) /\ UNCHANGED <<queue, sched, tasks, canceller, cancelReq>>
    BY <1>4 DEF RemoteFinish, StopRemote
  <2> QED
    BY <2>1, CallerMoves DEF SInv, HandlesStill
<1>5. ASSUME Cancel PROVE SInv'
  BY <1>5, CancelRuns
<1>6. ASSUME Quiet \/ UNCHANGED vars PROVE SInv'
  BY <1>6, StutterRuns DEF Quiet
<1> QED
  BY <1>1, <1>2, <1>3, <1>4, <1>5, <1>6 DEF Next

\* Which native job can run for a job, at every point of its stages, and what
\* it has reserved, when river takes what is inserted (pipeline.go:162-339).
THEOREM StagesInductive == ASSUME "insert" \notin Faults PROVE Spec => []SInv
<1>1. IInv /\ SInv /\ [Next]_vars => SInv'
  BY NextSInv
<1> QED
  BY <1>1, InitSInv, Inductive, PTL DEF Spec

\* A native job runs only on a cluster where its fluxq job holds a live
\* allocation, unless it was cancelled, however the attempts come out
\* (pipeline.go:162-339).
THEOREM ReservedRuns == ASSUME "insert" \notin Faults PROVE Spec => []RunsReserved
<1>1. ASSUME IInv, SInv PROVE RunsReserved
  <2>1. SUFFICES ASSUME NEW h \in DOMAIN remote, remote[h].state = "RUNNING",
                        remote[h].job \notin cancelReq
                 PROVE  \E a \in DOMAIN live :
                          live[a] = [job |-> remote[h].job, cluster |-> remote[h].cluster]
    BY DEF RunsReserved
  <2> DEFINE j == remote[h].job
  <2>2. j \in Jobs /\ queue[j] # None
    BY <1>1 DEF IInv, TypeOK, NativeJob, SInv, RunsOK
  <2>3. queue[j].alloc # None /\ queue[j].cluster = remote[h].cluster
    BY <1>1, <2>1, <2>2 DEF SInv, ReservedOK, Runs
  <2> QED
    BY <1>1, <2>2, <2>3 DEF IInv, OwnAllocation, Submitted
<1> QED
  BY <1>1, Inductive, StagesInductive, PTL

\* No job is in two stages or has two native jobs running, across repairs,
\* reschedules and Cancel (river.go:73-131).
THEOREM RunsOnce == ASSUME "insert" \notin Faults PROVE Spec => []OneAtATime
<1>1. ASSUME IInv, SInv PROVE OneAtATime
  <2>1. ASSUME NEW j \in Jobs, queue[j] # None
        PROVE  \E g : OnlyRuns(remote, j, g)
    <3>1. CASE NoTask(j)
      BY <1>1, <2>1, <3>1 DEF SInv, RunsOK
    <3>2. ASSUME NEW s \in Slots, tasks[s] # None, tasks[s].job = j
          PROVE  \E g : OnlyRuns(remote, j, g)
      <4>1. TaskRuns(remote, queue[j], tasks[s])
        BY <1>1, <3>2 DEF SInv, RunsOK
      <4> QED
        BY <3>2, <4>1 DEF TaskRuns, Unstarted, NoneRuns, OnlyRuns
    <3> QED
      BY <3>1, <3>2 DEF NoTask
  <2>2. ASSUME NEW h \in DOMAIN remote, NEW g \in DOMAIN remote, h # g,
               remote[h].state = "RUNNING", remote[g].state = "RUNNING",
               remote[h].job = remote[g].job
        PROVE  FALSE
    <3>1. remote[h].job \in Jobs /\ queue[remote[h].job] # None
      BY <1>1 DEF IInv, TypeOK, NativeJob, SInv, RunsOK
    <3> QED
      BY <2>1, <2>2, <3>1 DEF OnlyRuns, Runs
  <2> QED
    BY <1>1, <2>2 DEF OneAtATime, IInv, OneStage
<1> QED
  BY <1>1, Inductive, StagesInductive, PTL

-----------------------------------------------------------------------------
(* Who releases an allocation *)

\* A slot is given up only with the allocation.
LEMMA SlotHolds ==
  ASSUME IInv, HeldByAStage, NEW s \in Slots, NEW t, tasks[s] # None, Local(s, t),
         t # None => t.job = tasks[s].job,
         t = None => queue'[tasks[s].job].alloc = None,
         UNCHANGED queue \/ \E r \in Job : queue' = [queue EXCEPT ![tasks[s].job] = r],
         UNCHANGED sched
  PROVE  HeldByAStage'
<1>1. \A r \in Slots : tasks'[r] = IF r = s THEN t ELSE tasks[r]
  BY DEF Local, IInv, TypeOK
<1>2. tasks[s].job \in Jobs
  BY SlotFacts
<1>3. \A i \in Jobs : i # tasks[s].job => queue'[i] = queue[i]
  BY <1>2 DEF IInv, TypeOK
<1> QED
  BY <1>1, <1>2, <1>3 DEF HeldByAStage, Submitted

\* A job that has finished holds nothing.
LEMMA FinishedHoldsNothing ==
  ASSUME IInv, NEW j \in Jobs, queue[j] # None, Terminal(queue[j].state)
  PROVE  queue[j].alloc = None
BY DEF IInv, OwnAllocation, Submitted

LEMMA StageHolds ==
  ASSUME IInv, SInv, HeldByAStage, "insert" \notin Faults, "transient" \notin Outcomes,
         NEW s \in Slots, Stage(s)
  PROVE  HeldByAStage'
<1> DEFINE u == tasks[s]
<1> DEFINE j == u.job
<1> DEFINE q == queue[j]
<1>1. u # None /\ UNCHANGED sched
  BY DEF Stage, DispatchBegin, DispatchMark, RepairBegin, Attempt, ReschedulePeek,
         RescheduleCancel, MonitorBegin, MonitorStatus, Lock, CommitRunning, CommitKeep,
         CommitFail, CommitReschedule, CommitObserve, Commit, Insert, At
<1>2. u \in Task /\ j \in Jobs /\ q \in Job /\ q # None
  BY <1>1, SlotFacts
<1>3. Terminal(q.state) => q.alloc = None
  BY <1>2, FinishedHoldsNothing
<1>4. Course(u) /\ (u.pc \in {"mark", "commit"} => u.rec = q)
  BY <1>1, SlotRuns
<1>5. ThenInsert(s).job = j
  BY <1>2 DEF ThenInsert, Task
<1>6. CASE DispatchBegin(s)
  <2>1. PICK t : Local(s, t) /\ \/ t = None /\ Terminal(q.state)
                                \/ t = [u EXCEPT !.pc = "mark", !.rec = q]
    BY <1>6 DEF DispatchBegin
  <2>2. UNCHANGED queue /\ (t # None => t.job = j)
    BY <1>2, <1>6, <2>1 DEF DispatchBegin, Task
  <2>3. t = None => q.alloc = None
    <3>1. [u EXCEPT !.pc = "mark", !.rec = q] \in Task
      BY <1>2 DEF Task
    <3> QED
      BY <1>3, <2>1, <3>1, NothingIsNone
  <2> QED
    BY <1>1, <2>1, <2>2, <2>3, SlotHolds
<1>7. CASE RepairBegin(s)
  <2>1. PICK t : Local(s, t) /\ \/ t = None /\ Terminal(q.state)
                                \/ t = [u EXCEPT !.pc = "attempt", !.rec = q]
    BY <1>7 DEF RepairBegin
  <2>2. UNCHANGED queue /\ (t # None => t.job = j)
    BY <1>2, <1>7, <2>1 DEF RepairBegin, Task
  <2>3. t = None => q.alloc = None
    <3>1. [u EXCEPT !.pc = "attempt", !.rec = q] \in Task
      BY <1>2 DEF Task
    <3> QED
      BY <1>3, <2>1, <3>1, NothingIsNone
  <2> QED
    BY <1>1, <2>1, <2>2, <2>3, SlotHolds
<1>8. CASE MonitorBegin(s)
  <2>1. PICK t : Local(s, t) /\ \/ t = None /\ Terminal(q.state)
                                \/ \E pc \in {"insert", "status"} :
                                     t = [u EXCEPT !.handle = q.handle, !.pc = pc]
    BY <1>8 DEF MonitorBegin
  <2>2. UNCHANGED queue /\ (t # None => t.job = j)
    BY <1>2, <1>8, <2>1 DEF MonitorBegin, Task
  <2>3. t = None => q.alloc = None
    <3>1. \A pc \in {"insert", "status"} : [u EXCEPT !.handle = q.handle, !.pc = pc] \in Task
      BY <1>2 DEF Task, Job
    <3> QED
      BY <1>3, <2>1, <3>1, NothingIsNone
  <2> QED
    BY <1>1, <2>1, <2>2, <2>3, SlotHolds
<1>9. ASSUME NEW t \in Task, t.job = j, Local(s, t),
             UNCHANGED queue \/ \E r \in Job : queue' = [queue EXCEPT ![j] = r]
      PROVE  HeldByAStage'
  BY <1>1, <1>9, SlotHolds, NothingIsNone
<1>10. ASSUME NEW r \in Job, r.alloc = None, Local(s, None), queue' = [queue EXCEPT ![j] = r]
       PROVE  HeldByAStage'
  <2>1. queue'[j] = r
    BY <1>2, <1>10 DEF IInv, TypeOK
  <2> QED
    BY <1>1, <1>10, <2>1, SlotHolds
<1>11. CASE DispatchMark(s)
  <2> DEFINE r == [q EXCEPT !.state = "DISPATCHING"]
  <2> DEFINE t == [u EXCEPT !.pc = "attempt", !.rec = r]
  <2>1. Local(s, t) /\ queue' = [queue EXCEPT ![j] = r]
    BY <1>4, <1>11 DEF DispatchMark, At
  <2>2. r \in Job
    BY <1>2 DEF Job, JobStates
  <2> HIDE DEF r
  <2>3. t \in Task /\ t.job = j
    BY <1>2, <2>2 DEF Task
  <2> QED
    BY <1>9, <2>1, <2>2, <2>3
<1>12. CASE Attempt(s)
  <2> DEFINE v == [u EXCEPT !.rec = NewJob]
  <2>1. v \in Task /\ v.job = j
    BY <1>2, NewJobIsJob DEF Task
  <2>2. \A pc, todo : pc \in {"lock", "peek"} /\ todo \in Sections =>
          /\ [v EXCEPT !.pc = pc, !.todo = todo] \in Task
          /\ [v EXCEPT !.pc = pc, !.todo = todo].job = j
    BY <2>1 DEF Task
  <2>3. \A outcome \in Outcomes \cup {"hardFail"} : outcome # "success" =>
          Routed(v, outcome) \in Task /\ Routed(v, outcome).job = j
    <3> HIDE DEF v, j
    <3> QED
      BY <2>2 DEF Routed, Sections
  <2>4. \A h \in Nat : /\ [Routed(v, "success") EXCEPT !.handle = h] \in Task
                       /\ [Routed(v, "success") EXCEPT !.handle = h].job = j
    <3> DEFINE w == [v EXCEPT !.pc = "lock", !.todo = "running"]
    <3>1. Routed(v, "success") = w
      BY DEF Routed
    <3>2. w \in Task /\ w.job = j
      BY <2>2 DEF Sections
    <3> HIDE DEF v, w, j
    <3> QED
      BY <3>1, <3>2 DEF Task
  <2>5. Cardinality(DOMAIN remote) + 1 \in Nat
    BY FS_CardinalityType DEF IInv, TypeOK
  <2>6. \E t \in Task : t.job = j /\ Local(s, t)
    <3>1. \/ Local(s, Routed(v, "hardFail"))
          \/ Local(s, [Routed(v, "success") EXCEPT !.handle = Cardinality(DOMAIN remote) + 1])
          \/ \E outcome \in Outcomes \ {"success"} : Local(s, Routed(v, outcome))
      BY <1>12 DEF Attempt
    <3> HIDE DEF v, j
    <3> QED
      BY <2>3, <2>4, <2>5, <3>1
  <2>7. UNCHANGED queue
    BY <1>12 DEF Attempt
  <2> QED
    BY <1>9, <2>6, <2>7
<1>13. CASE ReschedulePeek(s)
  <2>1. PICK pc \in {"lock", "cancelRemote"} : Local(s, [u EXCEPT !.handle = q.handle, !.pc = pc])
    BY <1>13 DEF ReschedulePeek
  <2> DEFINE t == [u EXCEPT !.handle = q.handle, !.pc = pc]
  <2>2. t \in Task /\ t.job = j
    BY <1>2 DEF Task, Job
  <2> QED
    BY <1>9, <1>13, <2>1, <2>2 DEF ReschedulePeek
<1>14. CASE RescheduleCancel(s)
  <2>1. [u EXCEPT !.pc = "lock"] \in Task /\ [u EXCEPT !.pc = "lock"].job = j
    BY <1>2 DEF Task
  <2> QED
    BY <1>9, <1>14, <2>1 DEF RescheduleCancel
<1>15. CASE MonitorStatus(s)
  <2>1. u.handle \in DOMAIN remote
    BY <1>1, <1>15 DEF MonitorStatus, At, IInv, HandlesKnown, HandleKnown
  <2>2. remote[u.handle].state \in NativeStates
    BY <2>1 DEF IInv, TypeOK, NativeJob
  <2> DEFINE t == [u EXCEPT !.pc = "lock", !.todo = "observe", !.status = remote[u.handle].state]
  <2>3. /\ t \in Task /\ t.job = j
        /\ [u EXCEPT !.pc = "insert"] \in Task /\ [u EXCEPT !.pc = "insert"].job = j
    BY <1>2, <2>2 DEF Task, Sections
  <2>4. UNCHANGED queue /\ (Local(s, t) \/ Local(s, [u EXCEPT !.pc = "insert"]))
    BY <1>15 DEF MonitorStatus
  <2> HIDE DEF t
  <2> QED
    BY <1>9, <2>3, <2>4
<1>16. CASE Lock(s)
  <2> DEFINE t == [u EXCEPT !.pc = "commit", !.rec = q]
  <2>1. t \in Task /\ t.job = j
    BY <1>2 DEF Task
  <2> QED
    BY <1>9, <1>16, <2>1 DEF Lock
<1>17. CASE Insert(s)
  <2> DEFINE t == NewTask(NextStage(u), j)
  <2>1. t \in Task /\ t.job = j
    BY <1>2, NewJobIsJob DEF NewTask, NextStage, Task, NativeStates
  <2> QED
    BY <1>9, <1>17, <2>1 DEF Insert
<1>18. ThenInsert(s) \in Task
  BY <1>2, NewJobIsJob DEF ThenInsert, Task
<1>19. CASE CommitRunning(s)
  <2> DEFINE r == [q EXCEPT !.state = "RUNNING", !.handle = u.handle, !.waiting = FALSE]
  <2>1. r \in Job
    BY <1>2 DEF Job, JobStates, Task
  <2>2. Local(s, ThenInsert(s)) /\ queue' = [queue EXCEPT ![j] = r]
    BY <1>4, <1>19 DEF CommitRunning, Commit, At
  <2> QED
    BY <1>5, <1>9, <1>18, <2>1, <2>2
<1>20. CASE CommitKeep(s)
  <2> DEFINE r == [q EXCEPT !.waiting = FALSE]
  <2> DEFINE t == IF u.stage = "dispatch" THEN ThenInsert(s) ELSE Retry(u)
  <2>1. /\ u.pc = "commit" /\ u.todo = "keep" /\ Local(s, t)
        /\ queue' = [queue EXCEPT ![j] = r]
    BY <1>4, <1>20 DEF CommitKeep, Commit, At
  <2>2. r \in Job
    BY <1>2 DEF Job
  <2>3. t \in Task /\ t.job = j
    <3>1. CASE u.stage = "dispatch"
      BY <1>5, <1>18, <3>1
    <3>2. CASE u.stage # "dispatch"
      <4>1. u.stage = "repair"
        BY <1>2, <1>4, <2>1, <3>2 DEF Course, Task
      <4>2. u.attempt < MaxAttempts(u)
        BY <1>4, <2>1, <4>1 DEF Course, MaxAttempts
      <4>3. Retry(u) # None
        <5>1. Retry(u) = [NewTask(u.stage, j) EXCEPT !.attempt = u.attempt + 1]
          BY <4>2 DEF Retry
        <5>2. u.attempt + 1 \in Nat \ {0}
          BY <1>2 DEF Task
        <5>3. NewTask(u.stage, j) \in Task
          BY <1>2, NewJobIsJob DEF NewTask, Task, NativeStates
        <5>4. [NewTask(u.stage, j) EXCEPT !.attempt = u.attempt + 1] \in Task
          <6> DEFINE n == NewTask(u.stage, j)
          <6> HIDE DEF n
          <6> QED
            BY <5>2, <5>3 DEF Task
        <5> QED
          BY <5>1, <5>4, NothingIsNone
      <4> QED
        BY <1>2, <3>2, <4>3, RetryFollows
    <3> QED
      BY <3>1, <3>2
  <2> HIDE DEF t, r
  <2> QED
    BY <1>9, <2>1, <2>2, <2>3
<1>21. CASE CommitFail(s)
  <2> DEFINE r == [FreedRecord(q) EXCEPT !.state = "FAILED", !.waiting = FALSE]
  <2>1. r \in Job /\ r.alloc = None
    BY <1>2 DEF FreedRecord, Job, JobStates
  <2>2. Local(s, None) /\ queue' = [queue EXCEPT ![j] = r]
    BY <1>4, <1>21 DEF CommitFail, Commit, At
  <2> QED
    BY <1>10, <2>1, <2>2
<1>22. CASE CommitReschedule(s)
  <2> DEFINE f == [FreedRecord(q) EXCEPT !.handle = None, !.waiting = FALSE]
  <2> DEFINE r == IF f.reschedules + 1 > MaxReschedules
                    THEN [f EXCEPT !.state = "FAILED"]
                    ELSE [f EXCEPT !.state = "SUBMITTED", !.cluster = None,
                                   !.reschedules = @ + 1]
  <2>1. Local(s, None) /\ queue' = [queue EXCEPT ![j] = r]
    BY <1>4, <1>22 DEF CommitReschedule, Commit, At
  <2>2. f \in Job /\ f.alloc = None
    BY <1>2 DEF FreedRecord, Job
  <2> HIDE DEF f
  <2>3. r \in Job /\ r.alloc = None
    <3>1. f.reschedules \in 0..MaxReschedules /\ MaxReschedules \in Nat
      BY <2>2, PipelineAssumption DEF Job
    <3>2. CASE f.reschedules + 1 > MaxReschedules
      BY <2>2, <3>2 DEF Job, JobStates
    <3>3. CASE ~(f.reschedules + 1 > MaxReschedules)
      <4>1. f.reschedules + 1 \in 0..MaxReschedules
        BY <3>1, <3>3
      <4> QED
        BY <2>2, <3>3, <4>1 DEF Job, JobStates
    <3> QED
      BY <3>2, <3>3
  <2> QED
    BY <1>10, <2>1, <2>3
<1>23. CASE CommitObserve(s)
  <2> DEFINE st == u.status
  <2> DEFINE f == [q EXCEPT !.state = st, !.waiting = FALSE]
  <2>1. /\ Local(s, IF Terminal(st) THEN None ELSE ThenInsert(s))
        /\ queue' = [queue EXCEPT ![j] = IF Terminal(st) THEN FreedRecord(f) ELSE f]
    BY <1>4, <1>23 DEF CommitObserve, Commit, At
  <2>2. f \in Job
    BY <1>2 DEF Job, JobStates, Task, NativeStates
  <2> HIDE DEF f
  <2>3. FreedRecord(f) \in Job /\ FreedRecord(f).alloc = None
    BY <2>2 DEF FreedRecord, Job
  <2>4. CASE Terminal(st)
    BY <1>10, <2>1, <2>3, <2>4
  <2>5. CASE ~Terminal(st)
    BY <1>5, <1>9, <1>18, <2>1, <2>2, <2>5
  <2> QED
    BY <2>4, <2>5
<1> QED
  BY <1>6, <1>7, <1>8, <1>11, <1>12, <1>13, <1>14, <1>15, <1>16, <1>17, <1>19, <1>20,
     <1>21, <1>22, <1>23 DEF Stage

\* The pass hands a job over with its allocation.
LEMMA PassHolds ==
  ASSUME IInv, HeldByAStage, "insert" \notin Faults, Sched
  PROVE  HeldByAStage'
<1> USE DEF PlacingPcs
<1>1. /\ sched \in Pass
      /\ sched.pc \in PlacingPcs => /\ sched.job \in Jobs /\ queue[sched.job].alloc = None
                                   /\ sched.rec.alloc = None /\ sched.rec \in Job
  BY DEF IInv, TypeOK, Pass, Known, PassOK
<1>2. ASSUME NEW r \in Job, queue' = [queue EXCEPT ![sched.job] = r], sched.pc \in PlacingPcs,
             r.alloc = None \/ (sched'.pc = "insert" /\ sched'.job = sched.job),
             UNCHANGED tasks
      PROVE  HeldByAStage'
  <2>1. \A i \in Jobs : queue'[i] = IF i = sched.job THEN r ELSE queue[i]
    BY <1>1, <1>2 DEF IInv, TypeOK
  <2> QED
    BY <1>2, <2>1 DEF HeldByAStage, Submitted
<1>3. CASE SchedSnapshot \/ (\E j \in Jobs : SchedGet(j)) \/ (\E c \in Clusters : SchedAllocate(c))
  <2>1. sched.pc # "insert" /\ UNCHANGED <<queue, tasks>>
    BY <1>3 DEF SchedSnapshot, SchedGet, SchedAllocate
  <2> QED
    BY <2>1 DEF HeldByAStage, Submitted
<1>4. CASE SchedFail
  <2> DEFINE r == [sched.rec EXCEPT !.state = "FAILED", !.waiting = FALSE]
  <2>1. sched.pc = "fail" /\ queue' = [queue EXCEPT ![sched.job] = r] /\ UNCHANGED tasks
    BY <1>4 DEF SchedFail
  <2>2. r \in Job /\ r.alloc = None
    BY <1>1, <2>1 DEF Job, JobStates
  <2> QED
    BY <1>2, <2>1, <2>2
<1>5. CASE SchedNote
  <2> DEFINE r == [sched.rec EXCEPT !.waiting = TRUE]
  <2>1. /\ sched.pc = "note" /\ UNCHANGED tasks
        /\ UNCHANGED queue \/ queue' = [queue EXCEPT ![sched.job] = r]
    BY <1>5 DEF SchedNote
  <2>2. r \in Job /\ r.alloc = None
    BY <1>1, <2>1 DEF Job
  <2> HIDE DEF r
  <2>3. CASE UNCHANGED queue
    BY <2>1, <2>3 DEF HeldByAStage, Submitted
  <2> QED
    BY <1>2, <2>1, <2>2, <2>3
<1>6. CASE SchedUpdate
  <2> DEFINE r == [sched.rec EXCEPT !.state = "MATCHED", !.alloc = sched.alloc,
                                    !.cluster = sched.cluster, !.waiting = FALSE]
  <2>1. /\ sched.pc = "update" /\ queue' = [queue EXCEPT ![sched.job] = r] /\ UNCHANGED tasks
        /\ sched'.pc = "insert" /\ sched'.job = sched.job
    BY <1>1, <1>6 DEF SchedUpdate, Pass
  <2>2. sched.alloc \in Nat \cup {None} /\ sched.cluster \in Clusters \cup {None}
    BY <1>1 DEF Pass
  <2>3. r \in Job
    BY <1>1, <2>1, <2>2 DEF Job, JobStates
  <2> QED
    BY <1>2, <2>1, <2>3
<1>7. CASE SchedDispatch
  <2> DEFINE n == NewTask("dispatch", sched.job)
  <2>1. PICK s \in Slots : tasks[s] = None /\ tasks' = [tasks EXCEPT ![s] = n]
    BY <1>7 DEF SchedDispatch
  <2>2. UNCHANGED queue /\ sched.job \in Jobs
    BY <1>7 DEF SchedDispatch, IInv, Known
  <2>3. n \in Task /\ n.job = sched.job
    BY <2>2, NewJobIsJob, PipelineAssumption DEF NewTask, Task, NativeStates
  <2> HIDE DEF n
  <2>4. \A r \in Slots : tasks'[r] = IF r = s THEN n ELSE tasks[r]
    BY <2>1 DEF IInv, TypeOK
  <2>5. n # None
    BY <2>3, NothingIsNone
  <2> QED
    BY <2>1, <2>2, <2>3, <2>4, <2>5 DEF HeldByAStage, Submitted
<1> QED
  BY <1>3, <1>4, <1>5, <1>6, <1>7 DEF Sched

LEMMA NextHolds ==
  ASSUME "insert" \notin Faults, "transient" \notin Outcomes,
         IInv, SInv, HeldByAStage, [Next]_vars
  PROVE  HeldByAStage'
<1>1. ASSUME UNCHANGED <<queue, sched, tasks>> PROVE HeldByAStage'
  BY <1>1 DEF HeldByAStage, Submitted
<1>2. ASSUME NEW j \in Jobs, NEW r \in Job, r.alloc = None,
             queue' = [queue EXCEPT ![j] = r], UNCHANGED <<sched, tasks>>
      PROVE  HeldByAStage'
  <2>1. \A i \in Jobs : queue'[i] = IF i = j THEN r ELSE queue[i]
    BY <1>2 DEF IInv, TypeOK
  <2>2. \A i \in Jobs : queue'[i] # None /\ queue'[i].alloc # None =>
          queue[i] # None /\ queue[i].alloc # None
    BY <1>2, <2>1
  <2> QED
    BY <1>2, <2>2 DEF HeldByAStage, Submitted
<1>3. ASSUME NEW j \in Jobs, SubmitStamp(j) \/ SubmitEnqueue(j) PROVE HeldByAStage'
  BY <1>1, <1>2, <1>3, NewJobIsJob DEF SubmitStamp, SubmitEnqueue
<1>4. ASSUME Sched PROVE HeldByAStage'
  BY <1>4, PassHolds
<1>5. ASSUME NEW s \in Slots, Stage(s) PROVE HeldByAStage'
  BY <1>5, StageHolds
<1>6. ASSUME Cancel PROVE HeldByAStage'
  <2>1. CASE CancelCommit
    <3> DEFINE r == [FreedRecord(canceller.rec) EXCEPT !.state = "FAILED", !.waiting = FALSE]
    <3>1. canceller.rec \in Job /\ canceller.job \in Jobs
      BY <2>1 DEF CancelCommit, IInv, TypeOK, Caller, Known
    <3>2. r \in Job /\ r.alloc = None
      BY <3>1 DEF FreedRecord, Job, JobStates
    <3> QED
      BY <1>2, <2>1, <3>1, <3>2 DEF CancelCommit
  <2>2. CASE ~CancelCommit
    BY <1>1, <1>6, <2>2 DEF Cancel, CancelBegin, CancelRemote, CancelLock
  <2> QED
    BY <2>1, <2>2
<1>7. ASSUME Quiet \/ UNCHANGED vars \/ \E h \in DOMAIN remote : RemoteFinish(h)
      PROVE  HeldByAStage'
  BY <1>1, <1>7 DEF Quiet, vars, RemoteFinish
<1> QED
  BY <1>3, <1>4, <1>5, <1>6, <1>7 DEF Next

\* The allocation of a job is always in the hands of the pass that has just
\* made it or of a stage, when river takes what is inserted and no attempt is
\* left to river's retries (pipeline.go:13-17, 199).
THEOREM SomebodyHolds ==
  ASSUME "insert" \notin Faults, "transient" \notin Outcomes
  PROVE  Spec => []HeldByAStage
<1>1. Init => HeldByAStage
  BY DEF Init, HeldByAStage, Submitted
<1>2. IInv /\ SInv /\ HeldByAStage /\ [Next]_vars => HeldByAStage'
  BY NextHolds
<1> QED
  BY <1>1, <1>2, Inductive, StagesInductive, PTL DEF Spec

=============================================================================
