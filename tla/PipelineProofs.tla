--------------------------- MODULE PipelineProofs ---------------------------
(***************************************************************************)
(* Who owns an allocation, for any jobs, clusters, room, policy, outcomes,  *)
(* faults, limits and number of workers.                                    *)
(***************************************************************************)
EXTENDS Pipeline, FiniteSetTheorems, TLAPS

\* The pass has decided nothing yet that the store shows.
PlacingPcs == {"fail", "note", "place", "update"}

NoTask(j) == \A s \in Slots : tasks[s] # None => tasks[s].job # j

\* Whatever the components name has been submitted.
Known ==
  /\ \A a \in DOMAIN live : queue[live[a].job] # None
  /\ \A s \in Slots : tasks[s] # None => queue[tasks[s].job] # None
  /\ \A j \in sched.prov : queue[j] # None
  /\ sched.pc \in PlacingPcs \cup {"insert"} => sched.job \in Jobs /\ queue[sched.job] # None
  /\ sched.pc = "update" => sched.cluster \in Clusters
  /\ \A j \in cancelReq : queue[j] # None
  /\ canceller.pc # "idle" => canceller.job \in cancelReq

HandleKnown(h) == h = None \/ h \in DOMAIN remote

\* Every handle is that of a native job.
HandlesKnown ==
  /\ \A j \in Jobs : queue[j] # None => HandleKnown(queue[j].handle)
  /\ \A s \in Slots : tasks[s] # None =>
       /\ HandleKnown(tasks[s].handle) /\ HandleKnown(tasks[s].rec.handle)
       /\ tasks[s].pc = "status" => tasks[s].handle # None
  /\ HandleKnown(sched.rec.handle) /\ HandleKnown(canceller.rec.handle)

\* What the pass relies on though it holds no lock: the job it is placing is
\* in no stage and owns nothing, so only Cancel can have changed its record.
PassOK ==
  /\ sched.pc = "update" =>
       /\ sched.alloc \in DOMAIN live
       /\ live[sched.alloc] = [job |-> sched.job, cluster |-> sched.cluster]
  /\ sched.pc # "update" => sched.alloc = None
  /\ sched.pc \in PlacingPcs =>
       /\ NoTask(sched.job) /\ queue[sched.job].alloc = None
       /\ queue[sched.job].state \in {"SUBMITTED", "FAILED"}
       /\ sched.rec.alloc = None /\ sched.rec.state = "SUBMITTED"
  /\ sched.pc = "insert" => NoTask(sched.job) /\ queue[sched.job].state # "SUBMITTED"

\* A job that waits for placement is in no stage and owns nothing.
WaitingIsFree ==
  \A j \in Jobs : queue[j] # None /\ queue[j].state = "SUBMITTED" =>
    NoTask(j) /\ queue[j].alloc = None

OneStage ==
  \A s, r \in Slots :
    s # r /\ tasks[s] # None /\ tasks[r] # None => tasks[s].job # tasks[r].job

\* What was read under m.mu is still what the store holds, but for a job that
\* the pass has moved under a Cancel.
LocksOK ==
  /\ \A s \in Slots : tasks[s] # None /\ tasks[s].pc \in {"mark", "commit"} =>
       mu = s /\ tasks[s].rec = queue[tasks[s].job]
  /\ canceller.pc = "commit" =>
       /\ mu = Client
       /\ canceller.rec.alloc = None \/ canceller.rec.alloc = queue[canceller.job].alloc

IInv ==
  /\ TypeOK /\ Known /\ HandlesKnown /\ OwnAllocation /\ AllocationsOwned
  /\ PassOK /\ WaitingIsFree /\ OneStage /\ LocksOK


-----------------------------------------------------------------------------

\* Native jobs are started and end; none is forgotten.
RemoteGrows ==
  /\ remote' \in [DOMAIN remote' -> NativeJob]
  /\ DOMAIN remote \subseteq DOMAIN remote'
  /\ DOMAIN remote' \subseteq Nat /\ IsFiniteSet(DOMAIN remote')

\* What a stage leaves in its slot: nothing, or a river job for the same job.
Follows(s, t) == t # None =>
  /\ t \in Task /\ t.job = tasks[s].job /\ t.attempt <= MaxAttempts(t)
  /\ t.handle = None \/ t.handle \in DOMAIN remote'
  /\ t.rec.handle = None \/ t.rec.handle \in DOMAIN remote'
  /\ t.pc = "status" => t.handle # None

\* nil is none of the things it stands in for.
LEMMA NothingIsNone ==
  /\ None \notin Jobs /\ None \notin Clusters /\ None \notin Nat /\ None \notin Job
  /\ None \notin Task /\ None \notin Slots /\ Client \notin Slots /\ None # Client
<1>1. 0 \in Nat /\ 0 \notin Slots /\ Slots \subseteq Nat
  BY PipelineAssumption
<1> QED
  BY <1>1, PipelineAssumption, NoneAssumption DEF Client

\* A step of one slot that leaves the store and the ledger alone.
LEMMA LocalStep ==
  ASSUME IInv, NEW s \in Slots, NEW t,
         tasks[s] # None, tasks[s].pc \notin {"mark", "commit"},
         Local(s, t), Follows(s, t), RemoteGrows,
         mu' = mu \/ (mu = None /\ mu' = s),
         t # None /\ t.pc \in {"mark", "commit"} =>
           mu' = s /\ t.rec = queue[t.job],
         UNCHANGED <<queue, live, nextID, sched, canceller, cancelReq>>
  PROVE  IInv'
<1>1. \A r \in Slots : tasks'[r] = IF r = s THEN t ELSE tasks[r]
  BY DEF Local, IInv, TypeOK
<1>2. \A r \in Slots : tasks'[r] # None => tasks[r] # None /\ tasks'[r].job = tasks[r].job
  BY <1>1 DEF Follows
<1>3. \A j : NoTask(j) => NoTask(j)'
  BY <1>2 DEF NoTask
<1>4. TypeOK'
  <2>1. tasks' \in [Slots -> Task \cup {None}]
    BY <1>1 DEF Local, IInv, TypeOK, Follows
  <2>2. \A r \in Slots : tasks'[r] # None => tasks'[r].attempt <= MaxAttempts(tasks'[r])
    BY <1>1 DEF IInv, TypeOK, Follows
  <2>3. mu' \in Slots \cup {Client, None}
    BY DEF IInv, TypeOK
  <2> QED
    BY <2>1, <2>2, <2>3 DEF IInv, TypeOK, RemoteGrows, MaxAttempts
<1>5. Known'
  BY <1>2 DEF IInv, Known
<1>6. HandlesKnown'
  BY <1>1 DEF IInv, HandlesKnown, HandleKnown, RemoteGrows, Follows
<1>7. OwnAllocation' /\ AllocationsOwned'
  BY DEF IInv, OwnAllocation, AllocationsOwned, Submitted
<1>8. PassOK'
  BY <1>3 DEF IInv, PassOK
<1>9. WaitingIsFree'
  BY <1>3 DEF IInv, WaitingIsFree
<1>10. OneStage'
  BY <1>2 DEF IInv, OneStage
<1>11. LocksOK'
  <2>1. ASSUME NEW r \in Slots, tasks'[r] # None, tasks'[r].pc \in {"mark", "commit"}
        PROVE mu' = r /\ tasks'[r].rec = queue[tasks'[r].job]
    BY <1>1, <2>1, NothingIsNone DEF IInv, LocksOK
  <2>2. canceller.pc = "commit" => mu' = Client
    BY NothingIsNone DEF IInv, LocksOK
  <2> QED
    BY <2>1, <2>2 DEF IInv, LocksOK
<1> QED
  BY <1>4, <1>5, <1>6, <1>7, <1>8, <1>9, <1>10, <1>11 DEF IInv

\* A locked section of one slot writes the store.
LEMMA CommitStep ==
  ASSUME IInv, NEW s \in Slots, NEW t, NEW rec \in Job,
         tasks[s] # None, tasks[s].pc \in {"mark", "commit"},
         Local(s, t), Follows(s, t), mu' = None,
         t # None => t.pc \notin {"mark", "commit"},
         queue' = [queue EXCEPT ![tasks[s].job] = rec],
         rec.handle = None \/ rec.handle \in DOMAIN remote,
         \/ /\ live' = live /\ rec.alloc = tasks[s].rec.alloc
            /\ rec.alloc # None => /\ rec.cluster = tasks[s].rec.cluster
                                  /\ ~Terminal(rec.state)
         \/ live' = FreedLedger(tasks[s].rec) /\ rec.alloc = None,
         rec.state = "SUBMITTED" => t = None /\ rec.alloc = None,
         UNCHANGED <<nextID, remote, sched, canceller, cancelReq>>
  PROVE  IInv'
<1> DEFINE jb == tasks[s].job
<1>1. \A r \in Slots : tasks'[r] = IF r = s THEN t ELSE tasks[r]
  BY DEF Local, IInv, TypeOK
<1>2. \A r \in Slots : tasks'[r] # None => tasks[r] # None /\ tasks'[r].job = tasks[r].job
  BY <1>1 DEF Follows
<1>3. \A j : NoTask(j) => NoTask(j)'
  BY <1>2 DEF NoTask
<1>4. /\ jb \in Jobs /\ queue[jb] # None /\ queue[jb] \in Job /\ mu = s
      /\ tasks[s].rec = queue[jb]
  BY DEF IInv, TypeOK, Known, LocksOK, Task
<1>5. /\ ~NoTask(jb)
      /\ queue[jb].state # "SUBMITTED"
      /\ sched.pc \in PlacingPcs \cup {"insert"} => sched.job # jb
  BY <1>4 DEF IInv, NoTask, WaitingIsFree, PassOK
<1>6. \A j \in Jobs : queue'[j] = IF j = jb THEN rec ELSE queue[j]
  BY <1>4 DEF IInv, TypeOK
<1>7. /\ DOMAIN live' \subseteq DOMAIN live
      /\ \A a \in DOMAIN live' : live'[a] = live[a]
      /\ \A a \in DOMAIN live : a \in DOMAIN live' \/ a = queue[jb].alloc
  BY <1>4 DEF FreedLedger, Drop
<1>8. \A a \in DOMAIN live : a = queue[jb].alloc => live[a].job = jb
  <2>1. \A a \in DOMAIN live : a # None
    BY NothingIsNone DEF IInv, TypeOK
  <2>2. queue[jb].alloc # None =>
          live[queue[jb].alloc] = [job |-> jb, cluster |-> queue[jb].cluster]
    BY <1>4 DEF IInv, OwnAllocation, Submitted
  <2> QED
    BY <2>1, <2>2
<1>9. \A a \in DOMAIN live : live[a].job # jb => a \in DOMAIN live'
  BY <1>7, <1>8
<1>10. TypeOK'
  <2>1. tasks' \in [Slots -> Task \cup {None}]
    BY <1>1 DEF Local, IInv, TypeOK, Follows
  <2>2. \A r \in Slots : tasks'[r] # None => tasks'[r].attempt <= MaxAttempts(tasks'[r])
    BY <1>1 DEF IInv, TypeOK, Follows
  <2>3. queue' \in [Jobs -> Job \cup {None}]
    BY DEF IInv, TypeOK
  <2> QED
    BY <1>7, <2>1, <2>2, <2>3 DEF IInv, TypeOK, MaxAttempts
<1>11. Known'
  <2>1. \A j \in Jobs : queue[j] # None => queue'[j] # None
    BY <1>6, NothingIsNone
  <2>2. /\ \A r \in Slots : tasks'[r] # None => tasks[r].job \in Jobs
        /\ \A a \in DOMAIN live : live[a].job \in Jobs
        /\ sched.prov \subseteq Jobs /\ cancelReq \subseteq Jobs
    BY <1>2 DEF IInv, TypeOK, Task, Allocation, Pass
  <2> QED
    BY <1>2, <1>7, <2>1, <2>2 DEF IInv, Known
<1>12. HandlesKnown'
  BY <1>1, <1>6 DEF IInv, HandlesKnown, HandleKnown, Follows
<1>13. OwnAllocation'
  <2>1. ASSUME NEW j \in Jobs, j # jb, queue[j] # None, queue[j].alloc # None
        PROVE /\ queue[j].alloc \in DOMAIN live'
              /\ live'[queue[j].alloc] = [job |-> j, cluster |-> queue[j].cluster]
              /\ ~Terminal(queue[j].state)
    <3>1. /\ queue[j].alloc \in DOMAIN live
          /\ live[queue[j].alloc] = [job |-> j, cluster |-> queue[j].cluster]
          /\ ~Terminal(queue[j].state)
      BY <2>1 DEF IInv, OwnAllocation, Submitted
    <3> QED
      BY <1>7, <1>9, <2>1, <3>1
  <2>2. ASSUME rec.alloc # None
        PROVE /\ rec.alloc \in DOMAIN live'
              /\ live'[rec.alloc] = [job |-> jb, cluster |-> rec.cluster]
              /\ ~Terminal(rec.state)
    <3>1. live' = live /\ rec.alloc = queue[jb].alloc /\ rec.cluster = queue[jb].cluster
      BY <1>4, <2>2
    <3> QED
      BY <1>4, <2>2, <3>1 DEF IInv, OwnAllocation, Submitted
  <2> QED
    BY <1>4, <1>6, <2>1, <2>2 DEF OwnAllocation, Submitted
<1>14. AllocationsOwned'
  <2>1. SUFFICES ASSUME NEW a \in DOMAIN live', live[a].job \notin cancelReq, sched.alloc # a
        PROVE queue'[live[a].job].alloc = a
    BY <1>7 DEF AllocationsOwned
  <2>2. a \in DOMAIN live /\ live[a].job \in Jobs /\ queue[live[a].job].alloc = a
    BY <1>7, <2>1 DEF IInv, AllocationsOwned, TypeOK, Allocation
  <2>3. CASE live[a].job # jb
    BY <1>6, <2>2, <2>3
  <2>4. CASE live[a].job = jb
    <3>1. live' = live /\ rec.alloc = tasks[s].rec.alloc
      BY <1>4, <2>1, <2>2, <2>4 DEF FreedLedger, Drop
    <3> QED
      BY <1>4, <1>6, <2>2, <2>4, <3>1
  <2> QED
    BY <2>3, <2>4
<1>15. PassOK'
  <2>1. sched.pc = "update" => sched.alloc \in DOMAIN live' /\ live'[sched.alloc] = live[sched.alloc]
    BY <1>5, <1>7, <1>9 DEF IInv, PassOK, PlacingPcs
  <2>2. sched.pc \in PlacingPcs \cup {"insert"} => queue'[sched.job] = queue[sched.job]
    BY <1>5, <1>6 DEF IInv, Known
  <2> QED
    BY <1>3, <2>1, <2>2 DEF IInv, PassOK
<1>16. WaitingIsFree'
  <2>1. ASSUME NEW j \in Jobs, j # jb, queue[j] # None, queue[j].state = "SUBMITTED"
        PROVE NoTask(j)' /\ queue[j].alloc = None
    BY <1>3, <2>1 DEF IInv, WaitingIsFree
  <2>2. ASSUME rec.state = "SUBMITTED"
        PROVE (\A r \in Slots : tasks'[r] # None => tasks'[r].job # jb) /\ rec.alloc = None
    <3>1. t = None
      BY <2>2
    <3>2. \A r \in Slots : r # s /\ tasks[r] # None => tasks[r].job # jb
      BY DEF IInv, OneStage
    <3> QED
      BY <1>1, <2>2, <3>1, <3>2
  <2> QED
    BY <1>6, <2>1, <2>2 DEF WaitingIsFree, NoTask
<1>17. OneStage'
  BY <1>2 DEF IInv, OneStage
<1>18. LocksOK'
  <2>1. \A r \in Slots : tasks'[r] # None => tasks'[r].pc \notin {"mark", "commit"}
    BY <1>1, <1>4 DEF IInv, LocksOK
  <2>2. canceller.pc # "commit"
    BY <1>4, NothingIsNone DEF IInv, LocksOK
  <2> QED
    BY <2>1, <2>2 DEF LocksOK
<1> QED
  BY <1>10, <1>11, <1>12, <1>13, <1>14, <1>15, <1>16, <1>17, <1>18 DEF IInv

-----------------------------------------------------------------------------
(* The stages *)

LEMMA NewJobIsJob == NewJob \in Job /\ NewJob.handle = None /\ NewJob.alloc = None
BY PipelineAssumption DEF NewJob, Job, JobStates

\* A cancelled native job is still known.
LEMMA StopKeeps == ASSUME TypeOK, NEW h, StopRemote(h) PROVE RemoteGrows
<1>1. CASE UNCHANGED remote
  BY <1>1 DEF TypeOK, RemoteGrows
<1>2. CASE \E st \in EndStates : remote' = [remote EXCEPT ![h].state = st]
  <2>1. PICK st \in EndStates : remote' = [remote EXCEPT ![h].state = st]
    BY <1>2
  <2>2. DOMAIN remote' = DOMAIN remote
    BY <2>1
  <2>3. ASSUME NEW g \in DOMAIN remote PROVE remote'[g] \in NativeJob
    <3>1. remote[g] \in NativeJob
      BY DEF TypeOK
    <3>2. [remote[g] EXCEPT !.state = st] \in NativeJob
      BY <3>1, PipelineAssumption DEF NativeJob, NativeStates
    <3>3. remote'[g] = IF g = h THEN [remote[g] EXCEPT !.state = st] ELSE remote[g]
      BY <2>1
    <3> QED
      BY <3>1, <3>2, <3>3
  <2>4. remote' = [g \in DOMAIN remote |-> remote'[g]]
    BY <2>1
  <2> QED
    BY <2>2, <2>3, <2>4 DEF TypeOK, RemoteGrows
<1> QED
  BY <1>1, <1>2 DEF StopRemote

\* River runs a job again only below its limit.
LEMMA RetryFollows ==
  ASSUME NEW t \in Task, Retry(t) # None
  PROVE  /\ Retry(t) \in Task /\ Retry(t).job = t.job /\ Retry(t).pc = "ready"
         /\ Retry(t).attempt <= MaxAttempts(Retry(t))
         /\ Retry(t).handle = None /\ Retry(t).rec.handle = None
<1>1. t.attempt < MaxAttempts(t)
  BY DEF Retry
<1>2. t.attempt + 1 \in Nat \ {0} /\ t.attempt + 1 <= MaxAttempts(t)
  BY <1>1, PipelineAssumption DEF Task, MaxAttempts
<1>3. Retry(t) = [stage |-> t.stage, job |-> t.job, attempt |-> t.attempt + 1,
                  pc |-> "ready", rec |-> NewJob, todo |-> None, handle |-> None,
                  status |-> "RUNNING"]
  BY <1>1 DEF Retry, NewTask
<1> QED
  BY <1>2, <1>3, NewJobIsJob DEF Task, MaxAttempts, NativeStates

\* Whatever an attempt comes to, the slot keeps its job or is given up.
LEMMA RoutedFollows ==
  ASSUME NEW t \in Task, t.attempt <= MaxAttempts(t), t.rec = NewJob,
         NEW outcome, Routed(t, outcome) # None
  PROVE  /\ Routed(t, outcome) \in Task /\ Routed(t, outcome).job = t.job
         /\ Routed(t, outcome).pc \in {"lock", "peek", "ready"}
         /\ Routed(t, outcome).attempt <= MaxAttempts(Routed(t, outcome))
         /\ Routed(t, outcome).handle \in {t.handle, None}
         /\ Routed(t, outcome).rec.handle = None
<1>1. ASSUME NEW pc \in {"lock", "peek"}, NEW todo \in {"running", "reschedule", "keep", "fail"},
             NEW r, r = [t EXCEPT !.pc = pc, !.todo = todo]
      PROVE  /\ r \in Task /\ r.job = t.job /\ r.pc \in {"lock", "peek", "ready"}
             /\ r.attempt <= MaxAttempts(r) /\ r.handle \in {t.handle, None}
             /\ r.rec.handle = None
  BY <1>1, NewJobIsJob DEF Task, Sections, MaxAttempts
<1>2. CASE outcome = "success"
  <2>1. Routed(t, outcome) = [t EXCEPT !.pc = "lock", !.todo = "running"]
    BY <1>2 DEF Routed
  <2> QED
    BY <1>1, <2>1
<1>3. CASE outcome = "wrongTarget"
  <2>1. Routed(t, outcome) = [t EXCEPT !.pc = "peek", !.todo = "reschedule"]
    BY <1>3 DEF Routed
  <2> QED
    BY <1>1, <2>1
<1>4. CASE outcome = "repairable" /\ (t.stage = "dispatch" \/ t.attempt < MaxAttempts(t))
  <2>1. Routed(t, outcome) = [t EXCEPT !.pc = "lock", !.todo = "keep"]
    BY <1>4 DEF Routed
  <2> QED
    BY <1>1, <2>1
<1>5. CASE outcome = "transient" /\ t.stage = "dispatch"
  <2>1. Routed(t, outcome) = Retry(t)
    BY <1>5 DEF Routed
  <2> QED
    BY <2>1, RetryFollows
<1>6. CASE /\ outcome # "success" /\ outcome # "wrongTarget"
           /\ ~(outcome = "repairable" /\ (t.stage = "dispatch" \/ t.attempt < MaxAttempts(t)))
           /\ ~(outcome = "transient" /\ t.stage = "dispatch")
  <2>1. Routed(t, outcome) = [t EXCEPT !.pc = "lock", !.todo = "fail"]
    BY <1>6 DEF Routed
  <2> QED
    BY <1>1, <2>1
<1> QED
  BY <1>2, <1>3, <1>4, <1>5, <1>6

\* What TypeOK and the rest say of one slot.
LEMMA SlotFacts ==
  ASSUME IInv, NEW s \in Slots, tasks[s] # None
  PROVE  /\ tasks[s] \in Task /\ tasks[s].attempt <= MaxAttempts(tasks[s])
         /\ tasks[s].job \in Jobs
         /\ queue[tasks[s].job] \in Job /\ queue[tasks[s].job] # None
         /\ HandleKnown(queue[tasks[s].job].handle)
         /\ HandleKnown(tasks[s].handle) /\ HandleKnown(tasks[s].rec.handle)
<1>1. tasks[s] \in Task /\ tasks[s].attempt <= MaxAttempts(tasks[s])
  BY DEF IInv, TypeOK
<1>2. tasks[s].job \in Jobs /\ queue[tasks[s].job] # None
  BY <1>1 DEF IInv, Known, Task
<1> QED
  BY <1>1, <1>2 DEF IInv, TypeOK, HandlesKnown

\* The steps of a handler that change only its slot, the lock or the drivers.
LEMMA LocalSteps ==
  ASSUME IInv, NEW s \in Slots,
         \/ DispatchBegin(s) \/ RepairBegin(s) \/ Attempt(s) \/ ReschedulePeek(s)
         \/ RescheduleCancel(s) \/ MonitorBegin(s) \/ MonitorStatus(s) \/ Lock(s)
         \/ Insert(s)
  PROVE  IInv'
<1> DEFINE q == queue[tasks[s].job]
<1>1. tasks[s] # None
  BY DEF DispatchBegin, RepairBegin, Attempt, ReschedulePeek, RescheduleCancel,
         MonitorBegin, MonitorStatus, Lock, Insert, At
<1>2. /\ tasks[s] \in Task /\ tasks[s].attempt <= MaxAttempts(tasks[s])
      /\ q \in Job /\ HandleKnown(q.handle)
      /\ HandleKnown(tasks[s].handle) /\ HandleKnown(tasks[s].rec.handle)
  BY <1>1, SlotFacts
<1>3. UNCHANGED remote => RemoteGrows
  BY DEF IInv, TypeOK, RemoteGrows
<1>4. CASE DispatchBegin(s)
  <2>1. PICK t : /\ Local(s, t)
                 /\ \/ t = None /\ mu' = mu
                    \/ t = [tasks[s] EXCEPT !.pc = "mark", !.rec = q] /\ mu = None /\ mu' = s
    BY <1>4 DEF DispatchBegin
  <2>2. Follows(s, t)
    BY <1>2, <1>4, <2>1 DEF Follows, Task, MaxAttempts, HandleKnown, DispatchBegin
  <2>3. t # None => t.rec = queue[t.job]
    <3>1. CASE t = [tasks[s] EXCEPT !.pc = "mark", !.rec = q]
      <4>1. t.rec = q /\ t.job = tasks[s].job
        BY <1>2, <3>1 DEF Task
      <4> QED
        BY <4>1
    <3> QED
      BY <2>1, <3>1
  <2> QED
    BY <1>1, <1>3, <1>4, <2>1, <2>2, <2>3, LocalStep DEF DispatchBegin, At
<1>5. CASE RepairBegin(s)
  <2>1. PICK t : /\ Local(s, t)
                 /\ t = None \/ t = [tasks[s] EXCEPT !.pc = "attempt", !.rec = q]
    BY <1>5 DEF RepairBegin
  <2>2. Follows(s, t)
    BY <1>2, <1>5, <2>1 DEF Follows, Task, MaxAttempts, HandleKnown, RepairBegin
  <2>3. t # None => t.pc = "attempt"
    BY <1>2, <2>1 DEF Task
  <2> QED
    BY <1>1, <1>3, <1>5, <2>1, <2>2, <2>3, LocalStep DEF RepairBegin, At
<1>6. CASE Attempt(s)
  <2> DEFINE u == [tasks[s] EXCEPT !.rec = NewJob]
  <2> DEFINE h == Cardinality(DOMAIN remote) + 1
  <2>1. /\ u \in Task /\ u.attempt <= MaxAttempts(u) /\ u.rec = NewJob
        /\ u.job = tasks[s].job /\ u.handle = tasks[s].handle
    BY <1>2, NewJobIsJob DEF Task, MaxAttempts
  <2>2. ASSUME NEW outcome, Local(s, Routed(u, outcome)), UNCHANGED remote
        PROVE IInv'
    <3>1. Follows(s, Routed(u, outcome))
      BY <1>2, <2>1, <2>2, RoutedFollows DEF Follows, HandleKnown
    <3>2. Routed(u, outcome) # None => Routed(u, outcome).pc \notin {"mark", "commit"}
      BY <2>1, RoutedFollows
    <3> HIDE DEF u
    <3> QED
      BY <1>1, <1>3, <1>6, <2>2, <3>1, <3>2, LocalStep DEF Attempt, At
  <2>3. ASSUME remote' = Put(remote, h, [job |-> u.job, cluster |-> tasks[s].rec.cluster,
                                         state |-> "RUNNING"]),
               Local(s, [Routed(u, "success") EXCEPT !.handle = h]),
               tasks[s].rec.cluster # None
        PROVE IInv'
    <3>1. h \in Nat /\ tasks[s].rec.cluster \in Clusters /\ u.job \in Jobs
      BY <1>2, <2>1, <2>3, FS_CardinalityType DEF IInv, TypeOK, Task, Job
    <3>2. RemoteGrows
      <4> HIDE DEF h, u
      <4>1. DOMAIN remote' = DOMAIN remote \cup {h}
        BY <2>3 DEF Put
      <4>2. \A g \in DOMAIN remote' : remote'[g] \in NativeJob
        BY <2>3, <3>1 DEF Put, IInv, TypeOK, NativeJob, NativeStates
      <4>3. IsFiniteSet(DOMAIN remote')
        BY <4>1, FS_AddElement DEF IInv, TypeOK
      <4>4. remote' = [g \in DOMAIN remote' |-> remote'[g]]
        BY <2>3 DEF Put
      <4> QED
        BY <3>1, <4>1, <4>2, <4>3, <4>4 DEF RemoteGrows, IInv, TypeOK
    <3>3. Routed(u, "success") = [u EXCEPT !.pc = "lock", !.todo = "running"]
      BY DEF Routed
    <3> DEFINE t == [Routed(u, "success") EXCEPT !.handle = h]
    <3>4. /\ t \in Task /\ t.job = tasks[s].job /\ t.attempt <= MaxAttempts(t)
          /\ t.handle = h /\ t.rec = NewJob /\ t.pc = "lock"
      <4> HIDE DEF h, u
      <4> QED
        BY <2>1, <3>1, <3>3 DEF Sections, Task, MaxAttempts
    <3>5. h \in DOMAIN remote'
      BY <2>3 DEF Put
    <3>6. Follows(s, t)
      BY <3>4, <3>5, NewJobIsJob DEF Follows
    <3> HIDE DEF t
    <3>7. Local(s, t)
      BY <2>3 DEF t
    <3> QED
      BY <1>1, <1>6, <3>2, <3>4, <3>6, <3>7, LocalStep DEF Attempt, At
  <2> QED
    BY <1>6, <2>2, <2>3 DEF Attempt
<1>7. CASE ReschedulePeek(s)
  <2>1. PICK pc \in {"lock", "cancelRemote"} :
          Local(s, [tasks[s] EXCEPT !.handle = q.handle, !.pc = pc])
    BY <1>7 DEF ReschedulePeek
  <2> DEFINE t == [tasks[s] EXCEPT !.handle = q.handle, !.pc = pc]
  <2>2. Follows(s, t) /\ t.pc = pc
    BY <1>2, <1>7 DEF Follows, Task, Job, MaxAttempts, HandleKnown, ReschedulePeek
  <2> HIDE DEF t
  <2>3. Local(s, t)
    BY <2>1 DEF t
  <2> QED
    BY <1>1, <1>3, <1>7, <2>2, <2>3, LocalStep DEF ReschedulePeek, At
<1>8. CASE RescheduleCancel(s)
  <2> DEFINE t == [tasks[s] EXCEPT !.pc = "lock"]
  <2>1. RemoteGrows
    BY <1>8, StopKeeps DEF RescheduleCancel, IInv
  <2>2. Follows(s, t) /\ t.pc = "lock"
    BY <1>2, <2>1 DEF Follows, Task, MaxAttempts, HandleKnown, RemoteGrows
  <2>3. Local(s, t)
    BY <1>8 DEF RescheduleCancel
  <2> HIDE DEF t
  <2> QED
    BY <1>1, <1>8, <2>1, <2>2, <2>3, LocalStep DEF RescheduleCancel, At
<1>9. CASE MonitorBegin(s)
  <2>1. PICK t : /\ Local(s, t)
                 /\ \/ t = None
                    \/ /\ q.handle = None
                       /\ t = [tasks[s] EXCEPT !.handle = q.handle, !.pc = "insert"]
                    \/ /\ q.handle # None
                       /\ t = [tasks[s] EXCEPT !.handle = q.handle, !.pc = "status"]
    BY <1>9 DEF MonitorBegin
  <2>2. Follows(s, t)
    <3>1. q.handle \in Nat \cup {None} /\ (q.handle = None \/ q.handle \in DOMAIN remote')
      BY <1>2, <1>9 DEF Job, HandleKnown, MonitorBegin
    <3>2. ASSUME NEW pc \in {"insert", "status"}, pc = "status" => q.handle # None,
                 t = [tasks[s] EXCEPT !.handle = q.handle, !.pc = pc]
          PROVE Follows(s, t)
      <4>1. t \in Task /\ t.job = tasks[s].job /\ t.handle = q.handle /\ t.pc = pc
        BY <1>2, <3>1, <3>2 DEF Task
      <4>2. t.rec = tasks[s].rec /\ t.attempt = tasks[s].attempt /\ t.stage = tasks[s].stage
        BY <1>2, <3>2 DEF Task
      <4> QED
        BY <1>2, <1>9, <3>1, <3>2, <4>1, <4>2
        DEF Follows, MaxAttempts, HandleKnown, MonitorBegin
    <3> QED
      BY <2>1, <3>2 DEF Follows
  <2>3. t # None => t.pc \in {"insert", "status"}
    BY <1>2, <2>1 DEF Task
  <2> QED
    BY <1>1, <1>3, <1>9, <2>1, <2>2, <2>3, LocalStep DEF MonitorBegin, At
<1>10. CASE MonitorStatus(s)
  <2>1. remote[tasks[s].handle].state \in NativeStates
    <3>1. tasks[s].handle \in DOMAIN remote
      BY <1>1, <1>10 DEF IInv, HandlesKnown, HandleKnown, MonitorStatus, At
    <3> QED
      BY <3>1 DEF IInv, TypeOK, NativeJob
  <2>2. PICK t : /\ Local(s, t)
                 /\ \/ t = [tasks[s] EXCEPT !.pc = "lock", !.todo = "observe",
                             !.status = remote[tasks[s].handle].state]
                    \/ t = [tasks[s] EXCEPT !.pc = "insert"]
    BY <1>10 DEF MonitorStatus
  <2>3. Follows(s, t) /\ t.pc \in {"lock", "insert"}
    BY <1>2, <1>10, <2>1, <2>2 DEF Sections, Follows, Task, MaxAttempts, HandleKnown, MonitorStatus
  <2> QED
    BY <1>1, <1>3, <1>10, <2>2, <2>3, LocalStep DEF MonitorStatus, At
<1>11. CASE Lock(s)
  <2> DEFINE t == [tasks[s] EXCEPT !.pc = "commit", !.rec = q]
  <2>1. Follows(s, t) /\ t.rec = queue[t.job]
    BY <1>2, <1>11 DEF Follows, Task, MaxAttempts, HandleKnown, Lock
  <2>2. Local(s, t)
    BY <1>11 DEF Lock
  <2> HIDE DEF t
  <2> QED
    BY <1>1, <1>3, <1>11, <2>1, <2>2, LocalStep DEF Lock, At
<1>12. CASE Insert(s)
  <2>1. ASSUME Local(s, Retry(tasks[s])) PROVE IInv'
    <3>1. Follows(s, Retry(tasks[s]))
      BY <1>2, RetryFollows DEF Follows
    <3>2. Retry(tasks[s]) # None => Retry(tasks[s]).pc = "ready"
      BY <1>2, RetryFollows
    <3> QED
      BY <1>1, <1>3, <1>12, <2>1, <3>1, <3>2, LocalStep DEF Insert, At
  <2>2. ASSUME Local(s, NewTask(NextStage(tasks[s]), tasks[s].job)) PROVE IInv'
    <3> DEFINE t == NewTask(NextStage(tasks[s]), tasks[s].job)
    <3>1. /\ t \in Task /\ t.attempt <= MaxAttempts(t) /\ t.job = tasks[s].job
          /\ t.handle = None /\ t.rec.handle = None /\ t.pc = "ready"
      BY <1>2, NewJobIsJob, PipelineAssumption
      DEF NewTask, NextStage, Task, MaxAttempts, NativeStates
    <3>2. Local(s, t)
      BY <2>2
    <3> HIDE DEF t
    <3>3. Follows(s, t)
      BY <3>1 DEF Follows
    <3> QED
      BY <1>1, <1>3, <1>12, <3>1, <3>2, <3>3, LocalStep DEF Insert, At
  <2> QED
    BY <1>12, <2>1, <2>2 DEF Insert
<1> QED
  BY <1>4, <1>5, <1>6, <1>7, <1>8, <1>9, <1>10, <1>11, <1>12

\* The steps of a handler that write the store.
LEMMA CommitSteps ==
  ASSUME IInv, NEW s \in Slots,
         \/ DispatchMark(s) \/ CommitRunning(s) \/ CommitKeep(s) \/ CommitFail(s)
         \/ CommitReschedule(s) \/ CommitObserve(s)
  PROVE  IInv'
<1> DEFINE q == queue[tasks[s].job]
<1> USE DEF HandleKnown
<1>1. /\ tasks[s] # None /\ tasks[s].pc \in {"mark", "commit"}
      /\ UNCHANGED <<nextID, remote, sched, canceller, cancelReq>> /\ mu' = None
  BY DEF DispatchMark, CommitRunning, CommitKeep, CommitFail, CommitReschedule,
         CommitObserve, Commit, At
<1>2. /\ tasks[s] \in Task /\ tasks[s].attempt <= MaxAttempts(tasks[s])
      /\ tasks[s].job \in Jobs /\ q \in Job /\ q # None
      /\ HandleKnown(q.handle) /\ HandleKnown(tasks[s].handle)
  BY <1>1, SlotFacts
<1>3. /\ tasks[s].rec = q /\ q.state # "SUBMITTED"
      /\ q.alloc # None => ~Terminal(q.state)
  BY <1>1, <1>2 DEF IInv, LocksOK, WaitingIsFree, NoTask, OwnAllocation, Submitted
<1>4. RemoteGrows
  BY <1>1 DEF IInv, TypeOK, RemoteGrows
<1>5. Follows(s, ThenInsert(s)) /\ ThenInsert(s).pc = "insert"
  BY <1>1, <1>2, NewJobIsJob DEF ThenInsert, Follows, Task, MaxAttempts
<1>6. Follows(s, None)
  BY DEF Follows
<1>7. CASE DispatchMark(s)
  <2> DEFINE r == [q EXCEPT !.state = "DISPATCHING"]
  <2> DEFINE t == [tasks[s] EXCEPT !.pc = "attempt", !.rec = r]
  <2>1. /\ r \in Job /\ r.handle = q.handle /\ r.alloc = q.alloc /\ r.cluster = q.cluster
        /\ r.state = "DISPATCHING"
    BY <1>2 DEF Job, JobStates
  <2>2. /\ Local(s, t) /\ queue' = [queue EXCEPT ![tasks[s].job] = r] /\ live' = live
    BY <1>3, <1>7 DEF DispatchMark
  <2> HIDE DEF r
  <2>3. Follows(s, t) /\ t.pc = "attempt"
    BY <1>1, <1>2, <2>1 DEF Follows, Task, MaxAttempts
  <2> HIDE DEF t
  <2> QED
    BY <1>1, <1>2, <1>3, <1>4, <2>1, <2>2, <2>3, CommitStep DEF Terminal
<1>8. CASE CommitRunning(s)
  <2> DEFINE r == [q EXCEPT !.state = "RUNNING", !.handle = tasks[s].handle, !.waiting = FALSE]
  <2>1. /\ r \in Job /\ r.handle = tasks[s].handle /\ r.alloc = q.alloc
        /\ r.cluster = q.cluster /\ r.state = "RUNNING"
    BY <1>2 DEF Job, JobStates, Task
  <2>2. /\ Local(s, ThenInsert(s)) /\ queue' = [queue EXCEPT ![tasks[s].job] = r]
        /\ live' = live
    BY <1>3, <1>8 DEF CommitRunning, Commit
  <2> HIDE DEF r
  <2> QED
    BY <1>1, <1>2, <1>3, <1>4, <1>5, <2>1, <2>2, CommitStep DEF Terminal
<1>9. CASE CommitKeep(s)
  <2> DEFINE r == [q EXCEPT !.waiting = FALSE]
  <2>1. /\ r \in Job /\ r.handle = q.handle /\ r.alloc = q.alloc
        /\ r.cluster = q.cluster /\ r.state = q.state
    BY <1>2 DEF Job
  <2>2. PICK t : /\ Local(s, t)
                 /\ t = ThenInsert(s) \/ t = Retry(tasks[s])
                 /\ queue' = [queue EXCEPT ![tasks[s].job] = r] /\ live' = live
    BY <1>3, <1>9 DEF CommitKeep, Commit
  <2>3. Follows(s, t) /\ (t # None => t.pc \in {"insert", "ready"})
    BY <1>2, <1>5, <2>2, RetryFollows DEF Follows
  <2> HIDE DEF r
  <2> QED
    BY <1>1, <1>2, <1>3, <1>4, <2>1, <2>2, <2>3, CommitStep
<1>10. CASE CommitFail(s)
  <2> DEFINE r == [FreedRecord(q) EXCEPT !.state = "FAILED", !.waiting = FALSE]
  <2>1. r \in Job /\ r.handle = q.handle /\ r.alloc = None /\ r.state = "FAILED"
    BY <1>2 DEF Job, JobStates, FreedRecord
  <2>2. /\ Local(s, None) /\ queue' = [queue EXCEPT ![tasks[s].job] = r]
        /\ live' = FreedLedger(tasks[s].rec)
    BY <1>3, <1>10 DEF CommitFail, Commit
  <2> HIDE DEF r
  <2> QED
    BY <1>1, <1>2, <1>3, <1>4, <1>6, <2>1, <2>2, CommitStep
<1>11. CASE CommitReschedule(s)
  <2> DEFINE u == [FreedRecord(q) EXCEPT !.handle = None, !.waiting = FALSE]
  <2> DEFINE r == IF u.reschedules + 1 > MaxReschedules
                    THEN [u EXCEPT !.state = "FAILED"]
                    ELSE [u EXCEPT !.state = "SUBMITTED", !.cluster = None, !.reschedules = @ + 1]
  <2>1. u \in Job /\ u.handle = None /\ u.alloc = None
    BY <1>2 DEF Job, FreedRecord
  <2>2. /\ Local(s, None) /\ queue' = [queue EXCEPT ![tasks[s].job] = r]
        /\ live' = FreedLedger(tasks[s].rec)
    BY <1>3, <1>11 DEF CommitReschedule, Commit
  <2> HIDE DEF u
  <2>3. r \in Job /\ r.handle = None /\ r.alloc = None
    <3>1. MaxReschedules \in Nat /\ u.reschedules \in 0..MaxReschedules
      BY <2>1, PipelineAssumption DEF Job
    <3>2. CASE u.reschedules + 1 > MaxReschedules
      <4>1. r = [u EXCEPT !.state = "FAILED"]
        BY <3>2
      <4> QED
        BY <2>1, <4>1 DEF Job, JobStates
    <3>3. CASE ~(u.reschedules + 1 > MaxReschedules)
      <4>1. r = [u EXCEPT !.state = "SUBMITTED", !.cluster = None,
                          !.reschedules = u.reschedules + 1]
        BY <2>1, <3>3 DEF Job
      <4>2. u.reschedules + 1 \in 0..MaxReschedules
        BY <3>1, <3>3
      <4> QED
        BY <2>1, <4>1, <4>2 DEF Job, JobStates
    <3> QED
      BY <3>2, <3>3
  <2> HIDE DEF r
  <2> QED
    BY <1>1, <1>2, <1>3, <1>4, <1>6, <2>2, <2>3, CommitStep
<1>12. CASE CommitObserve(s)
  <2> DEFINE st == tasks[s].status
  <2> DEFINE u == [q EXCEPT !.state = st, !.waiting = FALSE]
  <2>1. /\ u \in Job /\ u.handle = q.handle /\ u.alloc = q.alloc /\ u.cluster = q.cluster
        /\ u.state = st /\ st # "SUBMITTED"
    BY <1>2 DEF Job, JobStates, Task, NativeStates
  <2>2. CASE Terminal(st)
    <3> DEFINE r == FreedRecord(u)
    <3>1. r \in Job /\ r.handle = q.handle /\ r.alloc = None /\ r.state = st
      BY <2>1 DEF FreedRecord, Job
    <3>2. /\ Local(s, None) /\ queue' = [queue EXCEPT ![tasks[s].job] = r]
          /\ live' = FreedLedger(u)
      BY <1>3, <1>12, <2>2 DEF CommitObserve, Commit
    <3>3. FreedLedger(u) = FreedLedger(tasks[s].rec)
      BY <1>3, <2>1 DEF FreedLedger
    <3> HIDE DEF r, u
    <3> QED
      BY <1>1, <1>2, <1>3, <1>4, <1>6, <2>1, <3>1, <3>2, <3>3, CommitStep
  <2>3. CASE ~Terminal(st)
    <3>1. /\ Local(s, ThenInsert(s)) /\ queue' = [queue EXCEPT ![tasks[s].job] = u]
          /\ live' = live
      BY <1>3, <1>12, <2>3 DEF CommitObserve, Commit
    <3> HIDE DEF u
    <3> QED
      BY <1>1, <1>2, <1>3, <1>4, <1>5, <2>1, <2>3, <3>1, CommitStep
  <2> QED
    BY <2>2, <2>3
<1> QED
  BY <1>7, <1>8, <1>9, <1>10, <1>11, <1>12

-----------------------------------------------------------------------------
(* The pass *)

\* Between two jobs the pass holds nothing.
LEMMA AdvanceHoldsNothing ==
  ASSUME NEW S \in SUBSET Jobs, NEW P \in SUBSET Jobs
  PROVE  /\ Advance(S, P) \in Pass /\ Advance(S, P).pc \in {"idle", "get"}
         /\ Advance(S, P).alloc = None /\ Advance(S, P).rec = NewJob
         /\ Advance(S, P).prov \subseteq P
BY NewJobIsJob DEF Advance, Idle, Pass

\* A step of the pass that writes nothing.
LEMMA PassStep ==
  ASSUME IInv, sched' \in Pass, HandleKnown(sched'.rec.handle),
         \A j \in sched'.prov : queue[j] # None,
         sched'.pc \in PlacingPcs \cup {"insert"} => sched'.job \in Jobs /\ queue[sched'.job] # None,
         sched'.pc # "update", sched'.alloc = None, sched.alloc = None, PassOK',
         UNCHANGED <<queue, live, nextID, remote, mu, tasks, canceller, cancelReq>>
  PROVE  IInv'
<1>1. TypeOK'
  BY DEF IInv, TypeOK, MaxAttempts
<1>2. Known'
  BY DEF IInv, Known
<1>3. HandlesKnown'
  BY DEF IInv, HandlesKnown, HandleKnown
<1>4. OwnAllocation' /\ AllocationsOwned'
  BY DEF IInv, OwnAllocation, AllocationsOwned, Submitted
<1>5. WaitingIsFree' /\ OneStage' /\ LocksOK'
  BY DEF IInv, WaitingIsFree, NoTask, OneStage, LocksOK
<1> QED
  BY <1>1, <1>2, <1>3, <1>4, <1>5 DEF IInv

\* The pass writes the record of the job it is placing: a verdict, or the
\* allocation it has just made.
LEMMA PassWrites ==
  ASSUME IInv, NEW r \in Job, sched.pc \in PlacingPcs,
         queue' = [queue EXCEPT ![sched.job] = r],
         r.handle = None \/ r.handle \in DOMAIN remote,
         \/ sched.pc # "update" /\ r.alloc = None /\ sched'.pc \in {"idle", "get"}
         \/ /\ sched.pc = "update" /\ r.alloc = sched.alloc /\ r.cluster = sched.cluster
            /\ r.state = "MATCHED" /\ sched'.pc = "insert" /\ sched'.job = sched.job,
         sched' \in Pass, sched'.alloc = None, HandleKnown(sched'.rec.handle),
         sched'.prov \subseteq sched.prov,
         UNCHANGED <<live, nextID, remote, mu, tasks, canceller, cancelReq>>
  PROVE  IInv'
<1> DEFINE jb == sched.job
<1>1. /\ jb \in Jobs /\ queue[jb] # None /\ queue[jb].alloc = None /\ NoTask(jb)
      /\ sched.pc # "update" => sched.alloc = None
  BY DEF IInv, Known, PassOK
<1>2. \A j \in Jobs : queue'[j] = IF j = jb THEN r ELSE queue[j]
  BY <1>1 DEF IInv, TypeOK
<1>3. \A j \in Jobs : queue[j] # None => queue'[j] # None
  BY <1>2, NothingIsNone
<1>4. TypeOK'
  <2>1. queue' \in [Jobs -> Job \cup {None}]
    BY DEF IInv, TypeOK
  <2> QED
    BY <2>1 DEF IInv, TypeOK, MaxAttempts
<1>5. Known'
  <2>1. /\ \A s \in Slots : tasks[s] # None => tasks[s].job \in Jobs
        /\ \A a \in DOMAIN live : live[a].job \in Jobs
        /\ sched.prov \subseteq Jobs /\ cancelReq \subseteq Jobs
    BY DEF IInv, TypeOK, Task, Allocation, Pass
  <2> QED
    BY <1>1, <1>3, <2>1 DEF IInv, Known, PlacingPcs
<1>6. HandlesKnown'
  BY <1>2 DEF IInv, HandlesKnown, HandleKnown
<1>7. \A a \in DOMAIN live : a # None
  BY NothingIsNone DEF IInv, TypeOK
<1>8. OwnAllocation'
  <2>1. ASSUME NEW j \in Jobs, j # jb, queue[j] # None, queue[j].alloc # None
        PROVE /\ queue[j].alloc \in DOMAIN live
              /\ live[queue[j].alloc] = [job |-> j, cluster |-> queue[j].cluster]
              /\ ~Terminal(queue[j].state)
    BY <2>1 DEF IInv, OwnAllocation, Submitted
  <2>2. ASSUME r.alloc # None
        PROVE /\ r.alloc \in DOMAIN live
              /\ live[r.alloc] = [job |-> jb, cluster |-> r.cluster]
              /\ ~Terminal(r.state)
    BY <2>2 DEF IInv, PassOK, Terminal
  <2> QED
    BY <1>2, <2>1, <2>2 DEF OwnAllocation, Submitted
<1>9. AllocationsOwned'
  <2>1. SUFFICES ASSUME NEW a \in DOMAIN live, live[a].job \notin cancelReq
        PROVE queue'[live[a].job].alloc = a
    BY DEF AllocationsOwned
  <2>2. live[a].job \in Jobs /\ (sched.alloc = a \/ queue[live[a].job].alloc = a)
    BY <2>1 DEF IInv, AllocationsOwned, TypeOK, Allocation
  <2>3. CASE sched.alloc = a
    <3>1. sched.pc = "update"
      BY <1>1, <1>7, <2>3
    <3>2. live[a].job = jb
      BY <2>3, <3>1 DEF IInv, PassOK
    <3> QED
      BY <1>1, <1>2, <2>3, <3>1, <3>2
  <2>4. CASE queue[live[a].job].alloc = a
    BY <1>1, <1>2, <1>7, <2>2, <2>4
  <2> QED
    BY <2>2, <2>3, <2>4
<1>10. PassOK'
  BY <1>1, <1>2 DEF PassOK, PlacingPcs, NoTask
<1>11. WaitingIsFree'
  BY <1>1, <1>2 DEF IInv, WaitingIsFree, NoTask
<1>12. OneStage'
  BY DEF IInv, OneStage
<1>13. LocksOK'
  <2>1. ASSUME NEW s \in Slots, tasks[s] # None, tasks[s].pc \in {"mark", "commit"}
        PROVE mu = s /\ tasks[s].rec = queue'[tasks[s].job]
    BY <1>1, <1>2, <2>1, SlotFacts DEF IInv, LocksOK, NoTask
  <2>2. ASSUME canceller.pc = "commit"
        PROVE /\ mu = Client
              /\ canceller.rec.alloc = None \/ canceller.rec.alloc = queue'[canceller.job].alloc
    <3>1. canceller.job \in Jobs
      BY <2>2 DEF IInv, Known, TypeOK
    <3> QED
      BY <1>1, <1>2, <2>2, <3>1 DEF IInv, LocksOK
  <2> QED
    BY <2>1, <2>2 DEF LocksOK
<1> QED
  BY <1>4, <1>5, <1>6, <1>8, <1>9, <1>10, <1>11, <1>12, <1>13 DEF IInv

\* The pass makes an allocation that no record names yet.
LEMMA AllocateStep ==
  ASSUME IInv, NEW c \in Clusters, SchedAllocate(c)
  PROVE  IInv'
<1>1. /\ sched \in Pass /\ sched.pc = "place" /\ sched.job \in Jobs /\ sched.alloc = None
      /\ UNCHANGED <<queue, remote, mu, tasks, canceller, cancelReq>>
  BY DEF IInv, TypeOK, Known, PassOK, PlacingPcs, SchedAllocate
<1>2. CASE ~HasRoom(c)
  <2>1. PICK pc \in {"note", "place"} :
          /\ sched' = [sched EXCEPT !.left = @ \ {c}, !.pc = pc]
          /\ UNCHANGED <<live, nextID>>
    BY <1>2 DEF SchedAllocate
  <2>2. /\ sched' \in Pass /\ sched'.pc = pc /\ sched'.alloc = None /\ sched'.job = sched.job
        /\ sched'.rec = sched.rec /\ sched'.prov = sched.prov
    BY <1>1, <2>1 DEF Pass
  <2>3. PassOK'
    BY <1>1, <2>1, <2>2 DEF IInv, PassOK, PlacingPcs, NoTask
  <2> QED
    BY <1>1, <2>1, <2>2, <2>3, PassStep DEF IInv, Known, HandlesKnown, PlacingPcs
<1>3. CASE HasRoom(c)
  <2> DEFINE n == nextID + 1
  <2>1. /\ nextID' = n /\ live' = Put(live, n, [job |-> sched.job, cluster |-> c])
        /\ sched' = [sched EXCEPT !.pc = "update", !.alloc = n, !.cluster = c]
    BY <1>3 DEF SchedAllocate
  <2>2. n \in Nat /\ n \notin DOMAIN live /\ nextID \in Nat
    BY DEF IInv, TypeOK
  <2>3. /\ sched' \in Pass /\ sched'.pc = "update" /\ sched'.alloc = n /\ sched'.cluster = c
        /\ sched'.job = sched.job /\ sched'.rec = sched.rec /\ sched'.prov = sched.prov
    BY <1>1, <2>1, <2>2 DEF Pass
  <2>4. /\ DOMAIN live' = DOMAIN live \cup {n}
        /\ \A a \in DOMAIN live : live'[a] = live[a]
        /\ live'[n] = [job |-> sched.job, cluster |-> c]
    BY <2>1, <2>2 DEF Put
  <2>5. TypeOK'
    <3>1. \A a \in DOMAIN live : a \in 1..nextID'
      BY <2>1, <2>2 DEF IInv, TypeOK
    <3>2. n \in 1..nextID' /\ nextID' \in Nat /\ live'[n] \in Allocation
      BY <1>1, <2>1, <2>2, <2>4 DEF Allocation
    <3> HIDE DEF n
    <3> QED
      BY <1>1, <2>3, <2>4, <3>1, <3>2 DEF IInv, TypeOK, MaxAttempts
  <2> HIDE DEF n
  <2>6. Known'
    BY <1>1, <2>3, <2>4 DEF IInv, Known, PlacingPcs
  <2>7. HandlesKnown'
    BY <1>1, <2>3 DEF IInv, HandlesKnown, HandleKnown
  <2>8. OwnAllocation'
    BY <1>1, <2>4 DEF IInv, OwnAllocation, Submitted
  <2>9. AllocationsOwned'
    BY <1>1, <2>3, <2>4, NothingIsNone DEF IInv, AllocationsOwned, TypeOK
  <2>10. PassOK'
    BY <1>1, <2>3, <2>4 DEF IInv, PassOK, PlacingPcs, NoTask
  <2>11. WaitingIsFree' /\ OneStage' /\ LocksOK'
    BY <1>1 DEF IInv, WaitingIsFree, NoTask, OneStage, LocksOK
  <2> QED
    BY <2>5, <2>6, <2>7, <2>8, <2>9, <2>10, <2>11 DEF IInv
<1> QED
  BY <1>2, <1>3

\* The pass hands the job to its first stage, or fails to.
LEMMA DispatchStep ==
  ASSUME IInv, SchedDispatch
  PROVE  IInv'
<1> DEFINE P == sched.prov \ {sched.job}
<1>1. /\ sched \in Pass /\ sched.pc = "insert" /\ sched.job \in Jobs /\ sched.alloc = None
      /\ queue[sched.job] # None /\ NoTask(sched.job) /\ queue[sched.job].state # "SUBMITTED"
      /\ UNCHANGED <<queue, live, nextID, remote, mu, canceller, cancelReq>>
      /\ sched' = Advance(sched.snapshot, P)
  BY DEF IInv, TypeOK, Known, PassOK, PlacingPcs, SchedDispatch
<1>2. sched.snapshot \in SUBSET Jobs /\ P \in SUBSET Jobs /\ P \subseteq sched.prov
  BY <1>1 DEF Pass
<1>3. /\ sched' \in Pass /\ sched'.pc \in {"idle", "get"} /\ sched'.alloc = None
      /\ sched'.rec = NewJob /\ sched'.prov \subseteq sched.prov
  BY <1>1, <1>2, AdvanceHoldsNothing
<1>4. PassOK'
  BY <1>3 DEF PassOK, PlacingPcs
<1>5. CASE UNCHANGED tasks
  BY <1>1, <1>3, <1>4, <1>5, NewJobIsJob, PassStep DEF IInv, Known, HandleKnown, PlacingPcs
<1>6. CASE ~UNCHANGED tasks
  <2> DEFINE t == NewTask("dispatch", sched.job)
  <2>1. PICK s \in Slots : tasks[s] = None /\ tasks' = [tasks EXCEPT ![s] = t]
    BY <1>6 DEF SchedDispatch
  <2>2. /\ t \in Task /\ t.job = sched.job /\ t.attempt <= MaxAttempts(t) /\ t.pc = "ready"
        /\ t.handle = None /\ t.rec.handle = None
    BY <1>1, NewJobIsJob, PipelineAssumption DEF NewTask, Task, MaxAttempts, NativeStates
  <2> HIDE DEF t
  <2>3. \A r \in Slots : tasks'[r] = IF r = s THEN t ELSE tasks[r]
    BY <2>1 DEF IInv, TypeOK
  <2>4. TypeOK'
    <3>1. tasks' \in [Slots -> Task \cup {None}]
      BY <2>1, <2>2 DEF IInv, TypeOK
    <3>2. \A r \in Slots : tasks'[r] # None => tasks'[r].attempt <= MaxAttempts(tasks'[r])
      BY <2>2, <2>3 DEF IInv, TypeOK
    <3> QED
      BY <1>1, <1>3, <3>1, <3>2 DEF IInv, TypeOK, MaxAttempts
  <2>5. Known'
    BY <1>1, <1>3, <2>2, <2>3 DEF IInv, Known, PlacingPcs
  <2>6. HandlesKnown'
    BY <1>1, <1>3, <2>2, <2>3, NewJobIsJob DEF IInv, HandlesKnown, HandleKnown
  <2>7. OwnAllocation'
    BY <1>1 DEF IInv, OwnAllocation, Submitted
  <2>8. AllocationsOwned'
    BY <1>1, <1>3, NothingIsNone DEF IInv, AllocationsOwned, TypeOK
  <2>9. WaitingIsFree'
    BY <1>1, <2>2, <2>3 DEF IInv, WaitingIsFree, NoTask
  <2>10. OneStage'
    BY <1>1, <2>2, <2>3 DEF IInv, OneStage, NoTask
  <2>11. LocksOK'
    BY <1>1, <2>2, <2>3 DEF IInv, LocksOK
  <2> QED
    BY <1>4, <2>4, <2>5, <2>6, <2>7, <2>8, <2>9, <2>10, <2>11 DEF IInv
<1> QED
  BY <1>5, <1>6

LEMMA PassSteps == ASSUME IInv, Sched PROVE IInv'
<1>1. sched \in Pass /\ sched.prov \subseteq Jobs /\ sched.snapshot \in SUBSET Jobs
  BY DEF IInv, TypeOK, Pass
<1>2. ASSUME NEW S \in SUBSET Jobs, NEW P \in SUBSET Jobs, \A j \in P : queue[j] # None,
             sched' = Advance(S, P), sched.alloc = None,
             UNCHANGED <<queue, live, nextID, remote, mu, tasks, canceller, cancelReq>>
      PROVE IInv'
  <2>1. /\ sched' \in Pass /\ sched'.pc \in {"idle", "get"} /\ sched'.alloc = None
        /\ sched'.rec = NewJob /\ sched'.prov \subseteq P
    BY <1>2, AdvanceHoldsNothing
  <2>2. PassOK'
    BY <2>1 DEF PassOK, PlacingPcs
  <2> QED
    BY <1>2, <2>1, <2>2, NewJobIsJob, PassStep DEF HandleKnown, PlacingPcs
<1>3. CASE SchedSnapshot
  <2>1. Provisional \in SUBSET Jobs /\ \A j \in Provisional : queue[j] # None
    BY DEF Provisional
  <2>2. sched.alloc = None
    BY <1>3 DEF IInv, PassOK, SchedSnapshot
  <2> QED
    BY <1>2, <1>3, <2>1, <2>2 DEF SchedSnapshot
<1>4. ASSUME NEW j \in Jobs, SchedGet(j) PROVE IInv'
  <2>1. sched.pc = "get" /\ sched.alloc = None /\ queue[j] # None
    BY <1>4 DEF IInv, PassOK, Known, SchedGet, First
  <2>2. CASE queue[j].state # "SUBMITTED"
    <3>1. \A k \in sched.prov \ {j} : queue[k] # None
      BY DEF IInv, Known
    <3> QED
      BY <1>1, <1>2, <1>4, <2>1, <2>2, <3>1 DEF SchedGet
  <2>3. CASE queue[j].state = "SUBMITTED"
    <3> DEFINE targets == Feasible[j] \cap Dispatchable
    <3>1. PICK pc \in {"fail", "note", "place"} :
            sched' = [sched EXCEPT !.job = j, !.rec = queue[j], !.left = targets, !.pc = pc]
      BY <1>4, <2>3 DEF SchedGet
    <3>2. queue[j] \in Job /\ HandleKnown(queue[j].handle) /\ targets \in SUBSET Clusters
      BY <2>1, PipelineAssumption DEF IInv, TypeOK, HandlesKnown
    <3>3. /\ sched' \in Pass /\ sched'.job = j /\ sched'.rec = queue[j] /\ sched'.pc = pc
          /\ sched'.alloc = None /\ sched'.prov = sched.prov
      <4> HIDE DEF targets
      <4> QED
        BY <1>1, <2>1, <3>1, <3>2 DEF Pass
    <3>4. NoTask(j) /\ queue[j].alloc = None
      BY <2>1, <2>3 DEF IInv, WaitingIsFree
    <3>5. PassOK'
      BY <1>4, <2>3, <3>3, <3>4 DEF PassOK, PlacingPcs, NoTask, SchedGet
    <3>6. \A k \in sched.prov : queue[k] # None
      BY DEF IInv, Known
    <3> QED
      BY <1>4, <2>1, <3>2, <3>3, <3>5, <3>6, PassStep DEF SchedGet
  <2> QED
    BY <2>2, <2>3
<1>5. CASE SchedFail
  <2> DEFINE r == [sched.rec EXCEPT !.state = "FAILED", !.waiting = FALSE]
  <2> DEFINE P == sched.prov \ {sched.job}
  <2>1. sched.pc = "fail" /\ sched.rec \in Job /\ sched.rec.alloc = None /\ HandleKnown(sched.rec.handle)
    BY <1>1, <1>5 DEF IInv, PassOK, PlacingPcs, HandlesKnown, Pass, SchedFail
  <2>2. r \in Job /\ r.alloc = None /\ r.handle = sched.rec.handle
    BY <2>1 DEF Job, JobStates
  <2>3. sched' = Advance(sched.snapshot, P) /\ P \in SUBSET Jobs /\ P \subseteq sched.prov
    BY <1>1, <1>5 DEF SchedFail
  <2>4. queue' = [queue EXCEPT ![sched.job] = r]
    BY <1>5 DEF SchedFail
  <2> HIDE DEF r, P
  <2>5. /\ sched' \in Pass /\ sched'.pc \in {"idle", "get"} /\ sched'.alloc = None
        /\ sched'.rec = NewJob /\ sched'.prov \subseteq sched.prov
    BY <1>1, <2>3, AdvanceHoldsNothing
  <2> QED
    BY <1>5, <2>1, <2>2, <2>4, <2>5, NewJobIsJob, PassWrites DEF SchedFail, PlacingPcs, HandleKnown
<1>6. CASE SchedUpdate
  <2> DEFINE r == [sched.rec EXCEPT !.state = "MATCHED", !.alloc = sched.alloc,
                                    !.cluster = sched.cluster, !.waiting = FALSE]
  <2>1. sched.pc = "update" /\ sched.rec \in Job /\ HandleKnown(sched.rec.handle)
    BY <1>1, <1>6 DEF IInv, HandlesKnown, Pass, SchedUpdate
  <2>2. /\ r \in Job /\ r.alloc = sched.alloc /\ r.handle = sched.rec.handle
        /\ r.cluster = sched.cluster /\ r.state = "MATCHED"
    BY <1>1, <2>1 DEF Job, JobStates, Pass
  <2>3. queue' = [queue EXCEPT ![sched.job] = r]
    BY <1>6 DEF SchedUpdate
  <2> HIDE DEF r
  <2>4. /\ sched' \in Pass /\ sched'.pc = "insert" /\ sched'.alloc = None
        /\ sched'.rec = sched.rec /\ sched'.prov = sched.prov /\ sched'.job = sched.job
    BY <1>1, <1>6 DEF SchedUpdate, Pass
  <2> QED
    BY <1>6, <2>1, <2>2, <2>3, <2>4, PassWrites DEF SchedUpdate, PlacingPcs, HandleKnown
<1>7. CASE SchedNote
  <2> DEFINE r == [sched.rec EXCEPT !.waiting = TRUE]
  <2>1. /\ sched.pc = "note" /\ sched.rec \in Job /\ sched.rec.alloc = None
        /\ HandleKnown(sched.rec.handle) /\ sched.alloc = None
    BY <1>1, <1>7 DEF IInv, PassOK, PlacingPcs, HandlesKnown, Pass, SchedNote
  <2>2. r \in Job /\ r.alloc = None /\ r.handle = sched.rec.handle
    BY <2>1 DEF Job
  <2>3. PICK P \in SUBSET Jobs : P \subseteq sched.prov /\ sched' = Advance(sched.snapshot, P)
    <3>1. Idle = Advance(sched.snapshot, {})
      BY DEF Advance
    <3> QED
      BY <1>1, <1>7, <3>1 DEF SchedNote
  <2>4. \A j \in P : queue[j] # None
    BY <2>3 DEF IInv, Known
  <2>5. CASE queue' = queue
    BY <1>1, <1>2, <1>7, <2>1, <2>3, <2>4, <2>5 DEF SchedNote
  <2>6. CASE queue' = [queue EXCEPT ![sched.job] = r]
    <3> HIDE DEF r
    <3>1. /\ sched' \in Pass /\ sched'.pc \in {"idle", "get"} /\ sched'.alloc = None
          /\ sched'.rec = NewJob /\ sched'.prov \subseteq sched.prov
      BY <1>1, <2>3, AdvanceHoldsNothing
    <3> QED
      BY <1>7, <2>1, <2>2, <2>6, <3>1, NewJobIsJob, PassWrites DEF SchedNote, PlacingPcs, HandleKnown
  <2> QED
    BY <1>7, <2>5, <2>6 DEF SchedNote
<1> QED
  BY <1>3, <1>4, <1>5, <1>6, <1>7, AllocateStep, DispatchStep DEF Sched

-----------------------------------------------------------------------------
(* Clients and native jobs *)

LEMMA SubmitStep ==
  ASSUME IInv, NEW j \in Jobs, SubmitEnqueue(j)
  PROVE  IInv'
<1>1. /\ queue[j] = None /\ queue' = [queue EXCEPT ![j] = NewJob]
      /\ UNCHANGED <<live, nextID, remote, mu, sched, tasks, canceller, cancelReq>>
  BY DEF SubmitEnqueue
<1>2. \A k \in Jobs : queue'[k] = IF k = j THEN NewJob ELSE queue[k]
  BY <1>1 DEF IInv, TypeOK
<1>3. \A k \in Jobs : queue[k] # None => k # j
  BY <1>1
<1>4. /\ NewJob \in Job /\ NewJob # None /\ NewJob.handle = None /\ NewJob.alloc = None
      /\ \A k \in Jobs : queue[k] # None => queue'[k] = queue[k]
  BY <1>2, <1>3, NewJobIsJob, NothingIsNone
<1>5. /\ \A s \in Slots : tasks[s] # None => tasks[s].job \in Jobs
      /\ \A a \in DOMAIN live : live[a].job \in Jobs
      /\ sched.prov \subseteq Jobs /\ cancelReq \subseteq Jobs
  BY DEF IInv, TypeOK, Task, Allocation, Pass
<1>6. NoTask(j)
  BY <1>1 DEF IInv, Known, NoTask
<1>7. TypeOK'
  <2>1. queue' \in [Jobs -> Job \cup {None}]
    BY <1>1, <1>4 DEF IInv, TypeOK
  <2> QED
    BY <1>1, <2>1 DEF IInv, TypeOK, MaxAttempts
<1>8. Known'
  BY <1>1, <1>4, <1>5 DEF IInv, Known
<1>9. HandlesKnown'
  BY <1>1, <1>2, <1>4 DEF IInv, HandlesKnown, HandleKnown
<1>10. OwnAllocation'
  BY <1>1, <1>2, <1>4 DEF IInv, OwnAllocation, Submitted
<1>11. AllocationsOwned'
  BY <1>1, <1>4, <1>5 DEF IInv, AllocationsOwned, Known
<1>12. PassOK'
  BY <1>1, <1>4 DEF IInv, PassOK, Known, NoTask, PlacingPcs
<1>13. WaitingIsFree'
  BY <1>1, <1>2, <1>4, <1>6 DEF IInv, WaitingIsFree, NoTask
<1>14. OneStage'
  BY <1>1 DEF IInv, OneStage
<1>15. LocksOK'
  BY <1>1, <1>4, <1>5 DEF IInv, LocksOK, Known
<1> QED
  BY <1>7, <1>8, <1>9, <1>10, <1>11, <1>12, <1>13, <1>14, <1>15 DEF IInv

\* The steps of Cancel that write nothing, and a native job that ends.
LEMMA CallerStep ==
  ASSUME IInv, canceller' \in Caller, RemoteGrows,
         cancelReq \subseteq cancelReq', cancelReq' \subseteq Jobs,
         \A j \in cancelReq' : queue[j] # None,
         canceller'.pc # "idle" => canceller'.job \in cancelReq',
         HandleKnown(canceller'.rec.handle),
         mu' = mu \/ (mu = None /\ mu' = Client),
         canceller'.pc = "commit" =>
           /\ mu' = Client
           /\ canceller'.rec.alloc = None \/ canceller'.rec.alloc = queue[canceller'.job].alloc,
         UNCHANGED <<queue, live, nextID, sched, tasks>>
  PROVE  IInv'
<1>1. TypeOK'
  BY DEF IInv, TypeOK, RemoteGrows, MaxAttempts
<1>2. Known'
  BY DEF IInv, Known
<1>3. HandlesKnown'
  BY DEF IInv, HandlesKnown, HandleKnown, RemoteGrows
<1>4. OwnAllocation' /\ AllocationsOwned'
  BY DEF IInv, OwnAllocation, AllocationsOwned, Submitted
<1>5. PassOK' /\ WaitingIsFree' /\ OneStage'
  BY DEF IInv, PassOK, WaitingIsFree, NoTask, OneStage
<1>6. LocksOK'
  BY NothingIsNone DEF IInv, LocksOK
<1> QED
  BY <1>1, <1>2, <1>3, <1>4, <1>5, <1>6 DEF IInv

\* Cancel writes FAILED, and frees what the record named when it was read.
LEMMA CancelCommitStep ==
  ASSUME IInv, CancelCommit
  PROVE  IInv'
<1> DEFINE jb == canceller.job
<1> DEFINE r == [FreedRecord(canceller.rec) EXCEPT !.state = "FAILED", !.waiting = FALSE]
<1>1. /\ canceller.pc = "commit" /\ canceller' = NoClient /\ mu' = None /\ mu = Client
      /\ UNCHANGED <<nextID, remote, sched, tasks, cancelReq>>
      /\ queue' = [queue EXCEPT ![jb] = r] /\ live' = FreedLedger(canceller.rec)
      /\ canceller.rec.alloc = None \/ canceller.rec.alloc = queue[jb].alloc
  BY DEF CancelCommit, IInv, LocksOK
<1>2. /\ jb \in cancelReq /\ jb \in Jobs /\ queue[jb] # None
      /\ canceller.rec \in Job /\ HandleKnown(canceller.rec.handle)
  BY <1>1 DEF IInv, Known, TypeOK, Caller, HandlesKnown
<1>3. /\ r \in Job /\ r # None /\ r.alloc = None /\ r.state = "FAILED"
      /\ r.handle = canceller.rec.handle
  BY <1>2, NothingIsNone DEF Job, JobStates, FreedRecord
<1> HIDE DEF r
<1>4. \A j \in Jobs : queue'[j] = IF j = jb THEN r ELSE queue[j]
  BY <1>1 DEF IInv, TypeOK
<1>5. /\ DOMAIN live' \subseteq DOMAIN live
      /\ \A a \in DOMAIN live' : live'[a] = live[a]
      /\ \A a \in DOMAIN live : a \in DOMAIN live' \/ a = canceller.rec.alloc
  BY <1>1 DEF FreedLedger, Drop
<1>6. \A a \in DOMAIN live : a = canceller.rec.alloc =>
        live[a].job = jb /\ queue[jb].alloc # None
  <2>1. \A a \in DOMAIN live : a # None
    BY NothingIsNone DEF IInv, TypeOK
  <2>2. queue[jb].alloc # None =>
          live[queue[jb].alloc] = [job |-> jb, cluster |-> queue[jb].cluster]
    BY <1>2 DEF IInv, OwnAllocation, Submitted
  <2> QED
    BY <1>1, <2>1, <2>2
<1>7. \A a \in DOMAIN live : live[a].job # jb => a \in DOMAIN live'
  BY <1>5, <1>6
<1>8. /\ \A s \in Slots : tasks[s] # None => tasks[s].job \in Jobs
      /\ \A a \in DOMAIN live : live[a].job \in Jobs
      /\ sched.prov \subseteq Jobs /\ cancelReq \subseteq Jobs
      /\ \A k \in Jobs : queue[k] # None => queue'[k] # None
  BY <1>3, <1>4 DEF IInv, TypeOK, Task, Allocation, Pass
<1>9. TypeOK'
  <2>1. queue' \in [Jobs -> Job \cup {None}]
    BY <1>1, <1>3 DEF IInv, TypeOK
  <2>2. NoClient \in Caller
    BY NewJobIsJob DEF NoClient, Caller
  <2> QED
    BY <1>1, <1>5, <2>1, <2>2 DEF IInv, TypeOK, MaxAttempts
<1>10. Known'
  BY <1>1, <1>5, <1>8 DEF IInv, Known, NoClient
<1>11. HandlesKnown'
  BY <1>1, <1>2, <1>3, <1>4, NewJobIsJob DEF IInv, HandlesKnown, HandleKnown, NoClient
<1>12. OwnAllocation'
  <2>1. ASSUME NEW j \in Jobs, j # jb, queue[j] # None, queue[j].alloc # None
        PROVE /\ queue[j].alloc \in DOMAIN live'
              /\ live'[queue[j].alloc] = [job |-> j, cluster |-> queue[j].cluster]
              /\ ~Terminal(queue[j].state)
    <3>1. /\ queue[j].alloc \in DOMAIN live
          /\ live[queue[j].alloc] = [job |-> j, cluster |-> queue[j].cluster]
          /\ ~Terminal(queue[j].state)
      BY <2>1 DEF IInv, OwnAllocation, Submitted
    <3> QED
      BY <1>5, <1>7, <2>1, <3>1
  <2> QED
    BY <1>3, <1>4, <2>1 DEF OwnAllocation, Submitted
<1>13. AllocationsOwned'
  <2>1. SUFFICES ASSUME NEW a \in DOMAIN live', live[a].job \notin cancelReq, sched.alloc # a
        PROVE queue'[live[a].job].alloc = a
    BY <1>1, <1>5 DEF AllocationsOwned
  <2>2. queue[live[a].job].alloc = a /\ live[a].job # jb /\ live[a].job \in Jobs
    BY <1>2, <1>5, <1>8, <2>1 DEF IInv, AllocationsOwned
  <2> QED
    BY <1>4, <2>2
<1>14. PassOK'
  <2>1. sched.pc = "update" => sched.alloc \in DOMAIN live' /\ live'[sched.alloc] = live[sched.alloc]
    <3>1. sched.pc = "update" =>
            /\ sched.alloc \in DOMAIN live /\ live[sched.alloc].job = sched.job
            /\ queue[sched.job].alloc = None
      BY DEF IInv, PassOK, PlacingPcs
    <3> QED
      BY <1>5, <1>6, <3>1
  <2>2. sched.pc \in PlacingPcs \cup {"insert"} => sched.job \in Jobs
    BY DEF IInv, Known
  <2> QED
    BY <1>1, <1>3, <1>4, <2>1, <2>2 DEF IInv, PassOK, NoTask, PlacingPcs
<1>15. WaitingIsFree'
  BY <1>1, <1>3, <1>4 DEF IInv, WaitingIsFree, NoTask
<1>16. OneStage'
  BY <1>1 DEF IInv, OneStage
<1>17. LocksOK'
  BY <1>1, NothingIsNone DEF IInv, LocksOK, NoClient
<1> QED
  BY <1>9, <1>10, <1>11, <1>12, <1>13, <1>14, <1>15, <1>16, <1>17 DEF IInv

LEMMA CancelSteps == ASSUME IInv, Cancel PROVE IInv'
<1>1. canceller \in Caller
  BY DEF IInv, TypeOK
<1>2. UNCHANGED remote => RemoteGrows
  BY DEF IInv, TypeOK, RemoteGrows
<1>3. ASSUME NEW j \in Jobs, CancelBegin(j) PROVE IInv'
  <2>1. PICK pc \in {"remote", "lock"}, rec \in {queue[j], NewJob} :
          canceller' = [pc |-> pc, job |-> j, rec |-> rec]
    BY <1>3 DEF CancelBegin
  <2>2. queue[j] # None /\ rec \in Job /\ HandleKnown(rec.handle)
    BY <1>3, NewJobIsJob DEF IInv, TypeOK, HandlesKnown, HandleKnown, CancelBegin
  <2>3. canceller' \in Caller /\ canceller'.pc = pc
    BY <2>1, <2>2 DEF Caller
  <2>4. cancelReq' = cancelReq \cup {j} /\ cancelReq \subseteq Jobs
    BY <1>3 DEF IInv, TypeOK, CancelBegin
  <2>5. \A k \in cancelReq : queue[k] # None
    BY DEF IInv, Known
  <2>6. UNCHANGED <<queue, live, nextID, remote, mu, sched, tasks>>
    BY <1>3 DEF CancelBegin
  <2> QED
    BY <1>2, <2>1, <2>2, <2>3, <2>4, <2>5, <2>6, CallerStep
<1>4. CASE CancelRemote
  <2>1. RemoteGrows /\ canceller.pc = "remote"
    BY <1>4, StopKeeps DEF CancelRemote, IInv
  <2>2. /\ canceller' \in Caller /\ canceller'.pc = "lock" /\ canceller'.job = canceller.job
        /\ canceller'.rec = NewJob
    BY <1>1, <1>4, NewJobIsJob DEF CancelRemote, Caller
  <2>3. UNCHANGED <<queue, live, nextID, mu, sched, tasks, cancelReq>>
    BY <1>4 DEF CancelRemote
  <2>4. /\ \A k \in cancelReq : queue[k] # None
        /\ cancelReq \subseteq Jobs /\ canceller.job \in cancelReq
        /\ HandleKnown(NewJob.handle)
    BY <2>1, NewJobIsJob DEF IInv, Known, TypeOK, HandleKnown
  <2> QED
    BY <2>1, <2>2, <2>3, <2>4, CallerStep
<1>5. CASE CancelLock
  <2>1. /\ \A k \in cancelReq : queue[k] # None
        /\ cancelReq \subseteq Jobs /\ canceller.job \in cancelReq
    BY <1>5 DEF IInv, Known, TypeOK, CancelLock
  <2>2. queue[canceller.job] \in Job /\ HandleKnown(queue[canceller.job].handle)
    BY <2>1 DEF IInv, TypeOK, HandlesKnown
  <2>3. /\ canceller' \in Caller /\ canceller'.pc = "commit" /\ canceller'.job = canceller.job
        /\ canceller'.rec = queue[canceller.job]
    BY <1>1, <1>5, <2>2 DEF CancelLock, Caller
  <2>4. /\ UNCHANGED <<queue, live, nextID, remote, sched, tasks, cancelReq>>
        /\ mu = None /\ mu' = Client
    BY <1>5 DEF CancelLock
  <2> QED
    BY <1>2, <2>1, <2>2, <2>3, <2>4, CallerStep
<1> QED
  BY <1>3, <1>4, <1>5, CancelCommitStep DEF Cancel

LEMMA FinishStep ==
  ASSUME IInv, NEW h \in DOMAIN remote, RemoteFinish(h)
  PROVE  IInv'
<1>1. UNCHANGED <<queue, live, nextID, mu, sched, tasks, canceller, cancelReq>>
  BY DEF RemoteFinish
<1>2. RemoteGrows
  BY StopKeeps DEF RemoteFinish, StopRemote, IInv
<1>3. /\ canceller \in Caller /\ cancelReq \subseteq Jobs
      /\ \A j \in cancelReq : queue[j] # None
      /\ canceller.pc # "idle" => canceller.job \in cancelReq
      /\ HandleKnown(canceller.rec.handle)
      /\ canceller.pc = "commit" =>
           /\ mu = Client
           /\ canceller.rec.alloc = None \/ canceller.rec.alloc = queue[canceller.job].alloc
  BY DEF IInv, TypeOK, Known, HandlesKnown, LocksOK
<1> QED
  BY <1>1, <1>2, <1>3, CallerStep

\* A step that changes none of the variables but arrival.
LEMMA StutterStep ==
  ASSUME IInv,
         UNCHANGED <<queue, live, nextID, remote, mu, sched, tasks, canceller, cancelReq>>
  PROVE  IInv'
<1>1. TypeOK' /\ Known' /\ HandlesKnown'
  BY DEF IInv, TypeOK, MaxAttempts, Known, HandlesKnown, HandleKnown
<1>2. OwnAllocation' /\ AllocationsOwned' /\ PassOK'
  BY DEF IInv, OwnAllocation, AllocationsOwned, Submitted, PassOK, NoTask
<1>3. WaitingIsFree' /\ OneStage' /\ LocksOK'
  BY DEF IInv, WaitingIsFree, NoTask, OneStage, LocksOK
<1> QED
  BY <1>1, <1>2, <1>3 DEF IInv

-----------------------------------------------------------------------------

LEMMA InitIInv == Init => IInv
<1> SUFFICES ASSUME Init PROVE IInv
  OBVIOUS
<1>1. /\ queue = [j \in Jobs |-> None] /\ DOMAIN live = {} /\ nextID = 0
      /\ remote = <<>> /\ DOMAIN remote = {} /\ mu = None /\ sched = Idle
      /\ tasks = [s \in Slots |-> None] /\ canceller = NoClient /\ cancelReq = {}
  BY DEF Init
<1>2. /\ Idle \in Pass /\ Idle.pc = "idle" /\ Idle.alloc = None /\ Idle.rec = NewJob
      /\ Idle.prov = {}
  BY NewJobIsJob DEF Idle, Pass
<1>3. NoClient \in Caller /\ NoClient.pc = "idle" /\ NoClient.rec = NewJob
  BY NewJobIsJob DEF NoClient, Caller
<1>4. TypeOK
  <2>1. IsFiniteSet(DOMAIN remote)
    BY <1>1, FS_EmptySet
  <2>2. remote \in [DOMAIN remote -> NativeJob]
    BY <1>1
  <2> QED
    BY <1>1, <1>2, <1>3, <2>1, <2>2 DEF TypeOK
<1>5. Known /\ HandlesKnown
  BY <1>1, <1>2, <1>3, NewJobIsJob DEF Known, HandlesKnown, HandleKnown, PlacingPcs
<1>6. OwnAllocation /\ AllocationsOwned
  BY <1>1 DEF OwnAllocation, AllocationsOwned, Submitted
<1>7. PassOK /\ WaitingIsFree /\ OneStage /\ LocksOK
  BY <1>1, <1>2, <1>3 DEF PassOK, WaitingIsFree, OneStage, LocksOK, PlacingPcs
<1> QED
  BY <1>4, <1>5, <1>6, <1>7 DEF IInv

LEMMA NextIInv == IInv /\ [Next]_vars => IInv'
<1> SUFFICES ASSUME IInv, [Next]_vars PROVE IInv'
  OBVIOUS
<1>1. ASSUME NEW j \in Jobs, SubmitStamp(j) \/ SubmitEnqueue(j) PROVE IInv'
  BY <1>1, SubmitStep, StutterStep DEF SubmitStamp
<1>2. ASSUME Sched PROVE IInv'
  BY <1>2, PassSteps
<1>3. ASSUME NEW s \in Slots, Stage(s) PROVE IInv'
  BY <1>3, LocalSteps, CommitSteps DEF Stage
<1>4. ASSUME NEW h \in DOMAIN remote, RemoteFinish(h) PROVE IInv'
  BY <1>4, FinishStep
<1>5. ASSUME Cancel PROVE IInv'
  BY <1>5, CancelSteps
<1>6. ASSUME Quiet \/ UNCHANGED vars PROVE IInv'
  BY <1>6, StutterStep DEF Quiet, vars
<1> QED
  BY <1>1, <1>2, <1>3, <1>4, <1>5, <1>6 DEF Next

\* Who holds a job, who holds its allocation and what a lock keeps still: the
\* state of the pass, the stages and Cancel between any two of their steps
\* (manager.go:203-302, pipeline.go:136-339).
THEOREM Inductive == Spec => []IInv
<1> QED
  BY InitIInv, NextIInv, PTL DEF Spec

\* Records and river jobs stay well formed: no job is handed back more than
\* maxReschedules times, and river runs none beyond its limit (pipeline.go:325).
THEOREM TypeCorrect == Spec => []TypeOK
<1>1. IInv => TypeOK
  BY DEF IInv
<1> QED
  BY <1>1, Inductive, PTL

\* A record names only a live allocation of its own, on its own cluster, and a
\* finished job names none: nothing is freed twice (freeLocked, pipeline.go:137).
THEOREM NamesItsOwn == Spec => []OwnAllocation
<1>1. IInv => OwnAllocation
  BY DEF IInv
<1> QED
  BY <1>1, Inductive, PTL

\* Unless Cancel was called for its job, no allocation is lost: the pass still
\* has it or the record of an unfinished job names it (pipeline.go:13-17).
THEOREM NoLeak == Spec => []AllocationsOwned
<1>1. IInv => AllocationsOwned
  BY DEF IInv
<1> QED
  BY <1>1, Inductive, PTL

-----------------------------------------------------------------------------
(* First come, first served *)

\* A job that waits and was never placed.
Fresh(j) == queue[j] # None /\ queue[j].state = "SUBMITTED" /\ queue[j].reschedules = 0

ArrivalOK ==
  arrival \in Seq(Jobs) /\ \A j \in Jobs : queue[j] # None => Stamped(j)

\* The jobs of S that were stamped first.
Oldest(S) == {j \in S : \A k \in S : ~Before(k, j)}

\* The pass takes the jobs of its snapshot in order, and is done with no fresh
\* one of them that is older than one it has still to place.
FifoOK ==
  /\ sched.pc \in PlacingPcs => sched.job \in Oldest(sched.prov)
  /\ \A k \in sched.snapshot : queue[k] # None
  /\ \A k \in sched.snapshot : \A j \in sched.prov :
       Fresh(k) /\ Before(k, j) => k \in sched.prov

FifoInv == IInv /\ ArrivalOK /\ FifoOK

\* A store that sorts by time lists the oldest job first.
LEMMA FirstIsOldest == ASSUME ~TextOrder, NEW S PROVE First(S) = Oldest(S)
BY DEF First, Oldest, ListedBefore

\* What a stage or Cancel writes is not a fresh job, nor was what it replaces.
LEMMA WritesNothingFresh ==
  ASSUME IInv, CancelCommit \/ \E s \in Slots : Stage(s)
  PROVE  /\ UNCHANGED <<arrival, sched>>
         /\ \A j \in Jobs : queue[j] # None <=> queue'[j] # None
         /\ \A j \in Jobs : Fresh(j)' => Fresh(j)
         /\ \A j \in Jobs : queue[j] # None /\ queue[j].state = "SUBMITTED" =>
              queue'[j].state # "MATCHED"
<1>1. ASSUME NEW jb \in Jobs, NEW r \in Job, queue' = [queue EXCEPT ![jb] = r],
             UNCHANGED <<arrival, sched>>, queue[jb] # None,
             queue[jb].state # "SUBMITTED" \/ r.state # "MATCHED",
             r.state # "SUBMITTED" \/ r.reschedules # 0
      PROVE  /\ UNCHANGED <<arrival, sched>>
             /\ \A j \in Jobs : queue[j] # None <=> queue'[j] # None
             /\ \A j \in Jobs : Fresh(j)' => Fresh(j)
             /\ \A j \in Jobs : queue[j] # None /\ queue[j].state = "SUBMITTED" =>
                  queue'[j].state # "MATCHED"
  <2>1. \A j \in Jobs : queue'[j] = IF j = jb THEN r ELSE queue[j]
    BY <1>1 DEF IInv, TypeOK
  <2> QED
    BY <1>1, <2>1, NothingIsNone DEF Fresh
<1>2. CASE CancelCommit
  <2> DEFINE r == [FreedRecord(canceller.rec) EXCEPT !.state = "FAILED", !.waiting = FALSE]
  <2>1. canceller.job \in Jobs /\ canceller.rec \in Job /\ queue[canceller.job] # None
    BY <1>2 DEF IInv, Known, TypeOK, Caller, CancelCommit
  <2>2. r \in Job /\ r.state = "FAILED"
    BY <2>1 DEF Job, JobStates, FreedRecord
  <2>3. queue' = [queue EXCEPT ![canceller.job] = r] /\ UNCHANGED <<arrival, sched>>
    BY <1>2 DEF CancelCommit
  <2> HIDE DEF r
  <2> QED
    BY <1>1, <2>1, <2>2, <2>3
<1>3. ASSUME NEW s \in Slots, Stage(s), queue' = queue
      PROVE  /\ UNCHANGED <<arrival, sched>>
             /\ \A j \in Jobs : queue[j] # None <=> queue'[j] # None
             /\ \A j \in Jobs : Fresh(j)' => Fresh(j)
             /\ \A j \in Jobs : queue[j] # None /\ queue[j].state = "SUBMITTED" =>
                  queue'[j].state # "MATCHED"
  <2>1. UNCHANGED <<arrival, sched>>
    BY <1>3 DEF Stage, DispatchBegin, DispatchMark, RepairBegin, Attempt, ReschedulePeek,
                RescheduleCancel, MonitorBegin, MonitorStatus, Lock, CommitRunning, CommitKeep,
                CommitFail, CommitReschedule, CommitObserve, Commit, Insert
  <2> QED
    BY <1>3, <2>1 DEF Fresh
<1>4. ASSUME NEW s \in Slots, tasks[s] # None, tasks[s].pc \in {"mark", "commit"}
      PROVE /\ tasks[s].job \in Jobs /\ tasks[s].rec \in Job /\ tasks[s] \in Task
            /\ queue[tasks[s].job].state # "SUBMITTED" /\ tasks[s].rec.state # "SUBMITTED"
  BY <1>4, SlotFacts DEF IInv, LocksOK, WaitingIsFree, NoTask
<1>5. ASSUME NEW s \in Slots,
             \/ DispatchMark(s) \/ CommitRunning(s) \/ CommitKeep(s) \/ CommitFail(s)
             \/ CommitReschedule(s) \/ CommitObserve(s)
      PROVE \E r \in Job : /\ queue' = [queue EXCEPT ![tasks[s].job] = r]
                           /\ r.state # "SUBMITTED" \/ r.reschedules # 0
  <2> DEFINE q == tasks[s].rec
  <2>1. /\ tasks[s] # None /\ tasks[s].pc \in {"mark", "commit"}
    BY <1>5 DEF DispatchMark, CommitRunning, CommitKeep, CommitFail, CommitReschedule,
                CommitObserve, Commit, At
  <2>2. q \in Job /\ q.state # "SUBMITTED" /\ tasks[s] \in Task
    BY <1>4, <2>1
  <2>3. CASE DispatchMark(s)
    <3>1. [q EXCEPT !.state = "DISPATCHING"] \in Job
      BY <2>2 DEF Job, JobStates
    <3>2. [q EXCEPT !.state = "DISPATCHING"].state # "SUBMITTED"
      BY <2>2 DEF Job
    <3> QED
      BY <2>3, <3>1, <3>2 DEF DispatchMark
  <2>4. CASE CommitRunning(s)
    <3> DEFINE r == [q EXCEPT !.state = "RUNNING", !.handle = tasks[s].handle, !.waiting = FALSE]
    <3>1. r \in Job /\ r.state # "SUBMITTED"
      BY <2>2 DEF Job, JobStates, Task
    <3>2. queue' = [queue EXCEPT ![tasks[s].job] = r]
      BY <2>4 DEF CommitRunning, Commit
    <3> QED
      BY <3>1, <3>2
  <2>5. CASE CommitKeep(s)
    <3> DEFINE r == [q EXCEPT !.waiting = FALSE]
    <3>1. r \in Job /\ r.state # "SUBMITTED"
      BY <2>2 DEF Job
    <3>2. queue' = [queue EXCEPT ![tasks[s].job] = r]
      BY <2>5 DEF CommitKeep, Commit
    <3> QED
      BY <3>1, <3>2
  <2>6. CASE CommitFail(s)
    <3> DEFINE r == [FreedRecord(q) EXCEPT !.state = "FAILED", !.waiting = FALSE]
    <3>1. r \in Job /\ r.state # "SUBMITTED"
      BY <2>2 DEF Job, JobStates, FreedRecord
    <3>2. queue' = [queue EXCEPT ![tasks[s].job] = r]
      BY <2>6 DEF CommitFail, Commit
    <3> QED
      BY <3>1, <3>2
  <2>7. CASE CommitReschedule(s)
    <3> DEFINE u == [FreedRecord(q) EXCEPT !.handle = None, !.waiting = FALSE]
    <3>1. u \in Job
      BY <2>2 DEF Job, FreedRecord
    <3>2. MaxReschedules \in Nat /\ u.reschedules \in 0..MaxReschedules
      BY <3>1, PipelineAssumption DEF Job
    <3>3. queue' = [queue EXCEPT ![tasks[s].job] =
                     IF u.reschedules + 1 > MaxReschedules
                       THEN [u EXCEPT !.state = "FAILED"]
                       ELSE [u EXCEPT !.state = "SUBMITTED", !.cluster = None,
                                      !.reschedules = @ + 1]]
      BY <2>7 DEF CommitReschedule, Commit
    <3> HIDE DEF u
    <3>4. CASE u.reschedules + 1 > MaxReschedules
      <4>1. [u EXCEPT !.state = "FAILED"] \in Job /\ [u EXCEPT !.state = "FAILED"].state # "SUBMITTED"
        BY <3>1 DEF Job, JobStates
      <4> QED
        BY <3>3, <3>4, <4>1
    <3>5. CASE ~(u.reschedules + 1 > MaxReschedules)
      <4> DEFINE r == [u EXCEPT !.state = "SUBMITTED", !.cluster = None,
                                !.reschedules = u.reschedules + 1]
      <4>1. queue' = [queue EXCEPT ![tasks[s].job] = r]
        BY <3>1, <3>3, <3>5 DEF Job
      <4>2. u.reschedules + 1 \in 0..MaxReschedules /\ u.reschedules + 1 # 0
        BY <3>2, <3>5
      <4>3. r \in Job /\ r.reschedules # 0
        BY <3>1, <4>2 DEF Job, JobStates
      <4> QED
        BY <4>1, <4>3
    <3> QED
      BY <3>4, <3>5
  <2>8. CASE CommitObserve(s)
    <3> DEFINE u == [q EXCEPT !.state = tasks[s].status, !.waiting = FALSE]
    <3>1. u \in Job /\ u.state # "SUBMITTED"
      BY <2>2 DEF Job, JobStates, Task, NativeStates
    <3>2. FreedRecord(u) \in Job /\ FreedRecord(u).state = u.state
      BY <3>1 DEF Job, FreedRecord
    <3>3. \/ queue' = [queue EXCEPT ![tasks[s].job] = u]
          \/ queue' = [queue EXCEPT ![tasks[s].job] = FreedRecord(u)]
      BY <2>8 DEF CommitObserve, Commit
    <3> HIDE DEF u
    <3> QED
      BY <3>1, <3>2, <3>3
  <2> QED
    BY <1>5, <2>3, <2>4, <2>5, <2>6, <2>7, <2>8
<1>6. ASSUME NEW s \in Slots, Stage(s), queue' # queue
      PROVE  /\ UNCHANGED <<arrival, sched>>
             /\ \A j \in Jobs : queue[j] # None <=> queue'[j] # None
             /\ \A j \in Jobs : Fresh(j)' => Fresh(j)
             /\ \A j \in Jobs : queue[j] # None /\ queue[j].state = "SUBMITTED" =>
                  queue'[j].state # "MATCHED"
  <2>1. \/ DispatchMark(s) \/ CommitRunning(s) \/ CommitKeep(s) \/ CommitFail(s)
        \/ CommitReschedule(s) \/ CommitObserve(s)
    BY <1>6 DEF Stage, DispatchBegin, RepairBegin, Attempt, ReschedulePeek, RescheduleCancel,
                MonitorBegin, MonitorStatus, Lock, Insert
  <2>2. tasks[s] # None /\ tasks[s].pc \in {"mark", "commit"} /\ UNCHANGED <<arrival, sched>>
    BY <2>1 DEF DispatchMark, CommitRunning, CommitKeep, CommitFail, CommitReschedule,
                CommitObserve, Commit, At
  <2>3. /\ tasks[s].job \in Jobs /\ queue[tasks[s].job].state # "SUBMITTED"
        /\ queue[tasks[s].job] # None
    BY <1>4, <2>2 DEF IInv, Known
  <2>4. PICK r \in Job : /\ queue' = [queue EXCEPT ![tasks[s].job] = r]
                         /\ r.state # "SUBMITTED" \/ r.reschedules # 0
    BY <1>5, <2>1
  <2> QED
    BY <1>1, <2>2, <2>3, <2>4
<1> QED
  BY <1>2, <1>3, <1>6

\* A new stamp is later than every other, and the job that takes it is in no
\* snapshot.
LEMMA StampKeepsOrder ==
  ASSUME FifoInv, NEW i \in Jobs, SubmitStamp(i)
  PROVE  ArrivalOK' /\ FifoOK'
<1>1. /\ ~Stamped(i) /\ UNCHANGED <<queue, sched>>
      /\ arrival' = Append(arrival, i) /\ arrival \in Seq(Jobs)
  BY DEF SubmitStamp, FifoInv, ArrivalOK
<1>2. /\ arrival' \in Seq(Jobs) /\ DOMAIN arrival' = 1..Len(arrival) + 1
      /\ DOMAIN arrival = 1..Len(arrival) /\ Len(arrival) \in Nat
      /\ arrival'[Len(arrival) + 1] = i
      /\ \A m \in DOMAIN arrival : arrival'[m] = arrival[m]
  BY <1>1
<1>3. \A m \in DOMAIN arrival : arrival[m] # i
  BY <1>1 DEF Stamped
<1>4. \A j : Stamped(j) => Stamped(j)'
  BY <1>2 DEF Stamped
<1>5. ArrivalOK'
  BY <1>1, <1>2, <1>4 DEF FifoInv, ArrivalOK
<1>6. ASSUME NEW k, NEW j, Before(k, j)', j # i PROVE Before(k, j)
  <2>1. PICK m \in DOMAIN arrival', n \in DOMAIN arrival' :
          m < n /\ arrival'[m] = k /\ arrival'[n] = j
    BY <1>6 DEF Before
  <2>2. n \in DOMAIN arrival /\ m \in DOMAIN arrival
    BY <1>2, <1>6, <2>1
  <2> QED
    BY <1>2, <2>1, <2>2 DEF Before
<1>7. \A j \in sched.prov : j # i
  BY <1>1 DEF FifoInv, ArrivalOK, IInv, Known, TypeOK, Pass
<1>8. ASSUME sched.pc \in PlacingPcs PROVE sched.job \in Oldest(sched.prov)'
  <2>1. /\ sched.job \in sched.prov
        /\ \A k \in sched.prov : ~Before(k, sched.job)
    BY <1>8 DEF FifoInv, FifoOK, Oldest
  <2>2. ASSUME NEW k \in sched.prov, NEW m \in DOMAIN arrival', NEW n \in DOMAIN arrival',
               m < n, arrival'[m] = k, arrival'[n] = sched.job
        PROVE  FALSE
    <3>1. m \in DOMAIN arrival /\ n \in DOMAIN arrival
      BY <1>2, <1>7, <2>1, <2>2
    <3> QED
      BY <1>2, <2>1, <2>2, <3>1 DEF Before
  <2> QED
    BY <1>1, <2>1, <2>2 DEF Oldest, Before
<1>9. \A k, j : j \in sched.prov /\ Before(k, j)' => Before(k, j)
  BY <1>6, <1>7
<1>10. \A k : Fresh(k)' <=> Fresh(k)
  BY <1>1 DEF Fresh
<1> QED
  BY <1>1, <1>5, <1>8, <1>9, <1>10 DEF FifoInv, FifoOK

\* A job that is enqueued is in no snapshot, however old its stamp is.
LEMMA EnqueueKeepsOrder ==
  ASSUME FifoInv, NEW i \in Jobs, SubmitEnqueue(i)
  PROVE  ArrivalOK' /\ FifoOK'
<1>1. /\ queue[i] = None /\ Stamped(i) /\ queue' = [queue EXCEPT ![i] = NewJob]
      /\ UNCHANGED <<arrival, sched>> /\ queue \in [Jobs -> Job \cup {None}]
      /\ sched.snapshot \subseteq Jobs
  BY DEF SubmitEnqueue, FifoInv, IInv, TypeOK, Pass
<1>2. /\ \A k \in Jobs : queue'[k] = IF k = i THEN NewJob ELSE queue[k]
      /\ NewJob # None
  BY <1>1, NewJobIsJob, NothingIsNone
<1>3. \A k, j : /\ Before(k, j)' <=> Before(k, j)
               /\ Stamped(k)' <=> Stamped(k)
  BY <1>1 DEF Before, Stamped
<1>4. ArrivalOK'
  BY <1>1, <1>2, <1>3 DEF FifoInv, ArrivalOK
<1>5. \A k \in sched.snapshot : k # i /\ queue'[k] = queue[k] /\ queue[k] # None
  BY <1>1, <1>2 DEF FifoInv, FifoOK
<1>6. \A k \in sched.snapshot : Fresh(k)' <=> Fresh(k)
  BY <1>5 DEF Fresh
<1>7. sched.pc \in PlacingPcs => sched'.job \in Oldest(sched.prov)'
  BY <1>1 DEF FifoInv, FifoOK, Oldest, Before
<1>8. \A k \in sched.snapshot : \A j \in sched.prov :
        Fresh(k)' /\ Before(k, j)' => k \in sched.prov
  BY <1>1, <1>6 DEF FifoInv, FifoOK, Before
<1> QED
  BY <1>1, <1>4, <1>5, <1>7, <1>8 DEF FifoOK

\* Under FCFS the pass stops at the first job it cannot place, so it leaves no
\* fresh job behind it.
LEMMA PassKeepsOrder ==
  ASSUME FifoInv, HeadOfLineBlock, ~TextOrder, Sched
  PROVE  ArrivalOK' /\ FifoOK'
<1>1. /\ arrival' = arrival /\ sched \in Pass /\ sched.prov \subseteq Jobs
      /\ sched.snapshot \subseteq Jobs
      /\ queue \in [Jobs -> Job \cup {None}]
  BY DEF Sched, SchedSnapshot, SchedGet, SchedFail, SchedAllocate, SchedUpdate, SchedDispatch,
         SchedNote, FifoInv, IInv, TypeOK, Pass
<1>2. /\ \A k, j : Before(k, j)' <=> Before(k, j)
      /\ \A j : Stamped(j)' <=> Stamped(j)
  BY <1>1 DEF Before, Stamped
<1>3. ASSUME UNCHANGED queue PROVE ArrivalOK' /\ \A k : Fresh(k)' <=> Fresh(k)
  BY <1>1, <1>2, <1>3 DEF FifoInv, ArrivalOK, Fresh
<1>4. ASSUME NEW r \in Job, sched.job \in Jobs, queue' = [queue EXCEPT ![sched.job] = r],
             r.state # "SUBMITTED", queue[sched.job] # None
      PROVE /\ ArrivalOK' /\ \A k \in Jobs : queue[k] # None => queue'[k] # None
            /\ \A k \in Jobs : Fresh(k)' => Fresh(k) /\ k # sched.job
  <2>1. \A k \in Jobs : queue'[k] = IF k = sched.job THEN r ELSE queue[k]
    BY <1>1, <1>4
  <2>2. \A k \in Jobs : queue[k] # None => queue'[k] # None
    BY <2>1, NothingIsNone
  <2>3. ArrivalOK'
    <3>1. ASSUME NEW k \in Jobs, queue'[k] # None PROVE Stamped(k)'
      <4>1. queue[k] # None
        BY <1>4, <2>1, <3>1
      <4> QED
        BY <1>2, <4>1 DEF FifoInv, ArrivalOK
    <3> QED
      BY <1>1, <3>1 DEF FifoInv, ArrivalOK
  <2>4. \A k \in Jobs : Fresh(k)' => Fresh(k) /\ k # sched.job
    BY <1>4, <2>1 DEF Fresh
  <2> QED
    BY <2>2, <2>3, <2>4
<1>5. ASSUME NEW j \in Jobs, \A k \in Jobs : Fresh(k)' => Fresh(k) /\ k # j,
             \A k \in Jobs : queue[k] # None => queue'[k] # None,
             sched' = Advance(sched.snapshot, sched.prov \ {j})
      PROVE FifoOK'
  <2>1. /\ sched'.pc \in {"idle", "get"} /\ sched'.prov = sched.prov \ {j}
        /\ sched'.snapshot \subseteq sched.snapshot
    BY <1>5 DEF Advance, Idle
  <2>2. sched'.snapshot \subseteq Jobs
    BY <1>1, <2>1
  <2> QED
    BY <1>2, <1>5, <2>1, <2>2 DEF FifoInv, FifoOK, PlacingPcs
<1>6. ASSUME sched'.prov = sched.prov, sched'.snapshot = sched.snapshot,
             \A k \in Jobs : Fresh(k)' => Fresh(k),
             \A k \in Jobs : queue[k] # None => queue'[k] # None,
             sched'.pc \in PlacingPcs => sched'.job \in Oldest(sched.prov)
      PROVE FifoOK'
  BY <1>1, <1>2, <1>6 DEF FifoInv, FifoOK, Oldest
<1>7. CASE SchedSnapshot
  <2>1. /\ sched'.pc \in {"idle", "get"} /\ sched'.prov = Provisional
        /\ sched'.snapshot \subseteq Provisional /\ queue' = queue
    BY <1>7 DEF SchedSnapshot, Advance, Idle
  <2>2. \A k \in Provisional : queue'[k] # None
    BY <2>1 DEF Provisional
  <2> QED
    BY <1>3, <2>1, <2>2 DEF FifoOK, PlacingPcs
<1>8. ASSUME NEW j \in Jobs, SchedGet(j) PROVE ArrivalOK' /\ FifoOK'
  <2>1. UNCHANGED queue /\ j \in Oldest(sched.prov) /\ sched.pc = "get"
    BY <1>8, FirstIsOldest DEF SchedGet
  <2>2. CASE queue[j].state # "SUBMITTED"
    BY <1>3, <1>5, <1>8, <2>1, <2>2 DEF SchedGet, Fresh
  <2>3. CASE queue[j].state = "SUBMITTED"
    <3> DEFINE targets == Feasible[j] \cap Dispatchable
    <3>1. PICK pc \in {"fail", "note", "place"} :
            sched' = [sched EXCEPT !.job = j, !.rec = queue[j], !.left = targets, !.pc = pc]
      BY <1>8, <2>3 DEF SchedGet
    <3>2. sched'.job = j /\ sched'.prov = sched.prov /\ sched'.snapshot = sched.snapshot
      BY <1>1, <3>1 DEF Pass
    <3> QED
      BY <1>3, <1>6, <2>1, <3>2
  <2> QED
    BY <2>2, <2>3
<1>9. CASE SchedFail
  <2> DEFINE r == [sched.rec EXCEPT !.state = "FAILED", !.waiting = FALSE]
  <2>1. sched.job \in Jobs /\ queue[sched.job] # None /\ r \in Job /\ r.state = "FAILED"
    BY <1>1, <1>9 DEF FifoInv, IInv, Known, PlacingPcs, SchedFail, Pass, Job, JobStates
  <2>2. /\ queue' = [queue EXCEPT ![sched.job] = r]
        /\ sched' = Advance(sched.snapshot, sched.prov \ {sched.job})
    BY <1>9 DEF SchedFail
  <2> HIDE DEF r
  <2> QED
    BY <1>4, <1>5, <2>1, <2>2
<1>10. ASSUME NEW c \in Clusters, SchedAllocate(c) PROVE ArrivalOK' /\ FifoOK'
  <2>1. UNCHANGED queue /\ sched.job \in Oldest(sched.prov)
    BY <1>10 DEF SchedAllocate, FifoInv, FifoOK, PlacingPcs
  <2>2. sched'.job = sched.job /\ sched'.prov = sched.prov /\ sched'.snapshot = sched.snapshot
    <3>1. CASE HasRoom(c)
      BY <1>1, <1>10, <3>1 DEF SchedAllocate, Pass
    <3>2. CASE ~HasRoom(c)
      BY <1>1, <1>10, <3>2 DEF SchedAllocate, Pass
    <3> QED
      BY <3>1, <3>2
  <2> QED
    BY <1>3, <1>6, <2>1, <2>2
<1>11. CASE SchedUpdate
  <2> DEFINE r == [sched.rec EXCEPT !.state = "MATCHED", !.alloc = sched.alloc,
                                    !.cluster = sched.cluster, !.waiting = FALSE]
  <2>1. sched.job \in Jobs /\ queue[sched.job] # None /\ r \in Job /\ r.state = "MATCHED"
    BY <1>1, <1>11 DEF FifoInv, IInv, Known, PlacingPcs, SchedUpdate, Pass, Job, JobStates
  <2>2. queue' = [queue EXCEPT ![sched.job] = r]
    BY <1>11 DEF SchedUpdate
  <2> HIDE DEF r
  <2>3. /\ sched'.pc = "insert" /\ sched'.prov = sched.prov
        /\ sched'.snapshot = sched.snapshot
    BY <1>1, <1>11 DEF SchedUpdate, Pass
  <2> QED
    BY <1>4, <1>6, <2>1, <2>2, <2>3 DEF PlacingPcs
<1>12. CASE SchedDispatch
  <2>1. /\ UNCHANGED queue /\ sched' = Advance(sched.snapshot, sched.prov \ {sched.job})
        /\ sched.job \in Jobs /\ queue[sched.job].state # "SUBMITTED"
    BY <1>12 DEF FifoInv, IInv, Known, PassOK, SchedDispatch
  <2> QED
    BY <1>3, <1>5, <2>1 DEF Fresh
<1>13. CASE SchedNote
  <2>1. sched' = Idle
    BY <1>13 DEF SchedNote
  <2>2. FifoOK'
    BY <2>1 DEF FifoOK, Idle, PlacingPcs
  <2>3. ArrivalOK'
    <3>1. CASE queue' = queue
      BY <1>3, <3>1
    <3>2. CASE queue' = [queue EXCEPT ![sched.job] = [sched.rec EXCEPT !.waiting = TRUE]]
      <4> DEFINE r == [sched.rec EXCEPT !.waiting = TRUE]
      <4>1. r \in Job
        BY <1>1 DEF Pass, Job
      <4> HIDE DEF r
      <4>2. queue' = [queue EXCEPT ![sched.job] = r]
        BY <3>2 DEF r
      <4>3. \A k \in Jobs : queue'[k] # None => k = sched.job \/ queue[k] # None
        BY <1>1, <4>2
      <4>4. queue[sched.job] # None /\ sched.job \in Jobs
        BY <1>13 DEF FifoInv, IInv, Known, PlacingPcs, SchedNote
      <4> QED
        BY <1>1, <1>2, <4>3, <4>4 DEF FifoInv, ArrivalOK
    <3> QED
      BY <1>13, <3>1, <3>2 DEF SchedNote
  <2> QED
    BY <2>2, <2>3
<1> QED
  BY <1>7, <1>8, <1>9, <1>10, <1>11, <1>12, <1>13 DEF Sched

LEMMA NextFifo == ASSUME FifoInv, HeadOfLineBlock, ~TextOrder, [Next]_vars PROVE FifoInv'
<1>1. IInv'
  BY NextIInv DEF FifoInv
<1>2. ASSUME UNCHANGED <<arrival, sched>>,
             \A j \in Jobs : queue[j] # None <=> queue'[j] # None,
             \A j \in Jobs : Fresh(j)' => Fresh(j)
      PROVE ArrivalOK' /\ FifoOK'
  <2>1. \A k, j : /\ Before(k, j)' <=> Before(k, j)
                 /\ Stamped(k)' <=> Stamped(k)
    BY <1>2 DEF Before, Stamped
  <2>2. ArrivalOK'
    BY <1>2, <2>1 DEF FifoInv, ArrivalOK
  <2>3. sched.snapshot \subseteq Jobs
    BY DEF FifoInv, IInv, TypeOK, Pass
  <2>4. sched.pc \in PlacingPcs => sched'.job \in Oldest(sched.prov)'
    BY <1>2 DEF FifoInv, FifoOK, Oldest, Before
  <2>5. \A k \in sched.snapshot : \A j \in sched.prov :
          Fresh(k)' /\ Before(k, j)' => k \in sched.prov
    BY <1>2, <2>3 DEF FifoInv, FifoOK, Before
  <2>6. \A k \in sched.snapshot : queue'[k] # None
    BY <1>2, <2>3 DEF FifoInv, FifoOK
  <2> QED
    BY <1>2, <2>2, <2>4, <2>5, <2>6 DEF FifoOK
<1>3. ASSUME NEW j \in Jobs, SubmitStamp(j) \/ SubmitEnqueue(j) PROVE ArrivalOK' /\ FifoOK'
  BY <1>3, StampKeepsOrder, EnqueueKeepsOrder
<1>4. ASSUME Sched PROVE ArrivalOK' /\ FifoOK'
  BY <1>4, PassKeepsOrder
<1>5. ASSUME CancelCommit \/ \E s \in Slots : Stage(s) PROVE ArrivalOK' /\ FifoOK'
  BY <1>2, <1>5, WritesNothingFresh DEF FifoInv
<1>6. ASSUME UNCHANGED <<queue, arrival, sched>> PROVE ArrivalOK' /\ FifoOK'
  BY <1>2, <1>6 DEF Fresh
<1> QED
  BY <1>1, <1>3, <1>4, <1>5, <1>6
  DEF FifoInv, Next, Cancel, CancelBegin, CancelRemote, CancelLock, RemoteFinish, Quiet, vars

\* What NoOvertaking says of one step.
Overtaking(j, k) ==
  /\ j \in Provisional /\ k \in sched.snapshot /\ Before(k, j)
  /\ queue[j].state = "SUBMITTED" /\ queue'[j].state = "MATCHED"
  /\ queue[k].state = "SUBMITTED" /\ ~(queue[k].reschedules > 0)

LEMMA NobodyOvertakes ==
  ASSUME FifoInv, [Next]_vars, NEW j, NEW k, Overtaking(j, k)
  PROVE  FALSE
<1>1. /\ j \in Jobs /\ k \in Jobs /\ queue[j] # None /\ queue[k] # None
      /\ queue[j].state = "SUBMITTED" /\ queue'[j].state = "MATCHED" /\ Before(k, j)
  BY DEF Overtaking, Provisional, FifoInv, FifoOK, IInv, TypeOK, Pass
<1>2. Fresh(k)
  <2>1. queue[k] \in Job
    BY <1>1 DEF FifoInv, IInv, TypeOK
  <2>2. queue[k].reschedules \in 0..MaxReschedules /\ ~(queue[k].reschedules > 0)
    BY <2>1 DEF Job, Overtaking
  <2>3. queue[k].reschedules = 0
    BY <2>2, PipelineAssumption
  <2> QED
    BY <1>1, <2>3 DEF Fresh, Overtaking
<1>3. queue' # queue
  BY <1>1
<1>4. ~(CancelCommit \/ \E s \in Slots : Stage(s))
  BY <1>1, WritesNothingFresh DEF FifoInv
<1>5. ASSUME NEW i \in Jobs PROVE ~SubmitStamp(i) /\ ~SubmitEnqueue(i)
  BY <1>1, <1>3, NewJobIsJob DEF SubmitStamp, SubmitEnqueue, NewJob, FifoInv, IInv, TypeOK
<1>6. ASSUME NEW r \in Job, queue' = [queue EXCEPT ![sched.job] = r], r.state # "MATCHED"
      PROVE FALSE
  <2>1. queue'[j] = IF j = sched.job THEN r ELSE queue[j]
    BY <1>1, <1>6 DEF FifoInv, IInv, TypeOK
  <2> QED
    BY <1>1, <1>6, <2>1
<1>7. sched.rec \in Job
  BY DEF FifoInv, IInv, TypeOK, Pass
<1>8. ~SchedFail
  <2>1. SchedFail => queue' = [queue EXCEPT ![sched.job] =
                                 [sched.rec EXCEPT !.state = "FAILED", !.waiting = FALSE]]
    BY DEF SchedFail
  <2>2. /\ [sched.rec EXCEPT !.state = "FAILED", !.waiting = FALSE] \in Job
        /\ [sched.rec EXCEPT !.state = "FAILED", !.waiting = FALSE].state = "FAILED"
    BY <1>7 DEF Job, JobStates
  <2> QED
    BY <1>6, <2>1, <2>2
<1>9. ~SchedNote
  <2> SUFFICES ASSUME SchedNote PROVE FALSE
    OBVIOUS
  <2>1. sched.rec.state = "SUBMITTED"
    BY DEF SchedNote, FifoInv, IInv, PassOK, PlacingPcs
  <2>2. queue' = [queue EXCEPT ![sched.job] = [sched.rec EXCEPT !.waiting = TRUE]]
    BY <1>3 DEF SchedNote
  <2>3. /\ [sched.rec EXCEPT !.waiting = TRUE] \in Job
        /\ [sched.rec EXCEPT !.waiting = TRUE].state = "SUBMITTED"
    BY <1>7, <2>1 DEF Job
  <2> QED
    BY <1>6, <2>2, <2>3
<1>10. CASE SchedUpdate
  <2>1. sched.pc = "update" /\ \A i \in Jobs : i # sched.job => queue'[i] = queue[i]
    BY <1>10 DEF SchedUpdate, FifoInv, IInv, TypeOK
  <2>2. j = sched.job
    BY <1>1, <2>1
  <2>3. j \in sched.prov /\ \A i \in sched.prov : ~Before(i, j)
    BY <2>1, <2>2 DEF FifoInv, FifoOK, Oldest, PlacingPcs
  <2>4. k \in sched.prov
    BY <1>1, <1>2, <2>3 DEF FifoInv, FifoOK, Overtaking
  <2> QED
    BY <1>1, <2>3, <2>4
<1> QED
  BY <1>3, <1>4, <1>5, <1>8, <1>9, <1>10
  DEF Next, Sched, SchedSnapshot, SchedGet, SchedAllocate, SchedDispatch, Cancel, CancelBegin,
      CancelRemote, CancelLock, RemoteFinish, Quiet, vars

\* Under FCFS, with a store that lists the queue by time, no job is placed while
\* an older one the pass read, never placed before, still waits, though stamps,
\* enqueues, stages and Cancel run between the pass's reading of the queue and
\* each of its placements (policy.go:22-27, manager.go:207-302).
THEOREM FirstComeFirstServed ==
  ASSUME HeadOfLineBlock, ~TextOrder
  PROVE  Spec => NoOvertaking
<1>1. Init => FifoInv
  <2> SUFFICES ASSUME Init PROVE FifoInv
    OBVIOUS
  <2>1. IInv
    BY InitIInv
  <2>2. ArrivalOK
    BY DEF Init, ArrivalOK
  <2>3. FifoOK
    BY DEF Init, Idle, FifoOK, PlacingPcs
  <2> QED
    BY <2>1, <2>2, <2>3 DEF FifoInv
<1>2. FifoInv /\ [Next]_vars => FifoInv'
  BY NextFifo
<1>3. FifoInv /\ [Next]_vars =>
        [\A j \in Provisional, k \in sched.snapshot :
           queue'[j].state = "MATCHED" /\ Before(k, j)
           => queue[k].state # "SUBMITTED" \/ queue[k].reschedules > 0]_vars
  BY NobodyOvertakes DEF Overtaking, Provisional
<1> QED
  BY <1>1, <1>2, <1>3, PTL DEF Spec, NoOvertaking

=============================================================================
