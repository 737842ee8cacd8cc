------------------------------- MODULE Server -------------------------------
(***************************************************************************)
(* The durable server (serve.go with --queue sqlite or postgres): the job   *)
(* store and river's rows survive a crash, everything else the process      *)
(* keeps does not - fleet, matcher ledger, the counters of job and          *)
(* allocation ids, handlers in flight.  The native jobs go on.              *)
(*                                                                          *)
(* The deterministic transformer is the server's default, so an attempt     *)
(* succeeds or fails for good, and the repair stage is not reached.  What   *)
(* Pipeline looks at is coarser here: a section under m.mu is one step, a   *)
(* pass places one job, every cluster can host every job, notes are left    *)
(* out, no Cancel, no errors of river or of Status; what a crash can come   *)
(* between is not.                                                          *)
(***************************************************************************)
EXTENDS Backends

CONSTANTS
  IdSpace,     \* job ids there are: pad keeps four digits, so 10000
  Capacity,    \* jobs a cluster holds at once
  Rows,        \* places for river rows
  KindChoices, \* what may serve the clusters
  MaxCrashes

Ids == 0..(IdSpace - 1)

ASSUME ServerAssumption ==
  /\ IdSpace \in Nat \ {0} /\ Capacity \in Nat /\ MaxCrashes \in Nat
  /\ KindChoices \subseteq [Clusters -> Kinds]

VARIABLES
  store,    \* job id -> its record
  receipts, \* submission -> the job id the user was given
  rows,     \* place -> river row: stage, job id, and its worker's locals
  fleet,    \* clusters registered
  ledger,   \* live allocation id -> cluster
  nextID,   \* allocation ids minted
  seq,      \* job ids given out
  pass,     \* the scheduling pass
  crashes

serverVars == <<store, receipts, rows, fleet, ledger, nextID, seq, pass, crashes>>
vars == <<store, receipts, rows, fleet, ledger, nextID, seq, pass, crashes,
          kind, objects, minted, gone>>

States == {"SUBMITTED", "MATCHED", "DISPATCHING", "RUNNING", "COMPLETED", "FAILED"}
Terminal(st) == st \in {"COMPLETED", "FAILED"}

Records == [sub : Subs, state : States, alloc : Nat \cup {None},
            cluster : Clusters \cup {None}, handle : Handles \cup {None}]

NewRecord(s) ==
  [sub |-> s, state |-> "SUBMITTED", alloc |-> None, cluster |-> None, handle |-> None]

Steps == {"ready", "attempt", "poll", "commit", "insert", "done"}

\* What a handler remembers of the record it read.
Works == [sub : Subs, cluster : Clusters \cup {None}]

\* A river row and, while it is worked on, the locals of its handler.
RiverRows == [stage : {"dispatch", "monitor"}, id : Ids, pc : Steps,
              work : Works \cup {None},
              handle : Handles \cup {None}, answer : States \cup {None}]

NewRow(stage, id) ==
  [stage |-> stage, id |-> id, pc |-> "ready", work |-> None, handle |-> None, answer |-> None]

ASSUME NoneAssumption == None \notin Records \cup Works \cup RiverRows \cup Handles

\* The row as river knows it, and the same at another step of its worker.
Fresh(r) == NewRow(rows[r].stage, rows[r].id)
At(r, pc) == [Fresh(r) EXCEPT !.pc = pc]

NoPass == [pc |-> "idle", id |-> None, rec |-> None]

Init ==
  /\ store = [id \in Ids |-> None] /\ receipts = [s \in Subs |-> None]
  /\ rows = [r \in Rows |-> None] /\ fleet = {} /\ ledger = <<>>
  /\ nextID = 0 /\ seq = 0 /\ pass = NoPass /\ crashes = 0
  /\ kind \in KindChoices /\ objects = <<>> /\ minted = [c \in Clusters |-> 0]
  /\ gone = {}

-----------------------------------------------------------------------------
(* The front end and the scheduling pass *)

\* RegisterCluster, by --fleet or by a request.
Register(c) ==
  /\ c \notin fleet
  /\ fleet' = fleet \cup {c}
  /\ UNCHANGED <<store, receipts, rows, ledger, nextID, seq, pass, crashes, worldVars>>

\* Submit: the upsert does not ask whether the id is in use.
Submit(s) ==
  LET id == (seq + 1) % IdSpace
  IN /\ receipts[s] = None
     /\ seq' = seq + 1
     /\ store' = [store EXCEPT ![id] = NewRecord(s)]
     /\ receipts' = [receipts EXCEPT ![s] = id]
     /\ UNCHANGED <<rows, fleet, ledger, nextID, pass, crashes, worldVars>>

\* scheduleOnce, in three steps: Get and Allocate, Update, Dispatch.
PassAllocate(id, c) ==
  /\ pass.pc = "idle" /\ store[id] # None /\ store[id].state = "SUBMITTED" /\ c \in fleet
  /\ Cardinality({a \in DOMAIN ledger : ledger[a] = c}) < Capacity
  /\ nextID' = nextID + 1
  /\ ledger' = Put(ledger, nextID', c)
  /\ pass' = [pc |-> "update", id |-> id,
              rec |-> [store[id] EXCEPT !.state = "MATCHED", !.alloc = nextID', !.cluster = c]]
  /\ UNCHANGED <<store, receipts, rows, fleet, seq, crashes, worldVars>>

PassUpdate ==
  /\ pass.pc = "update"
  /\ store' = [store EXCEPT ![pass.id] = pass.rec]
  /\ pass' = [pass EXCEPT !.pc = "dispatch"]
  /\ UNCHANGED <<receipts, rows, fleet, ledger, nextID, seq, crashes, worldVars>>

Vacant == {r \in Rows : rows[r] = None}
Place == CHOOSE r \in Vacant : TRUE

PassDispatch ==
  /\ pass.pc = "dispatch" /\ Vacant # {}
  /\ rows' = [rows EXCEPT ![Place] = NewRow("dispatch", pass.id)]
  /\ pass' = NoPass
  /\ UNCHANGED <<store, receipts, fleet, ledger, nextID, seq, crashes, worldVars>>

-----------------------------------------------------------------------------
(* The workers of the dispatch stage *)

Row(r, stage, pc) == rows[r] # None /\ rows[r].stage = stage /\ rows[r].pc = pc

DispatchBegin(r) ==
  /\ Row(r, "dispatch", "ready")
  /\ LET id == rows[r].id
     IN IF store[id] = None \/ Terminal(store[id].state)
          THEN /\ rows' = [rows EXCEPT ![r] = At(r, "done")]
               /\ UNCHANGED store
          ELSE /\ rows' = [rows EXCEPT ![r].pc = "attempt",
                                       ![r].work = [sub |-> store[id].sub, cluster |-> store[id].cluster]]
               /\ store' = [store EXCEPT ![id].state = "DISPATCHING"]
  /\ UNCHANGED <<receipts, fleet, ledger, nextID, seq, pass, crashes, worldVars>>

\* runAttempt with Stub: the cluster is not found, the name is taken or the
\* call fails - or the native job is created, and the reply arrives or is lost.
Attempt(r) ==
  /\ Row(r, "dispatch", "attempt")
  /\ LET c == rows[r].work.cluster
         s == rows[r].work.sub
         h == [cluster |-> c, name |-> Name(c, s, rows[r].id)]
         Replied(answer, handle) ==
           rows' = [rows EXCEPT ![r].pc = "commit", ![r].answer = answer, ![r].handle = handle]
     IN \/ Replied("FAILED", None) /\ UNCHANGED worldVars
        \/ /\ c \in fleet /\ ~Taken(h) /\ Created(h, s)
           /\ Replied("RUNNING", h) \/ Replied("FAILED", None)
  /\ UNCHANGED <<store, receipts, fleet, ledger, nextID, seq, pass, crashes>>

\* freeLocked: whatever the id names in the ledger of today.
Freed(rec) == IF rec.alloc = None THEN ledger ELSE Drop(ledger, {rec.alloc})

\* MUTANT: the handler leaves the monitor row to somebody else.
DispatchCommitForgetting(r) ==
  /\ Row(r, "dispatch", "commit")
  /\ LET id == rows[r].id
     IN IF rows[r].answer = "RUNNING"
          THEN /\ store' = [store EXCEPT ![id].state = "RUNNING", ![id].handle = rows[r].handle]
               /\ rows' = [rows EXCEPT ![r] = At(r, "done")]
               /\ UNCHANGED ledger
          ELSE /\ store' = [store EXCEPT ![id].state = "FAILED", ![id].alloc = None]
               /\ rows' = [rows EXCEPT ![r] = At(r, "done")]
               /\ ledger' = Freed(store[id])
  /\ UNCHANGED <<receipts, fleet, nextID, seq, pass, crashes, worldVars>>

\* The outcome is written: handleDispatch, failByID.
DispatchCommit(r) ==
  /\ Row(r, "dispatch", "commit")
  /\ LET id == rows[r].id
     IN IF rows[r].answer = "RUNNING"
          THEN /\ store' = [store EXCEPT ![id].state = "RUNNING", ![id].handle = rows[r].handle]
               /\ rows' = [rows EXCEPT ![r] = At(r, "insert")]
               /\ UNCHANGED ledger
          ELSE /\ store' = [store EXCEPT ![id].state = "FAILED", ![id].alloc = None]
               /\ rows' = [rows EXCEPT ![r] = At(r, "done")]
               /\ ledger' = Freed(store[id])
  /\ UNCHANGED <<receipts, fleet, nextID, seq, pass, crashes, worldVars>>

-----------------------------------------------------------------------------
(* The workers of the monitor stage *)

MonitorBegin(r) ==
  /\ Row(r, "monitor", "ready")
  /\ LET rec == store[rows[r].id]
     IN rows' = IF rec = None \/ Terminal(rec.state) THEN [rows EXCEPT ![r] = At(r, "done")]
                ELSE IF rec.handle = None THEN [rows EXCEPT ![r] = At(r, "insert")]
                ELSE [rows EXCEPT ![r].pc = "poll", ![r].handle = rec.handle,
                                  ![r].work = [sub |-> rec.sub, cluster |-> rec.cluster]]
  /\ UNCHANGED <<store, receipts, fleet, ledger, nextID, seq, pass, crashes, worldVars>>

\* status: without the cluster there is no driver, and the poll is repeated.
Poll(r) ==
  /\ Row(r, "monitor", "poll")
  /\ IF rows[r].work.cluster \notin fleet
       THEN rows' = [rows EXCEPT ![r] = At(r, "insert")]
       ELSE \E answer \in StatusAnswers(rows[r].handle) :
              rows' = [rows EXCEPT ![r].pc = "commit", ![r].answer = answer]
  /\ UNCHANGED <<store, receipts, fleet, ledger, nextID, seq, pass, crashes, worldVars>>

MonitorCommit(r) ==
  /\ Row(r, "monitor", "commit")
  /\ LET id == rows[r].id
         answer == rows[r].answer
     IN /\ store' = [store EXCEPT ![id].state = answer,
                                  ![id].alloc = IF Terminal(answer) THEN None ELSE @]
        /\ rows' = [rows EXCEPT ![r] = At(r, IF Terminal(answer) THEN "done" ELSE "insert")]
        /\ ledger' = IF Terminal(answer) THEN Freed(store[id]) ELSE ledger
  /\ UNCHANGED <<receipts, fleet, nextID, seq, pass, crashes, worldVars>>

-----------------------------------------------------------------------------
(* river *)

\* enqueueStage, and the monitor's own next poll: a row is inserted before the
\* one at hand is completed - at once, or late if there is a place to keep it.
InsertMonitor(r) ==
  /\ rows[r] # None /\ rows[r].pc = "insert"
  /\ \/ rows' = [rows EXCEPT ![r] = NewRow("monitor", rows[r].id)]
     \/ /\ Vacant # {}
        /\ rows' = [rows EXCEPT ![r] = At(r, "done"), ![Place] = NewRow("monitor", rows[r].id)]
  /\ UNCHANGED <<store, receipts, fleet, ledger, nextID, seq, pass, crashes, worldVars>>

\* river marks the row completed when Work has returned.
Complete(r) ==
  /\ rows[r] # None /\ rows[r].pc = "done"
  /\ rows' = [rows EXCEPT ![r] = None]
  /\ UNCHANGED <<store, receipts, fleet, ledger, nextID, seq, pass, crashes, worldVars>>

\* The process dies, and starts again.  river rescues the rows whose workers
\* died: they are made available, and worked on from the start.
Crash ==
  /\ crashes < MaxCrashes
  /\ crashes' = crashes + 1
  /\ rows' = [r \in Rows |-> IF rows[r] = None THEN None ELSE Fresh(r)]
  /\ fleet' = {} /\ ledger' = <<>> /\ nextID' = 0 /\ seq' = 0 /\ pass' = NoPass
  /\ UNCHANGED <<store, receipts, worldVars>>

-----------------------------------------------------------------------------

Work(r) ==
  \/ DispatchBegin(r) \/ Attempt(r) \/ DispatchCommit(r)
  \/ MonitorBegin(r) \/ Poll(r) \/ MonitorCommit(r)
  \/ InsertMonitor(r) \/ Complete(r)

Pass == (\E id \in Ids, c \in Clusters : PassAllocate(id, c)) \/ PassUpdate \/ PassDispatch

Next ==
  \/ \E c \in Clusters : Register(c)
  \/ \E s \in Subs : Submit(s)
  \/ Pass
  \/ \E r \in Rows : Work(r)
  \/ World /\ UNCHANGED serverVars
  \/ Crash

\* The ticker and river's workers and rescuer run; clusters are registered
\* again (--fleet, or their owners); native jobs do not run for ever.
Fairness ==
  /\ \A c \in Clusters : WF_vars(Register(c))
  /\ WF_vars(Pass)
  /\ \A r \in Rows : WF_vars(Work(r))
  /\ WF_vars((\E h \in DOMAIN objects : PodSucceeds(h)) /\ UNCHANGED serverVars)

Spec == Init /\ [][Next]_vars /\ Fairness

-----------------------------------------------------------------------------
(* Properties *)

\* Whatever survives a crash and whatever a driver answers, the records and
\* the rows stay ones that the handlers can read.
TypeOK ==
  /\ store \in [Ids -> Records \cup {None}] /\ receipts \in [Subs -> Ids \cup {None}]
  /\ rows \in [Rows -> RiverRows \cup {None}]
  /\ fleet \subseteq Clusters /\ nextID \in Nat /\ seq \in Nat
  /\ DOMAIN ledger \subseteq Nat
  /\ pass \in [pc : {"idle", "update", "dispatch"}, id : Ids \cup {None}, rec : Records \cup {None}]
  /\ kind \in [Clusters -> Kinds] /\ minted \in [Clusters -> Nat]
  /\ DOMAIN objects \subseteq Handles /\ \A h \in DOMAIN objects : objects[h] \in Objects

\* Whenever the process dies, whichever handler was running: a job recorded as
\* dispatching or running has a river row that is not about to be completed,
\* so somebody will look at it again (river.go:66-99, pipeline.go:160-297).
RunningIsWatched ==
  \A id \in Ids :
    store[id] # None /\ store[id].state \in {"DISPATCHING", "RUNNING"} =>
      \E r \in Rows : rows[r] # None /\ rows[r].id = id /\ rows[r].pc # "done"

\* A dispatch that river runs again after a crash does not start a second
\* native job on a Kubernetes cluster: the first one's name is taken
\* (k8s_driver.go:171-183, transform.go:481-492).
NoTwinObjects ==
  \A g, h \in DOMAIN objects :
    g.cluster = h.cluster /\ Kubernetes(h.cluster) /\ objects[g].sub = objects[h].sub => g = h

GivenOnce(id) == \A s, t \in Subs : receipts[s] = id /\ receipts[t] = id => s = t

\* A job on a Kubernetes cluster is reported completed on the evidence of its
\* native job, whichever row asked and however often it was dispatched: unless
\* that job disappeared, or the id was given out a second time, some pod of it
\* succeeded (k8s_driver.go:203-268, 415-450).  A redelivered dispatch to Flux
\* makes a second native job, and the record may show the end of the first
\* beside the handle of the second.
SuccessIsSeen ==
  \A id \in Ids :
    LET h == IF store[id] = None THEN None ELSE store[id].handle
    IN GivenOnce(id) /\ h \in DOMAIN objects \ gone /\ Kubernetes(h.cluster) =>
         (store[id].state = "COMPLETED" => objects[h].succeeded > 0)

\* "State survives restarts": a job that was accepted keeps its record
\* (postgres.go:11-14).
RecordsSurvive ==
  \A s \in Subs : receipts[s] # None => \E id \in Ids : store[id] # None /\ store[id].sub = s

\* However often the process dies, a job that was being dispatched or was
\* running is brought to its end - the row whose worker died is worked on again,
\* and its cluster comes back - unless its id was given out a second time
\* (river.go:66-99, pipeline.go:255-297).
WatchedEnds ==
  \A id \in Ids :
    []GivenOnce(id) =>
      ((store[id] # None /\ store[id].state \in {"DISPATCHING", "RUNNING"})
         ~> (store[id] # None /\ Terminal(store[id].state)))
=============================================================================
