---------------------------- MODULE ServerProofs ----------------------------
(***************************************************************************)
(* What a crash cannot break, for any number of submissions, clusters,      *)
(* rows, ids and crashes.                                                   *)
(***************************************************************************)
EXTENDS Server, TLAPS

Answers == {"RUNNING", "COMPLETED", "FAILED"}

\* What the pass holds belongs to a stored job.
PassOK ==
  /\ pass.pc # "idle" => pass.id \in Ids /\ store[pass.id] # None
  /\ pass.pc = "update" => /\ pass.rec \in Records /\ pass.rec.state = "MATCHED"
                           /\ receipts[pass.rec.sub] = pass.id

\* So does what a river row names, and what its handler remembers.
RowsOK ==
  \A r \in Rows : rows[r] # None =>
    /\ store[rows[r].id] # None
    /\ rows[r].pc = "attempt" => rows[r].work # None
    /\ rows[r].pc = "commit" => rows[r].answer \in Answers
    /\ rows[r].work # None => receipts[rows[r].work.sub] = rows[r].id

\* A record stands under the id that its user was given.
RecordsKeepIds == \A id \in Ids : store[id] # None => receipts[store[id].sub] = id

\* On Kubernetes the name of an object tells the job it was made for.
ObjectNamed(h, s, rcp) ==
  /\ kind[h.cluster] = "k8s_job" => h.name = [app |-> AppName[s], no |-> None]
  /\ kind[h.cluster] = "flux_operator" => rcp[s] # None /\ h.name = [app |-> AppName[s], no |-> rcp[s]]

ObjectsNamed == \A h \in DOMAIN objects : ObjectNamed(h, objects[h].sub, receipts)

IInv == TypeOK /\ PassOK /\ RowsOK /\ RecordsKeepIds /\ ObjectsNamed /\ RunningIsWatched

-----------------------------------------------------------------------------

\* nil is none of the things it stands in for.
LEMMA NothingIsNone ==
  /\ None \notin Ids /\ None \notin Clusters /\ None \notin Subs
  /\ None \notin Records /\ None \notin Works /\ None \notin RiverRows /\ None \notin Handles
BY BackendsAssumption, ServerAssumption, NoneAssumption DEF Ids

\* jobID's digits: whatever the counter, an id.
LEMMA IdsAreIds == ASSUME NEW n \in Nat PROVE n % IdSpace \in Ids
BY ServerAssumption DEF Ids

\* enqueueStage finds a place.
LEMMA PlaceIsVacant == Vacant # {} => Place \in Vacant
BY DEF Place

\* Status answers with a state in which a job can be.
LEMMA AnswersAreStates ==
  ASSUME TypeOK, NEW h PROVE StatusAnswers(h) \subseteq Answers
<1>1. ASSUME Taken(h) PROVE Reading(h) \subseteq Answers
  <2>1. kind[h.cluster] \in Kinds /\ objects[h] \in Objects
    BY <1>1 DEF TypeOK, Taken, Handles
  <2>2. ReadState(objects[h]) \in Answers
    BY DEF ReadState, Answers
  <2>3. OwnedJobState(objects[h]) \in Answers
    BY DEF OwnedJobState, Answers
  <2>4. FluxStates(objects[h]) \subseteq Answers
    BY <2>1 DEF FluxStates, Answers, Objects
  <2>5. CASE kind[h.cluster] = "k8s_job"
    BY <2>2, <2>5 DEF Reading
  <2>6. CASE kind[h.cluster] = "flux_operator"
    BY <2>3, <2>6 DEF Reading
  <2>7. CASE kind[h.cluster] = "flux_uri"
    BY <2>4, <2>7 DEF Reading
  <2> QED
    BY <2>1, <2>5, <2>6, <2>7 DEF Kinds
<1> QED
  BY <1>1 DEF StatusAnswers, Answers

\* The names the drivers and the transformer give.
LEMMA NamesAreHandles ==
  ASSUME TypeOK, NEW c \in Clusters, NEW s \in Subs, NEW id \in Ids
  PROVE  /\ [cluster |-> c, name |-> Name(c, s, id)] \in Handles
         /\ kind[c] = "k8s_job" => Name(c, s, id) = [app |-> AppName[s], no |-> None]
         /\ kind[c] = "flux_operator" => Name(c, s, id) = [app |-> AppName[s], no |-> id]
<1>1. kind[c] \in Kinds /\ minted[c] \in Nat /\ id \in Nat
  BY ServerAssumption DEF TypeOK, Ids
<1>2. kind[c] = "k8s_job" => Name(c, s, id) = [app |-> AppName[s], no |-> None]
  BY DEF Name
<1>3. kind[c] = "flux_operator" => Name(c, s, id) = [app |-> AppName[s], no |-> id]
  BY DEF Name
<1>4. kind[c] = "flux_uri" => Name(c, s, id) = [app |-> None, no |-> minted[c] + 1]
  BY DEF Name
<1>5. Name(c, s, id) \in [app : {AppName[t] : t \in Subs} \cup {None}, no : Nat \cup {None}]
  BY <1>1, <1>2, <1>3, <1>4 DEF Kinds
<1> QED
  BY <1>2, <1>3, <1>5 DEF Handles

-----------------------------------------------------------------------------

\* A native job whose pods are counted on is a native job.
LEMMA Counting ==
  ASSUME NEW o \in Objects, NEW n \in Nat, NEW end \in {"no", "succeeded", "failed"}
  PROVE  /\ [o EXCEPT !.succeeded = n, !.end = end] \in Objects
         /\ [o EXCEPT !.failed = n, !.end = end] \in Objects
BY DEF Objects

\* Every step of the server and of the world keeps the types.
LEMMA TypeStep == ASSUME IInv, [Next]_vars PROVE TypeOK'
<1> USE NothingIsNone DEF IInv, TypeOK
<1>1. ASSUME NEW c \in Clusters, Register(c) PROVE TypeOK'
  BY <1>1 DEF Register, worldVars
<1>2. ASSUME NEW s \in Subs, Submit(s) PROVE TypeOK'
  BY <1>2, IdsAreIds DEF Submit, NewRecord, Records, States, worldVars
<1>3. ASSUME NEW id \in Ids, NEW c \in Clusters, PassAllocate(id, c) PROVE TypeOK'
  <2>1. store[id] \in Records /\ nextID' \in Nat
    BY <1>3 DEF PassAllocate
  <2>2. [store[id] EXCEPT !.state = "MATCHED", !.alloc = nextID', !.cluster = c] \in Records
    BY <2>1 DEF Records, States
  <2>3. pass' \in [pc : {"idle", "update", "dispatch"}, id : Ids \cup {None}, rec : Records \cup {None}]
    BY <1>3, <2>2 DEF PassAllocate
  <2>4. DOMAIN ledger' \subseteq Nat
    BY <1>3, <2>1 DEF PassAllocate, Put
  <2> QED
    BY <1>3, <2>1, <2>3, <2>4 DEF PassAllocate, worldVars
<1>4. ASSUME PassUpdate PROVE TypeOK'
  BY <1>4 DEF PassUpdate, PassOK, worldVars
<1>5. ASSUME PassDispatch PROVE TypeOK'
  BY <1>5, PlaceIsVacant DEF PassDispatch, PassOK, Vacant, NewRow, NoPass, RiverRows, Works, Steps, worldVars
<1>6. ASSUME NEW r \in Rows, DispatchBegin(r) PROVE TypeOK'
  BY <1>6 DEF DispatchBegin, Row, At, Fresh, NewRow, RiverRows, Works, Steps, Records, States, worldVars
<1>7. ASSUME NEW r \in Rows, Attempt(r) PROVE TypeOK'
  <2> DEFINE c == rows[r].work.cluster
             s == rows[r].work.sub
             h == [cluster |-> c, name |-> Name(c, s, rows[r].id)]
             Replied(answer, handle) ==
               rows' = [rows EXCEPT ![r].pc = "commit", ![r].answer = answer, ![r].handle = handle]
  <2>1. rows[r] \in RiverRows /\ s \in Subs /\ rows[r].id \in Ids
    BY <1>7 DEF Attempt, Row, RowsOK, RiverRows, Works
  <2>2. ASSUME NEW answer \in States, NEW handle \in Handles \cup {None}, Replied(answer, handle)
        PROVE  rows' \in [Rows -> RiverRows \cup {None}]
    <3>1. [rows[r] EXCEPT !.pc = "commit", !.answer = answer, !.handle = handle] \in RiverRows
      BY <2>1 DEF RiverRows, Works, Steps
    <3>2. rows' = [rows EXCEPT ![r] = [rows[r] EXCEPT !.pc = "commit", !.answer = answer, !.handle = handle]]
      BY <2>2
    <3> QED
      BY <3>1, <3>2
  <2>3. CASE Replied("FAILED", None) /\ UNCHANGED worldVars
    BY <1>7, <2>2, <2>3 DEF Attempt, worldVars, States
  <2>4. CASE /\ c \in fleet /\ ~Taken(h) /\ Created(h, s)
             /\ Replied("RUNNING", h) \/ Replied("FAILED", None)
    <3>1. h \in Handles /\ c \in Clusters /\ h.cluster = c
      BY <2>1, <2>4, NamesAreHandles
    <3>2. rows' \in [Rows -> RiverRows \cup {None}]
      BY <2>2, <2>4, <3>1 DEF States
    <3>3. Object(s) \in Objects
      BY <2>1 DEF Object, Objects
    <3>4. DOMAIN objects' \subseteq Handles /\ \A g \in DOMAIN objects' : objects'[g] \in Objects
      BY <2>4, <3>1, <3>3 DEF Created, Put
    <3>5. minted' \in [Clusters -> Nat] /\ kind' = kind
      BY <2>4, <3>1 DEF Created
    <3> QED
      BY <1>7, <3>2, <3>4, <3>5 DEF Attempt
  <2> QED
    BY <1>7, <2>3, <2>4 DEF Attempt
<1>8. ASSUME NEW r \in Rows, DispatchCommit(r) PROVE TypeOK'
  <2>1. rows[r] \in RiverRows /\ rows[r].id \in Ids /\ store[rows[r].id] \in Records
    BY <1>8 DEF DispatchCommit, Row, RowsOK, RiverRows
  <2>2. At(r, "done") \in RiverRows /\ At(r, "insert") \in RiverRows
    BY <2>1 DEF At, Fresh, NewRow, RiverRows, Steps
  <2>3. /\ [store[rows[r].id] EXCEPT !.state = "RUNNING", !.handle = rows[r].handle] \in Records
        /\ [store[rows[r].id] EXCEPT !.state = "FAILED", !.alloc = None] \in Records
    BY <2>1 DEF Records, RiverRows, States
  <2>4. store' \in [Ids -> Records \cup {None}]
    <3>1. \/ store' = [store EXCEPT ![rows[r].id] = [@ EXCEPT !.state = "RUNNING", !.handle = rows[r].handle]]
          \/ store' = [store EXCEPT ![rows[r].id] = [@ EXCEPT !.state = "FAILED", !.alloc = None]]
      BY <1>8, <2>1 DEF DispatchCommit
    <3> QED
      BY <2>1, <2>3, <3>1
  <2>5. rows' \in [Rows -> RiverRows \cup {None}]
    BY <1>8, <2>1, <2>2 DEF DispatchCommit
  <2>6. DOMAIN ledger' \subseteq Nat
    BY <1>8 DEF DispatchCommit, Freed, Drop
  <2> QED
    BY <1>8, <2>4, <2>5, <2>6 DEF DispatchCommit, worldVars
<1>9. ASSUME NEW r \in Rows, MonitorBegin(r) PROVE TypeOK'
  <2> DEFINE rec == store[rows[r].id]
  <2>1. rows[r] \in RiverRows /\ rows[r].id \in Ids /\ rec \in Records \cup {None}
    BY <1>9 DEF MonitorBegin, Row, RiverRows
  <2>2. At(r, "done") \in RiverRows /\ At(r, "insert") \in RiverRows
    BY <2>1 DEF At, Fresh, NewRow, RiverRows, Works, Steps
  <2>3. CASE rec = None \/ Terminal(rec.state) \/ rec.handle = None
    BY <1>9, <2>2, <2>3 DEF MonitorBegin, worldVars
  <2>4. CASE ~(rec = None \/ Terminal(rec.state) \/ rec.handle = None)
    <3> DEFINE new == [rows[r] EXCEPT !.pc = "poll", !.handle = rec.handle,
                                      !.work = [sub |-> rec.sub, cluster |-> rec.cluster]]
    <3>1. new \in RiverRows
      BY <2>1, <2>4 DEF RiverRows, Works, Steps, Records
    <3>2. rows' = [rows EXCEPT ![r] = new]
      BY <1>9, <2>4 DEF MonitorBegin
    <3> QED
      BY <1>9, <3>1, <3>2 DEF MonitorBegin, worldVars
  <2> QED
    BY <2>3, <2>4
<1>10. ASSUME NEW r \in Rows, Poll(r) PROVE TypeOK'
  BY <1>10, AnswersAreStates DEF Poll, Row, At, Fresh, NewRow, RiverRows, Works, Steps, Answers, States, worldVars
<1>11. ASSUME NEW r \in Rows, MonitorCommit(r) PROVE TypeOK'
  BY <1>11 DEF MonitorCommit, Row, RowsOK, Freed, Drop, At, Fresh, NewRow, RiverRows, Works, Steps, Records, States, Answers, worldVars
<1>12. ASSUME NEW r \in Rows, InsertMonitor(r) PROVE TypeOK'
  BY <1>12, PlaceIsVacant DEF InsertMonitor, Vacant, At, Fresh, NewRow, RiverRows, Works, Steps, worldVars
<1>13. ASSUME NEW r \in Rows, Complete(r) PROVE TypeOK'
  BY <1>13 DEF Complete, worldVars
<1>14. ASSUME World, UNCHANGED serverVars PROVE TypeOK'
  <2>1. PICK h \in DOMAIN objects : PodSucceeds(h) \/ PodFails(h) \/ Vanish(h)
    BY <1>14 DEF World
  <2>2. CASE PodSucceeds(h)
    <3> DEFINE end == IF ~Kubernetes(h.cluster) \/ objects[h].succeeded + 1 = Pods[objects[h].sub]
                        THEN "succeeded" ELSE "no"
               new == [objects[h] EXCEPT !.succeeded = @ + 1, !.end = end]
    <3>1. new \in Objects
      <4>1. objects[h] \in Objects /\ objects[h].succeeded + 1 \in Nat
        BY DEF Objects
      <4> QED
        BY <4>1, Counting
    <3>2. objects' = [objects EXCEPT ![h] = new]
      BY <2>2 DEF PodSucceeds
    <3>3. DOMAIN objects' = DOMAIN objects /\ \A g \in DOMAIN objects' : objects'[g] \in Objects
      BY <3>1, <3>2
    <3> QED
      BY <1>14, <2>2, <3>3 DEF PodSucceeds, serverVars
  <2>3. CASE PodFails(h)
    <3>1. PICK end \in {"no", "failed"} :
            objects' = [objects EXCEPT ![h].failed = @ + 1, ![h].end = end]
      BY <2>3 DEF PodFails
    <3> DEFINE new == [objects[h] EXCEPT !.failed = @ + 1, !.end = end]
    <3>2. new \in Objects
      <4>1. objects[h] \in Objects /\ objects[h].failed + 1 \in Nat
        BY DEF Objects
      <4> QED
        BY <4>1, Counting
    <3>3. objects' = [objects EXCEPT ![h] = new]
      BY <3>1
    <3>4. DOMAIN objects' = DOMAIN objects /\ \A g \in DOMAIN objects' : objects'[g] \in Objects
      BY <3>2, <3>3
    <3> QED
      BY <1>14, <2>3, <3>4 DEF PodFails, serverVars
  <2>4. CASE Vanish(h)
    BY <1>14, <2>4 DEF Vanish, Drop, serverVars
  <2> QED
    BY <2>1, <2>2, <2>3, <2>4
<1>15. ASSUME Crash PROVE TypeOK'
  BY <1>15 DEF Crash, Fresh, NewRow, NoPass, RiverRows, Works, Steps, worldVars
<1>16. ASSUME UNCHANGED vars PROVE TypeOK'
  BY <1>16 DEF vars
<1> QED
  BY <1>1, <1>2, <1>3, <1>4, <1>5, <1>6, <1>7, <1>8, <1>9, <1>10, <1>11, <1>12, <1>13, <1>14, <1>15, <1>16
  DEF Next, Work, Pass

\* A stored job stays stored, and a receipt stays what it was.
Lasting ==
  /\ \A id \in Ids : store[id] # None => store'[id] # None
  /\ \A s \in Subs : receipts[s] # None => receipts'[s] = receipts[s]

\* Neither a crash nor a stale write takes a record or a receipt away.
LEMMA Persistence == ASSUME IInv, [Next]_vars PROVE Lasting
<1> USE NothingIsNone DEF IInv, Lasting
<1>1. CASE UNCHANGED store /\ UNCHANGED receipts
  BY <1>1
<1>2. ASSUME NEW s \in Subs, Submit(s) PROVE Lasting
  BY <1>2, IdsAreIds DEF Submit, NewRecord, Records, States, Handles, TypeOK
<1>3. CASE PassUpdate
  BY <1>3 DEF PassUpdate, PassOK, TypeOK
<1>4. ASSUME NEW r \in Rows, DispatchBegin(r) \/ DispatchCommit(r) \/ MonitorCommit(r)
      PROVE  Lasting
  <2> DEFINE id == rows[r].id
  <2>1. id \in Ids /\ (store[id] # None => store[id] \in Records) /\ receipts' = receipts
    BY <1>4 DEF DispatchBegin, DispatchCommit, MonitorCommit, Row, TypeOK, RiverRows
  <2>2. \A x \in Ids : x # id => store'[x] = store[x]
    BY <1>4, <2>1 DEF DispatchBegin, DispatchCommit, MonitorCommit, TypeOK
  <2>3. ASSUME store[id] # None PROVE store'[id] \in Records
    <3>1. CASE DispatchBegin(r)
      BY <2>1, <2>3, <3>1 DEF DispatchBegin, Records, States, TypeOK
    <3>2. CASE DispatchCommit(r)
      BY <2>1, <2>3, <3>2 DEF DispatchCommit, Row, RiverRows, Records, States, TypeOK
    <3>3. CASE MonitorCommit(r)
      BY <2>1, <2>3, <3>3 DEF MonitorCommit, Row, RowsOK, Answers, RiverRows, Records, States, TypeOK
    <3> QED
      BY <1>4, <3>1, <3>2, <3>3
  <2> QED
    BY <2>1, <2>2, <2>3
<1>5. CASE World /\ UNCHANGED serverVars
  BY <1>5 DEF serverVars
<1>6. CASE UNCHANGED vars
  BY <1>6 DEF vars
<1> QED
  BY <1>1, <1>2, <1>3, <1>4, <1>5, <1>6
  DEF Next, Work, Pass, Register, PassAllocate, PassDispatch, Attempt, MonitorBegin, Poll, InsertMonitor, Complete, Crash

\* The pass keeps to the job it took.
LEMMA PassStep == ASSUME IInv, [Next]_vars PROVE PassOK'
<1> USE NothingIsNone, Persistence DEF IInv, TypeOK, Lasting
<1>1. CASE UNCHANGED pass
  <2>1. pass.pc = "update" => receipts[pass.rec.sub] # None /\ pass.rec.sub \in Subs
    BY DEF PassOK, Records
  <2> QED
    BY <1>1, <2>1 DEF PassOK
<1>2. ASSUME NEW id \in Ids, NEW c \in Clusters, PassAllocate(id, c) PROVE PassOK'
  <2>1. store[id] \in Records /\ nextID' \in Nat /\ receipts[store[id].sub] = id
    BY <1>2 DEF PassAllocate, RecordsKeepIds
  <2> DEFINE rec == [store[id] EXCEPT !.state = "MATCHED", !.alloc = nextID', !.cluster = c]
  <2>2. rec \in Records /\ rec.state = "MATCHED" /\ rec.sub = store[id].sub
    BY <2>1 DEF Records, States
  <2>3. pass' = [pc |-> "update", id |-> id, rec |-> rec] /\ store' = store /\ receipts' = receipts
    BY <1>2 DEF PassAllocate
  <2>4. store[id] # None
    BY <1>2 DEF PassAllocate
  <2> HIDE DEF rec
  <2> QED
    BY <2>1, <2>2, <2>3, <2>4 DEF PassOK
<1>3. CASE PassUpdate
  BY <1>3 DEF PassUpdate, PassOK
<1>4. CASE pass' = NoPass
  BY <1>4 DEF NoPass, PassOK
<1> QED
  BY <1>1, <1>2, <1>3, <1>4
  DEF Next, vars, serverVars, Work, Pass, Register, Submit, PassDispatch, DispatchBegin, Attempt, DispatchCommit,
      MonitorBegin, Poll, MonitorCommit, InsertMonitor, Complete, Crash

\* The rows keep to theirs.
RowOK(row, st, rcp) ==
  row # None =>
    /\ st[row.id] # None
    /\ row.pc = "attempt" => row.work # None
    /\ row.pc = "commit" => row.answer \in Answers
    /\ row.work # None => rcp[row.work.sub] = row.id

\* What no handler touches stays as it was.
LEMMA RowLasts ==
  ASSUME IInv, [Next]_vars, NEW r \in Rows PROVE RowOK(rows[r], store', receipts')
<1>1. rows[r] # None => /\ rows[r] \in RiverRows /\ store[rows[r].id] # None
                        /\ rows[r].work # None => receipts[rows[r].work.sub] = rows[r].id
  BY DEF IInv, TypeOK, RowsOK
<1>2. rows[r] # None /\ rows[r].work # None => receipts[rows[r].work.sub] # None /\ rows[r].work.sub \in Subs
  BY <1>1, NothingIsNone DEF RiverRows, Works
<1> QED
  BY <1>1, <1>2, Persistence DEF RowOK, Lasting, IInv, RowsOK, RiverRows

\* A row without locals is in order if its job is stored.
LEMMA FreshLasts ==
  ASSUME IInv, [Next]_vars, NEW id \in Ids, store[id] # None, NEW stage, NEW pc \in {"ready", "insert", "done"}
  PROVE  /\ RowOK(NewRow(stage, id), store', receipts')
         /\ RowOK([NewRow(stage, id) EXCEPT !.pc = pc], store', receipts')
BY Persistence DEF RowOK, NewRow, Lasting

\* Every handler leaves rows that the next one can read.
LEMMA RowsStep == ASSUME IInv, [Next]_vars PROVE RowsOK'
<1> USE NothingIsNone DEF IInv, TypeOK
<1>1. SUFFICES \A r \in Rows : RowOK(rows'[r], store', receipts')
  BY DEF RowOK, RowsOK
<1>2. ASSUME NEW r \in Rows, NEW row, RowOK(row, store', receipts'), rows' = [rows EXCEPT ![r] = row]
      PROVE  \A q \in Rows : RowOK(rows'[q], store', receipts')
  BY <1>2, RowLasts
<1>3. ASSUME NEW r \in Rows, rows[r] # None
      PROVE  /\ RowOK(At(r, "done"), store', receipts') /\ RowOK(At(r, "insert"), store', receipts')
             /\ RowOK(NewRow("monitor", rows[r].id), store', receipts') /\ RowOK(Fresh(r), store', receipts')
  <2>1. rows[r].id \in Ids /\ store[rows[r].id] # None
    BY <1>3 DEF RowsOK, RiverRows
  <2> QED
    BY <2>1, FreshLasts DEF At, Fresh
<1>4. CASE UNCHANGED rows
  BY <1>4, RowLasts
<1>5. CASE PassDispatch
  <2>1. Place \in Rows /\ store[pass.id] # None /\ pass.id \in Ids
    BY <1>5, PlaceIsVacant DEF PassDispatch, Vacant, PassOK
  <2>2. RowOK(NewRow("dispatch", pass.id), store', receipts')
    BY <2>1, FreshLasts
  <2> QED
    BY <1>2, <1>5, <2>1, <2>2 DEF PassDispatch
<1>6. ASSUME NEW r \in Rows, DispatchBegin(r) PROVE \A q \in Rows : RowOK(rows'[q], store', receipts')
  <2> DEFINE id == rows[r].id
             row == [rows[r] EXCEPT !.pc = "attempt",
                                    !.work = [sub |-> store[id].sub, cluster |-> store[id].cluster]]
  <2>1. rows[r] # None /\ rows[r] \in RiverRows
    BY <1>6 DEF DispatchBegin, Row
  <2>2. CASE store[id] = None \/ Terminal(store[id].state)
    BY <1>2, <1>3, <1>6, <2>1, <2>2 DEF DispatchBegin
  <2>3. CASE ~(store[id] = None \/ Terminal(store[id].state))
    <3>1. rows' = [rows EXCEPT ![r] = row] /\ store[id] \in Records /\ id \in Ids /\ receipts' = receipts
      BY <1>6, <2>1, <2>3 DEF DispatchBegin, RiverRows
    <3>2. receipts[store[id].sub] = id /\ store'[id] # None
      BY <2>3, <3>1, Persistence DEF RecordsKeepIds, Lasting
    <3>3. row.id = id /\ row.pc = "attempt" /\ row.work = [sub |-> store[id].sub, cluster |-> store[id].cluster]
      BY <2>1 DEF RiverRows
    <3>4. row.work # None
      BY <3>1, <3>3 DEF Records, Works
    <3> HIDE DEF row
    <3>5. RowOK(row, store', receipts')
      BY <3>1, <3>2, <3>3, <3>4 DEF RowOK
    <3> QED
      BY <1>2, <3>1, <3>5
  <2> QED
    BY <2>2, <2>3
<1>7. ASSUME NEW r \in Rows, Attempt(r) PROVE \A q \in Rows : RowOK(rows'[q], store', receipts')
  <2>1. PICK answer, handle :
          /\ answer \in Answers
          /\ rows' = [rows EXCEPT ![r] = [rows[r] EXCEPT !.pc = "commit", !.answer = answer, !.handle = handle]]
    <3> DEFINE Replied(answer, handle) ==
          rows' = [rows EXCEPT ![r].pc = "commit", ![r].answer = answer, ![r].handle = handle]
           h == [cluster |-> rows[r].work.cluster,
                 name |-> Name(rows[r].work.cluster, rows[r].work.sub, rows[r].id)]
    <3>1. Replied("FAILED", None) \/ Replied("RUNNING", h)
      BY <1>7 DEF Attempt
    <3>2. "FAILED" \in Answers /\ "RUNNING" \in Answers
      BY DEF Answers
    <3>3. ASSUME NEW answer, NEW handle, Replied(answer, handle)
          PROVE  rows' = [rows EXCEPT ![r] = [rows[r] EXCEPT !.pc = "commit", !.answer = answer, !.handle = handle]]
      BY <3>3
    <3> HIDE DEF Replied, h
    <3> QED
      BY <3>1, <3>2, <3>3
  <2>2. rows[r] # None /\ rows[r] \in RiverRows /\ RowOK(rows[r], store', receipts')
    BY <1>7, RowLasts DEF Attempt, Row
  <2>3. RowOK([rows[r] EXCEPT !.pc = "commit", !.answer = answer, !.handle = handle], store', receipts')
    BY <2>1, <2>2 DEF RowOK, RiverRows
  <2> QED
    BY <1>2, <2>1, <2>3
<1>8. ASSUME NEW r \in Rows, DispatchCommit(r) \/ MonitorCommit(r)
      PROVE  \A q \in Rows : RowOK(rows'[q], store', receipts')
  BY <1>2, <1>3, <1>8 DEF DispatchCommit, MonitorCommit, Row
<1>9. ASSUME NEW r \in Rows, MonitorBegin(r) PROVE \A q \in Rows : RowOK(rows'[q], store', receipts')
  <2> DEFINE rec == store[rows[r].id]
             row == [rows[r] EXCEPT !.pc = "poll", !.handle = rec.handle,
                                    !.work = [sub |-> rec.sub, cluster |-> rec.cluster]]
  <2>1. rows[r] # None /\ rows[r] \in RiverRows /\ store' = store /\ receipts' = receipts
    BY <1>9 DEF MonitorBegin, Row
  <2>2. CASE rec = None \/ Terminal(rec.state) \/ rec.handle = None
    BY <1>2, <1>3, <1>9, <2>1, <2>2 DEF MonitorBegin
  <2>3. CASE ~(rec = None \/ Terminal(rec.state) \/ rec.handle = None)
    <3>1. rows' = [rows EXCEPT ![r] = row] /\ rec \in Records /\ rows[r].id \in Ids
      BY <1>9, <2>1, <2>3 DEF MonitorBegin, RiverRows
    <3>2. receipts[rec.sub] = rows[r].id
      BY <2>3, <3>1 DEF RecordsKeepIds
    <3>3. row.id = rows[r].id /\ row.pc = "poll" /\ row.work = [sub |-> rec.sub, cluster |-> rec.cluster]
      BY <2>1 DEF RiverRows
    <3> HIDE DEF row
    <3>4. RowOK(row, store', receipts')
      BY <2>1, <2>3, <3>2, <3>3 DEF RowOK
    <3> QED
      BY <1>2, <3>1, <3>4
  <2> QED
    BY <2>2, <2>3
<1>10. ASSUME NEW r \in Rows, Poll(r) PROVE \A q \in Rows : RowOK(rows'[q], store', receipts')
  <2>1. rows[r] # None /\ rows[r] \in RiverRows /\ RowOK(rows[r], store', receipts')
    BY <1>10, RowLasts DEF Poll, Row
  <2>2. CASE rows[r].work.cluster \notin fleet
    BY <1>2, <1>3, <1>10, <2>1, <2>2 DEF Poll
  <2>3. CASE rows[r].work.cluster \in fleet
    <3>1. PICK answer \in Answers : rows' = [rows EXCEPT ![r] = [rows[r] EXCEPT !.pc = "commit", !.answer = answer]]
      BY <1>10, <2>3, AnswersAreStates DEF Poll
    <3>2. RowOK([rows[r] EXCEPT !.pc = "commit", !.answer = answer], store', receipts')
      BY <2>1 DEF RowOK, RiverRows
    <3> QED
      BY <1>2, <3>1, <3>2
  <2> QED
    BY <2>2, <2>3
<1>11. ASSUME NEW r \in Rows, InsertMonitor(r) PROVE \A q \in Rows : RowOK(rows'[q], store', receipts')
  BY <1>3, <1>11, RowLasts, PlaceIsVacant DEF InsertMonitor, Vacant
<1>12. ASSUME NEW r \in Rows, Complete(r) PROVE \A q \in Rows : RowOK(rows'[q], store', receipts')
  BY <1>2, <1>12 DEF Complete, RowOK
<1>13. ASSUME Crash PROVE \A q \in Rows : RowOK(rows'[q], store', receipts')
  BY <1>3, <1>13 DEF Crash, RowOK
<1> QED
  BY <1>4, <1>5, <1>6, <1>7, <1>8, <1>9, <1>10, <1>11, <1>12, <1>13
  DEF Next, Work, Pass, Register, Submit, PassAllocate, PassUpdate, serverVars, vars

\* A stale record written back is still one of the same receipt.
LEMMA RecordsStep == ASSUME IInv, [Next]_vars PROVE RecordsKeepIds'
<1> USE NothingIsNone DEF IInv, TypeOK, RecordsKeepIds
<1>1. ASSUME NEW c \in Clusters, Register(c) PROVE RecordsKeepIds'
  BY <1>1 DEF Register, worldVars
<1>2. ASSUME NEW s \in Subs, Submit(s) PROVE RecordsKeepIds'
  BY <1>2, IdsAreIds DEF Submit, NewRecord, Records, worldVars
<1>3. ASSUME NEW id \in Ids, NEW c \in Clusters, PassAllocate(id, c) PROVE RecordsKeepIds'
  BY <1>3 DEF PassAllocate, worldVars
<1>4. ASSUME PassUpdate PROVE RecordsKeepIds'
  BY <1>4 DEF PassUpdate, PassOK, worldVars
<1>5. ASSUME PassDispatch PROVE RecordsKeepIds'
  BY <1>5 DEF PassDispatch, worldVars
<1>6. ASSUME NEW r \in Rows, DispatchBegin(r) PROVE RecordsKeepIds'
  BY <1>6 DEF DispatchBegin, Row, RiverRows, Records, worldVars
<1>7. ASSUME NEW r \in Rows, Attempt(r) PROVE RecordsKeepIds'
  BY <1>7 DEF Attempt, worldVars
<1>8. ASSUME NEW r \in Rows, DispatchCommit(r) PROVE RecordsKeepIds'
  BY <1>8 DEF DispatchCommit, Row, RowsOK, RiverRows, Records, worldVars
<1>9. ASSUME NEW r \in Rows, MonitorBegin(r) PROVE RecordsKeepIds'
  BY <1>9 DEF MonitorBegin, worldVars
<1>10. ASSUME NEW r \in Rows, Poll(r) PROVE RecordsKeepIds'
  BY <1>10 DEF Poll, worldVars
<1>11. ASSUME NEW r \in Rows, MonitorCommit(r) PROVE RecordsKeepIds'
  BY <1>11 DEF MonitorCommit, Row, RowsOK, RiverRows, Records, worldVars
<1>12. ASSUME NEW r \in Rows, InsertMonitor(r) PROVE RecordsKeepIds'
  BY <1>12 DEF InsertMonitor, worldVars
<1>13. ASSUME NEW r \in Rows, Complete(r) PROVE RecordsKeepIds'
  BY <1>13 DEF Complete, worldVars
<1>14. ASSUME World, UNCHANGED serverVars PROVE RecordsKeepIds'
  BY <1>14 DEF serverVars
<1>15. ASSUME Crash PROVE RecordsKeepIds'
  BY <1>15 DEF Crash, worldVars
<1>16. ASSUME UNCHANGED vars PROVE RecordsKeepIds'
  BY <1>16 DEF vars
<1> QED
  BY <1>1, <1>2, <1>3, <1>4, <1>5, <1>6, <1>7, <1>8, <1>9, <1>10, <1>11, <1>12, <1>13, <1>14, <1>15, <1>16
  DEF Next, Work, Pass

\* A new object is named for its job; the others keep their names, and the jobs
\* their receipts.
LEMMA ObjectsStep == ASSUME IInv, [Next]_vars PROVE ObjectsNamed'
<1> USE NothingIsNone DEF IInv, TypeOK
<1>1. kind' = kind
  BY DEF Next, vars, worldVars, Work, Pass, World, Register, Submit, PassAllocate, PassUpdate, PassDispatch,
         DispatchBegin, Attempt, Created, DispatchCommit, MonitorBegin, Poll, MonitorCommit, InsertMonitor,
         Complete, Crash, PodSucceeds, PodFails, Vanish
<1>2. \A h \in DOMAIN objects : ObjectNamed(h, objects[h].sub, receipts')
  BY Persistence DEF ObjectsNamed, ObjectNamed, Lasting, Objects
<1>3. SUFFICES \A h \in DOMAIN objects' : ObjectNamed(h, objects'[h].sub, receipts')
  BY <1>1 DEF ObjectsNamed, ObjectNamed
<1>4. CASE UNCHANGED objects
  BY <1>2, <1>4
<1>5. ASSUME NEW r \in Rows, Attempt(r)
      PROVE  \A h \in DOMAIN objects' : ObjectNamed(h, objects'[h].sub, receipts')
  <2> DEFINE c == rows[r].work.cluster
             s == rows[r].work.sub
             h == [cluster |-> c, name |-> Name(c, s, rows[r].id)]
  <2>1. UNCHANGED objects \/ (c \in fleet /\ Created(h, s))
    BY <1>5 DEF Attempt, worldVars
  <2>2. rows[r] \in RiverRows /\ s \in Subs /\ receipts[s] = rows[r].id /\ rows[r].id \in Ids
    BY <1>5 DEF Attempt, Row, RowsOK, RiverRows, Works
  <2>3. receipts' = receipts
    BY <1>5 DEF Attempt
  <2>4. CASE c \in fleet /\ Created(h, s)
    <3>1. c \in Clusters /\ h.cluster = c /\ h.name = Name(c, s, rows[r].id)
      BY <2>4
    <3>2. /\ kind[c] = "k8s_job" => Name(c, s, rows[r].id) = [app |-> AppName[s], no |-> None]
          /\ kind[c] = "flux_operator" => Name(c, s, rows[r].id) = [app |-> AppName[s], no |-> rows[r].id]
      BY DEF Name
    <3>3. objects' = Put(objects, h, Object(s)) /\ Object(s).sub = s
      BY <2>4 DEF Created, Object
    <3>4. receipts[s] # None
      BY <2>2
    <3> HIDE DEF h, c, s
    <3>5. ObjectNamed(h, s, receipts')
      BY <2>2, <2>3, <3>1, <3>2, <3>4 DEF ObjectNamed
    <3> QED
      BY <1>2, <3>3, <3>5 DEF Put
  <2> QED
    BY <1>4, <2>1, <2>4
<1>6. ASSUME World PROVE \A h \in DOMAIN objects' : ObjectNamed(h, objects'[h].sub, receipts')
  <2>1. PICK g \in DOMAIN objects : PodSucceeds(g) \/ PodFails(g) \/ Vanish(g)
    BY <1>6 DEF World
  <2>2. \A h \in DOMAIN objects' : h \in DOMAIN objects /\ objects'[h].sub = objects[h].sub
    <3>1. CASE PodSucceeds(g)
      <4>1. PICK n, end : objects' = [objects EXCEPT ![g] = [objects[g] EXCEPT !.succeeded = n, !.end = end]]
        BY <3>1 DEF PodSucceeds
      <4> QED
        BY <4>1 DEF Objects
    <3>2. CASE PodFails(g)
      <4>1. PICK end : objects' = [objects EXCEPT ![g].failed = @ + 1, ![g].end = end]
        BY <3>2 DEF PodFails
      <4> QED
        BY <4>1 DEF Objects
    <3>3. CASE Vanish(g)
      BY <3>3 DEF Vanish, Drop
    <3> QED
      BY <2>1, <3>1, <3>2, <3>3
  <2> QED
    BY <1>2, <2>2
<1> QED
  BY <1>4, <1>5, <1>6
  DEF Next, vars, worldVars, Work, Pass, Register, Submit, PassAllocate, PassUpdate, PassDispatch, DispatchBegin,
      DispatchCommit, MonitorBegin, Poll, MonitorCommit, InsertMonitor, Complete, Crash

-----------------------------------------------------------------------------
(* Somebody looks at every job that is on its way *)

Active(rec) == rec # None /\ rec.state \in {"DISPATCHING", "RUNNING"}
Watches(row, id) == row # None /\ row.id = id /\ row.pc # "done"

\* A handler changes its own job and row, and puts rows where none was: the
\* other jobs are watched as before.
LEMMA OneRow ==
  ASSUME RunningIsWatched, NEW r \in Rows, rows[r] # None,
         \A q \in Rows \ {r} : rows[q] # None => rows'[q] = rows[q],
         \A id \in Ids \ {rows[r].id} : Active(store'[id]) => Active(store[id]),
         Active(store'[rows[r].id]) => \E q \in Rows : Watches(rows'[q], rows[r].id)
  PROVE  RunningIsWatched'
<1>1. SUFFICES ASSUME NEW id \in Ids, Active(store'[id]) PROVE \E q \in Rows : Watches(rows'[q], id)
  BY DEF RunningIsWatched, Active, Watches
<1>2. CASE id = rows[r].id
  BY <1>1, <1>2
<1>3. CASE id # rows[r].id
  <2>1. PICK q \in Rows : Watches(rows[q], id)
    BY <1>1, <1>3 DEF RunningIsWatched, Active, Watches
  <2> QED
    BY <1>3, <2>1 DEF Watches
<1> QED
  BY <1>2, <1>3

\* A row at hand, and the ones made of it, watch the job it names - until the
\* handler is done.
LEMMA RowsWatch ==
  ASSUME TypeOK, NEW r \in Rows, rows[r] # None
  PROVE  /\ Watches(At(r, "insert"), rows[r].id) /\ Watches(Fresh(r), rows[r].id)
         /\ Watches(NewRow("monitor", rows[r].id), rows[r].id)
         /\ \A row \in RiverRows : row.id = rows[r].id /\ row.pc # "done" => Watches(row, rows[r].id)
<1>1. rows[r].stage \in {"dispatch", "monitor"} /\ rows[r].id \in Ids
  BY DEF TypeOK, RiverRows
<1>2. NewRow("monitor", rows[r].id) \in RiverRows /\ Fresh(r) \in RiverRows /\ At(r, "insert") \in RiverRows
  BY <1>1 DEF NewRow, Fresh, At, RiverRows, Steps
<1> QED
  BY <1>2, NothingIsNone DEF Watches, NewRow, Fresh, At

\* So do the rows in which a handler has noted what it read.
LEMMA NotesWatch ==
  ASSUME TypeOK, NEW r \in Rows, rows[r] # None
  PROVE  /\ \A work \in Works : Watches([rows[r] EXCEPT !.pc = "attempt", !.work = work], rows[r].id)
         /\ \A work \in Works, handle \in Handles :
              Watches([rows[r] EXCEPT !.pc = "poll", !.handle = handle, !.work = work], rows[r].id)
         /\ \A answer \in States : Watches([rows[r] EXCEPT !.pc = "commit", !.answer = answer], rows[r].id)
         /\ \A answer \in States, handle \in Handles \cup {None} :
              Watches([rows[r] EXCEPT !.pc = "commit", !.answer = answer, !.handle = handle], rows[r].id)
<1>1. rows[r] \in RiverRows
  BY DEF TypeOK
<1>2. /\ \A work \in Works : [rows[r] EXCEPT !.pc = "attempt", !.work = work] \in RiverRows
      /\ \A work \in Works, handle \in Handles :
           [rows[r] EXCEPT !.pc = "poll", !.handle = handle, !.work = work] \in RiverRows
      /\ \A answer \in States : [rows[r] EXCEPT !.pc = "commit", !.answer = answer] \in RiverRows
      /\ \A answer \in States, handle \in Handles \cup {None} :
           [rows[r] EXCEPT !.pc = "commit", !.answer = answer, !.handle = handle] \in RiverRows
  BY <1>1 DEF RiverRows, Steps
<1>3. \A row \in RiverRows : row.id = rows[r].id /\ row.pc # "done" => Watches(row, rows[r].id)
  BY RowsWatch
<1>4. \A work \in Works : Watches([rows[r] EXCEPT !.pc = "attempt", !.work = work], rows[r].id)
  <2> TAKE work \in Works
  <2> DEFINE row == [rows[r] EXCEPT !.pc = "attempt", !.work = work]
  <2>1. row \in RiverRows /\ row.id = rows[r].id /\ row.pc = "attempt"
    BY <1>1, <1>2 DEF RiverRows
  <2> HIDE DEF row
  <2>2. Watches(row, rows[r].id)
    BY <1>3, <2>1
  <2> QED
    BY <2>2 DEF row
<1>5. \A work \in Works, handle \in Handles :
        Watches([rows[r] EXCEPT !.pc = "poll", !.handle = handle, !.work = work], rows[r].id)
  <2> TAKE work \in Works, handle \in Handles
  <2> DEFINE row == [rows[r] EXCEPT !.pc = "poll", !.handle = handle, !.work = work]
  <2>1. row \in RiverRows /\ row.id = rows[r].id /\ row.pc = "poll"
    BY <1>1, <1>2 DEF RiverRows
  <2> HIDE DEF row
  <2>2. Watches(row, rows[r].id)
    BY <1>3, <2>1
  <2> QED
    BY <2>2 DEF row
<1>6. \A answer \in States : Watches([rows[r] EXCEPT !.pc = "commit", !.answer = answer], rows[r].id)
  <2> TAKE answer \in States
  <2> DEFINE row == [rows[r] EXCEPT !.pc = "commit", !.answer = answer]
  <2>1. row \in RiverRows /\ row.id = rows[r].id /\ row.pc = "commit"
    BY <1>1, <1>2 DEF RiverRows
  <2> HIDE DEF row
  <2>2. Watches(row, rows[r].id)
    BY <1>3, <2>1
  <2> QED
    BY <2>2 DEF row
<1>7. \A answer \in States, handle \in Handles \cup {None} :
        Watches([rows[r] EXCEPT !.pc = "commit", !.answer = answer, !.handle = handle], rows[r].id)
  <2> TAKE answer \in States, handle \in Handles \cup {None}
  <2> DEFINE row == [rows[r] EXCEPT !.pc = "commit", !.answer = answer, !.handle = handle]
  <2>1. row \in RiverRows /\ row.id = rows[r].id /\ row.pc = "commit"
    BY <1>1, <1>2 DEF RiverRows
  <2> HIDE DEF row
  <2>2. Watches(row, rows[r].id)
    BY <1>3, <2>1
  <2> QED
    BY <2>2 DEF row
<1> QED
  BY <1>4, <1>5, <1>6, <1>7

\* Whatever a step does, a job on its way keeps a row.
LEMMA WatchedStep == ASSUME IInv, [Next]_vars PROVE RunningIsWatched'
<1> USE NothingIsNone DEF IInv, TypeOK
<1>1. ASSUME \A id \in Ids : Active(store'[id]) => Active(store[id]),
             \A q \in Rows : rows[q] # None => rows'[q] = rows[q]
      PROVE  RunningIsWatched'
  BY <1>1 DEF RunningIsWatched, Active
<1>2. ASSUME NEW s \in Subs, Submit(s) PROVE RunningIsWatched'
  BY <1>1, <1>2 DEF Submit, NewRecord, Active
<1>3. CASE PassUpdate
  BY <1>1, <1>3 DEF PassUpdate, PassOK, Active
<1>4. CASE PassDispatch
  BY <1>1, <1>4, PlaceIsVacant DEF PassDispatch, Vacant
<1>5. ASSUME NEW r \in Rows, DispatchBegin(r) PROVE RunningIsWatched'
  <2> DEFINE id == rows[r].id
  <2>1. rows[r] # None /\ rows[r] \in RiverRows /\ id \in Ids
    BY <1>5 DEF DispatchBegin, Row, RiverRows
  <2>2. CASE store[id] = None \/ Terminal(store[id].state)
    <3>1. ~Active(store'[id])
      BY <1>5, <2>2 DEF DispatchBegin, Active, Terminal
    <3> QED
      BY <1>5, <2>1, <2>2, <3>1, OneRow DEF DispatchBegin
  <2>3. CASE ~(store[id] = None \/ Terminal(store[id].state))
    <3>1. Watches(rows'[r], id)
      <4> DEFINE work == [sub |-> store[id].sub, cluster |-> store[id].cluster]
      <4>1. rows' = [rows EXCEPT ![r] = [rows[r] EXCEPT !.pc = "attempt", !.work = work]]
        BY <1>5, <2>3 DEF DispatchBegin
      <4>2. work \in Works
        BY <2>1, <2>3 DEF Works, Records
      <4> HIDE DEF work
      <4> QED
        BY <2>1, <4>1, <4>2, NotesWatch
    <3> QED
      BY <1>5, <2>1, <2>3, <3>1, OneRow DEF DispatchBegin
  <2> QED
    BY <2>2, <2>3
<1>6. ASSUME NEW r \in Rows, Attempt(r) \/ Poll(r) PROVE RunningIsWatched'
  <2>1. rows[r] # None /\ rows[r] \in RiverRows /\ store' = store
    BY <1>6 DEF Attempt, Poll, Row
  <2>2. Watches(rows'[r], rows[r].id)
    <3>1. CASE Attempt(r)
      <4> DEFINE s == rows[r].work.sub
                 c == rows[r].work.cluster
                 h == [cluster |-> c, name |-> Name(c, s, rows[r].id)]
                 Replied(answer, handle) ==
                   rows' = [rows EXCEPT ![r].pc = "commit", ![r].answer = answer, ![r].handle = handle]
      <4>1. Replied("FAILED", None) \/ (c \in fleet /\ Replied("RUNNING", h))
        BY <3>1 DEF Attempt
      <4>2. s \in Subs /\ rows[r].id \in Ids
        BY <2>1, <3>1 DEF Attempt, Row, RowsOK, RiverRows, Works
      <4>3. c \in fleet => h \in Handles
        BY <4>2, NamesAreHandles
      <4> HIDE DEF h, c, s
      <4>4. PICK answer \in States, handle \in Handles \cup {None} : Replied(answer, handle)
        BY <4>1, <4>3 DEF States
      <4>5. rows'[r] = [rows[r] EXCEPT !.pc = "commit", !.answer = answer, !.handle = handle]
        BY <4>4
      <4>6. Watches([rows[r] EXCEPT !.pc = "commit", !.answer = answer, !.handle = handle], rows[r].id)
        BY <2>1, NotesWatch
      <4> QED
        BY <4>5, <4>6
    <3>2. CASE Poll(r)
      <4>1. CASE rows[r].work.cluster \notin fleet
        BY <2>1, <3>2, <4>1, RowsWatch DEF Poll
      <4>2. CASE rows[r].work.cluster \in fleet
        <5>1. PICK answer \in States : rows' = [rows EXCEPT ![r] = [rows[r] EXCEPT !.pc = "commit", !.answer = answer]]
          BY <3>2, <4>2, AnswersAreStates DEF Poll, Answers, States
        <5> QED
          BY <2>1, <5>1, NotesWatch
      <4> QED
        BY <4>1, <4>2
    <3> QED
      BY <1>6, <3>1, <3>2
  <2>3. \A q \in Rows \ {r} : rows'[q] = rows[q]
    BY <1>6 DEF Attempt, Poll
  <2> QED
    BY <2>1, <2>2, <2>3, OneRow
<1>7. ASSUME NEW r \in Rows, DispatchCommit(r) \/ MonitorCommit(r) PROVE RunningIsWatched'
  <2> DEFINE id == rows[r].id
  <2>1. rows[r] # None /\ rows[r] \in RiverRows /\ id \in Ids /\ store[id] \in Records
    BY <1>7 DEF DispatchCommit, MonitorCommit, Row, RiverRows, RowsOK
  <2>2. \A q \in Rows \ {r} : rows'[q] = rows[q]
    BY <1>7 DEF DispatchCommit, MonitorCommit
  <2>3. \A x \in Ids \ {id} : store'[x] = store[x]
    BY <1>7 DEF DispatchCommit, MonitorCommit
  <2>4. Active(store'[id]) => Watches(rows'[r], id)
    <3>1. CASE DispatchCommit(r)
      <4>1. CASE rows[r].answer = "RUNNING"
        BY <2>1, <3>1, <4>1, RowsWatch DEF DispatchCommit
      <4>2. CASE rows[r].answer # "RUNNING"
        BY <2>1, <3>1, <4>2 DEF DispatchCommit, Active, Records
      <4> QED
        BY <4>1, <4>2
    <3>2. CASE MonitorCommit(r)
      <4>1. CASE Terminal(rows[r].answer)
        BY <2>1, <3>2, <4>1 DEF MonitorCommit, Active, Records, Terminal
      <4>2. CASE ~Terminal(rows[r].answer)
        BY <2>1, <3>2, <4>2, RowsWatch DEF MonitorCommit
      <4> QED
        BY <4>1, <4>2
    <3> QED
      BY <1>7, <3>1, <3>2
  <2> QED
    BY <2>1, <2>2, <2>3, <2>4, OneRow
<1>8. ASSUME NEW r \in Rows, MonitorBegin(r) PROVE RunningIsWatched'
  <2> DEFINE id == rows[r].id
  <2>1. rows[r] # None /\ rows[r] \in RiverRows /\ id \in Ids /\ store' = store
    BY <1>8 DEF MonitorBegin, Row, RiverRows
  <2>2. \A q \in Rows \ {r} : rows'[q] = rows[q]
    BY <1>8 DEF MonitorBegin
  <2>3. Active(store[id]) => Watches(rows'[r], id)
    <3> DEFINE rec == store[id]
               work == [sub |-> rec.sub, cluster |-> rec.cluster]
    <3>1. CASE rec = None \/ Terminal(rec.state)
      BY <3>1 DEF Active, Terminal
    <3>2. CASE ~(rec = None \/ Terminal(rec.state)) /\ rec.handle = None
      BY <1>8, <2>1, <3>2, RowsWatch DEF MonitorBegin
    <3>3. CASE ~(rec = None \/ Terminal(rec.state) \/ rec.handle = None)
      <4>1. rows' = [rows EXCEPT ![r] = [rows[r] EXCEPT !.pc = "poll", !.handle = rec.handle, !.work = work]]
        BY <1>8, <3>3 DEF MonitorBegin
      <4>2. work \in Works /\ rec.handle \in Handles
        BY <2>1, <3>3 DEF Works, Records
      <4> HIDE DEF work
      <4> QED
        BY <2>1, <4>1, <4>2, NotesWatch
    <3> QED
      BY <3>1, <3>2, <3>3
  <2> QED
    BY <2>1, <2>2, <2>3, OneRow
<1>9. ASSUME NEW r \in Rows, InsertMonitor(r) PROVE RunningIsWatched'
  <2>1. rows[r] # None /\ rows[r] \in RiverRows /\ store' = store
    BY <1>9 DEF InsertMonitor
  <2>2. CASE rows' = [rows EXCEPT ![r] = NewRow("monitor", rows[r].id)]
    <3>1. Watches(rows'[r], rows[r].id)
      BY <2>1, <2>2, RowsWatch
    <3> QED
      BY <2>1, <2>2, <3>1, OneRow
  <2>3. CASE /\ Vacant # {}
             /\ rows' = [rows EXCEPT ![r] = At(r, "done"), ![Place] = NewRow("monitor", rows[r].id)]
    <3>1. Place \in Rows /\ rows[Place] = None
      BY <2>3, PlaceIsVacant DEF Vacant
    <3>2. Watches(rows'[Place], rows[r].id)
      BY <2>1, <2>3, <3>1, RowsWatch
    <3> QED
      BY <2>1, <2>3, <3>1, <3>2, OneRow
  <2> QED
    BY <1>9, <2>2, <2>3 DEF InsertMonitor
<1>10. ASSUME NEW r \in Rows, Complete(r) PROVE RunningIsWatched'
  BY <1>10 DEF Complete, RunningIsWatched
<1>11. CASE Crash
  BY <1>11, RowsWatch DEF Crash, RunningIsWatched, Watches
<1>12. CASE UNCHANGED <<store, rows>>
  BY <1>12 DEF RunningIsWatched
<1> QED
  BY <1>2, <1>3, <1>4, <1>5, <1>6, <1>7, <1>8, <1>9, <1>10, <1>11, <1>12
  DEF Next, vars, serverVars, Work, Pass, Register, PassAllocate

-----------------------------------------------------------------------------

\* The first start of the server.
LEMMA InitIInv == Init => IInv
<1> SUFFICES ASSUME Init PROVE IInv
  OBVIOUS
<1> USE NothingIsNone DEF Init
<1>1. TypeOK
  BY ServerAssumption DEF TypeOK, NoPass
<1>2. PassOK
  BY DEF PassOK, NoPass
<1>3. RowsOK
  BY DEF RowsOK
<1>4. RecordsKeepIds
  BY DEF RecordsKeepIds
<1>5. ObjectsNamed
  BY DEF ObjectsNamed
<1>6. RunningIsWatched
  BY DEF RunningIsWatched
<1> QED
  BY <1>1, <1>2, <1>3, <1>4, <1>5, <1>6 DEF IInv

\* The lemmas on the parts, taken together.
LEMMA NextIInv == IInv /\ [Next]_vars => IInv'
BY TypeStep, PassStep, RowsStep, RecordsStep, ObjectsStep, WatchedStep DEF IInv

\* What is stated above of one step holds of every behaviour, whatever crashes
\* it has and whatever the drivers answer (serve.go, pipeline.go, river.go).
THEOREM Inductive == Spec => []IInv
BY InitIInv, NextIInv, PTL DEF Spec

\* The records, the rows and the native jobs stay well-formed through any
\* number of crashes (manager.go, river.go).
THEOREM TypeCorrect == Spec => []TypeOK
<1>1. IInv => TypeOK
  BY DEF IInv
<1> QED
  BY <1>1, Inductive, PTL

\* For any number of jobs, rows and crashes: a job recorded as dispatching or
\* running has a row that is not about to be completed (river.go:66-99,
\* pipeline.go:160-297).
THEOREM AlwaysWatched == Spec => []RunningIsWatched
<1>1. IInv => RunningIsWatched
  BY DEF IInv
<1> QED
  BY <1>1, Inductive, PTL

\* For any number of crashes and redeliveries: a submission has at most one
\* object on a Kubernetes cluster (k8s_driver.go:171-183, transform.go:481-492).
THEOREM NeverTwins == Spec => []NoTwinObjects
<1>1. IInv => NoTwinObjects
  <2> SUFFICES ASSUME IInv, NEW g \in DOMAIN objects, NEW h \in DOMAIN objects,
                      g.cluster = h.cluster, Kubernetes(h.cluster), objects[g].sub = objects[h].sub
               PROVE  g = h
    BY DEF NoTwinObjects
  <2>1. g \in Handles /\ h \in Handles
    BY DEF IInv, TypeOK
  <2>2. ObjectNamed(g, objects[g].sub, receipts) /\ ObjectNamed(h, objects[h].sub, receipts)
    BY DEF IInv, ObjectsNamed
  <2>3. g.name = h.name
    BY <2>2 DEF ObjectNamed, Kubernetes
  <2> QED
    BY <2>1, <2>3 DEF Handles
<1> QED
  BY <1>1, Inductive, PTL
-----------------------------------------------------------------------------
(* What a record says of its native job *)

\* The native job was made; it may have disappeared since.
Known(h) == h \in DOMAIN objects \cup gone

\* On Kubernetes, a native job that did not disappear has a pod that succeeded.
Seen(h) == h \in DOMAIN objects \ gone /\ Kubernetes(h.cluster) => objects[h].succeeded > 0

\* On Kubernetes a job has one native job at most: its name is settled by the
\* cluster of the record.
KubernetesName(c, s, id) == [app |-> AppName[s], no |-> IF kind[c] = "k8s_job" THEN None ELSE id]

HandleOf(rec, id, h) ==
  h # None =>
    /\ Known(h) /\ h.cluster = rec.cluster
    /\ Kubernetes(h.cluster) => h.name = KubernetesName(h.cluster, rec.sub, id)

RecordSighted(id, rec) ==
  rec # None =>
    /\ rec.state = "SUBMITTED" => rec.handle = None
    /\ HandleOf(rec, id, rec.handle)
    /\ rec.state = "COMPLETED" => Seen(rec.handle)

\* What the handler at work on a row remembers is still so.
RowSighted(row, id, rec) ==
  row # None /\ row.id = id =>
    /\ rec.state # "SUBMITTED"
    /\ row.work # None => row.work.cluster = rec.cluster
    /\ HandleOf(rec, id, row.handle)
    /\ row.stage = "monitor" /\ row.pc \in {"poll", "commit"} => row.handle # None
    /\ row.pc = "commit" /\ row.answer = "COMPLETED" => row.stage = "monitor" /\ Seen(row.handle)

\* The pass writes back a job that nobody has touched since it looked.
PassSighted(p, id, rec) ==
  p.id = id =>
    /\ p.pc = "update" => rec.state = "SUBMITTED" /\ p.rec.handle = None
    /\ p.pc = "dispatch" => rec.state # "SUBMITTED"

JobSighted(id) ==
  /\ RecordSighted(id, store[id])
  /\ \A r \in Rows : RowSighted(rows[r], id, store[id])
  /\ PassSighted(pass, id, store[id])

Sighted == \A id \in Ids : GivenOnce(id) => JobSighted(id)

\* Nothing that was made is forgotten, and a pod that succeeded stays so.
LEMMA WorldLasts ==
  ASSUME IInv, [Next]_vars
  PROVE  /\ kind' = kind
         /\ \A h : Known(h) => Known(h)' /\ (Seen(h) => Seen(h)')
<1> USE DEF IInv, TypeOK
<1>1. kind' = kind
  BY DEF Next, vars, worldVars, Work, Pass, World, Register, Submit, PassAllocate, PassUpdate, PassDispatch,
         DispatchBegin, Attempt, Created, DispatchCommit, MonitorBegin, Poll, MonitorCommit, InsertMonitor,
         Complete, Crash, PodSucceeds, PodFails, Vanish
<1>2. SUFFICES ASSUME NEW h, Known(h) PROVE Known(h)' /\ (Seen(h) => Seen(h)')
  BY <1>1
<1>3. CASE UNCHANGED <<objects, gone>>
  BY <1>1, <1>2, <1>3 DEF Known, Seen, Kubernetes
<1>4. ASSUME NEW r \in Rows, Attempt(r) PROVE Known(h)' /\ (Seen(h) => Seen(h)')
  <2>1. PICK g, s : UNCHANGED worldVars \/ (~Taken(g) /\ Created(g, s))
    BY <1>4 DEF Attempt
  <2>2. CASE UNCHANGED worldVars
    BY <1>3, <2>2 DEF worldVars
  <2>3. CASE ~Taken(g) /\ Created(g, s)
    <3>1. objects' = Put(objects, g, Object(s)) /\ gone' = gone /\ g \notin DOMAIN objects
      BY <2>3 DEF Created, Taken
    <3>2. /\ DOMAIN objects' = DOMAIN objects \cup {g}
          /\ \A f \in DOMAIN objects : objects'[f] = objects[f]
      BY <3>1 DEF Put
    <3> QED
      BY <1>1, <1>2, <3>1, <3>2 DEF Known, Seen, Kubernetes
  <2> QED
    BY <2>1, <2>2, <2>3
<1>5. ASSUME World PROVE Known(h)' /\ (Seen(h) => Seen(h)')
  <2>1. PICK g \in DOMAIN objects : PodSucceeds(g) \/ PodFails(g) \/ Vanish(g)
    BY <1>5 DEF World
  <2>2. ASSUME gone' = gone, DOMAIN objects' = DOMAIN objects,
               \A f \in DOMAIN objects : objects[f].succeeded > 0 => objects'[f].succeeded > 0
        PROVE  Known(h)' /\ (Seen(h) => Seen(h)')
    BY <1>1, <1>2, <2>2 DEF Known, Seen, Kubernetes
  <2>3. \A f \in DOMAIN objects : objects[f] \in Objects /\ objects[f].succeeded \in Nat
    BY DEF Objects
  <2>4. CASE PodSucceeds(g)
    <3>1. PICK end : objects' = [objects EXCEPT ![g] = [objects[g] EXCEPT !.succeeded = objects[g].succeeded + 1,
                                                                          !.end = end]]
      BY <2>4 DEF PodSucceeds
    <3>2. objects[g].succeeded + 1 > 0
      BY <2>3
    <3>3. objects'[g].succeeded = objects[g].succeeded + 1
      BY <2>3, <3>1 DEF Objects
    <3> QED
      BY <2>2, <2>4, <3>1, <3>2, <3>3 DEF PodSucceeds
  <2>5. CASE PodFails(g)
    <3>1. PICK end : objects' = [objects EXCEPT ![g] = [objects[g] EXCEPT !.failed = objects[g].failed + 1,
                                                                          !.end = end]]
      BY <2>5 DEF PodFails
    <3>2. objects'[g].succeeded = objects[g].succeeded
      BY <2>3, <3>1 DEF Objects
    <3> QED
      BY <2>2, <2>5, <3>1, <3>2 DEF PodFails
  <2>6. CASE Vanish(g)
    <3>1. gone' = gone \cup {g} /\ objects' = Drop(objects, {g})
      BY <2>6 DEF Vanish
    <3>2. /\ DOMAIN objects' = DOMAIN objects \ {g}
          /\ \A f \in DOMAIN objects' : objects'[f] = objects[f]
      BY <3>1 DEF Drop
    <3> QED
      BY <1>1, <1>2, <3>1, <3>2 DEF Known, Seen, Kubernetes
  <2> QED
    BY <2>1, <2>4, <2>5, <2>6
<1> QED
  BY <1>3, <1>4, <1>5
  DEF Next, vars, worldVars, Work, Pass, Register, Submit, PassAllocate, PassUpdate, PassDispatch, DispatchBegin,
      DispatchCommit, MonitorBegin, Poll, MonitorCommit, InsertMonitor, Complete, Crash

\* The record of a job on its way, before and after a step.
SameJob(rec, new) ==
  /\ new.cluster = rec.cluster /\ new.sub = rec.sub
  /\ rec.state # "SUBMITTED" => new.state # "SUBMITTED"

LEMMA HandleLasts ==
  ASSUME IInv, [Next]_vars, NEW id, NEW rec, NEW new, SameJob(rec, new), NEW h, HandleOf(rec, id, h)
  PROVE  HandleOf(new, id, h)'
BY WorldLasts DEF HandleOf, SameJob, KubernetesName, Kubernetes

LEMMA RowStays ==
  ASSUME IInv, [Next]_vars, NEW id, NEW rec, NEW new, SameJob(rec, new), NEW row, RowSighted(row, id, rec)
  PROVE  RowSighted(row, id, new)'
<1> SUFFICES ASSUME row # None, row.id = id
             PROVE  /\ new.state # "SUBMITTED"
                    /\ row.work # None => row.work.cluster = new.cluster
                    /\ HandleOf(new, id, row.handle)'
                    /\ row.stage = "monitor" /\ row.pc \in {"poll", "commit"} => row.handle # None
                    /\ row.pc = "commit" /\ row.answer = "COMPLETED" => row.stage = "monitor" /\ Seen(row.handle)'
  BY DEF RowSighted
<1>1. HandleOf(rec, id, row.handle)
  BY DEF RowSighted
<1>2. HandleOf(new, id, row.handle)'
  BY <1>1, HandleLasts
<1>3. row.pc = "commit" /\ row.answer = "COMPLETED" => Known(row.handle) /\ Seen(row.handle)
  BY <1>1 DEF RowSighted, HandleOf
<1>4. row.pc = "commit" /\ row.answer = "COMPLETED" => Seen(row.handle)'
  BY <1>3, WorldLasts
<1> QED
  BY <1>2, <1>4 DEF RowSighted, SameJob

LEMMA RecordStays ==
  ASSUME IInv, [Next]_vars, NEW id, NEW rec, RecordSighted(id, rec)
  PROVE  RecordSighted(id, rec)'
<1> SUFFICES ASSUME rec # None
             PROVE  /\ HandleOf(rec, id, rec.handle)'
                    /\ rec.state = "COMPLETED" => Seen(rec.handle)'
  BY DEF RecordSighted
<1>1. HandleOf(rec, id, rec.handle)'
  BY HandleLasts DEF RecordSighted, SameJob
<1>2. ASSUME rec.handle = None PROVE Seen(rec.handle)'
  <2>1. DOMAIN objects' \subseteq Handles
    BY TypeStep DEF TypeOK
  <2> QED
    BY <1>2, <2>1, NothingIsNone DEF Seen
<1>3. ASSUME rec.state = "COMPLETED", rec.handle # None PROVE Seen(rec.handle)'
  BY <1>3, WorldLasts DEF RecordSighted, HandleOf
<1> QED
  BY <1>1, <1>2, <1>3

\* A row without locals, of a job that was submitted.
LEMMA FreshSighted ==
  ASSUME NEW rec, rec.state # "SUBMITTED", NEW id, NEW of, NEW stage, NEW pc \in {"ready", "insert", "done"}
  PROVE  /\ RowSighted(NewRow(stage, of), id, rec)'
         /\ RowSighted([NewRow(stage, of) EXCEPT !.pc = pc], id, rec)'
BY DEF RowSighted, HandleOf, NewRow

\* An id given to one user belongs to the job of the records, the rows and the
\* pass alike.
LEMMA OneJob ==
  ASSUME IInv, NEW id \in Ids, GivenOnce(id)
  PROVE  /\ store[id] # None => store[id] \in Records /\ store[id].sub \in Subs /\ receipts[store[id].sub] = id
         /\ \A r \in Rows : rows[r] # None /\ rows[r].id = id =>
              /\ rows[r] \in RiverRows /\ store[id] # None
              /\ rows[r].work # None => rows[r].work.sub = store[id].sub
         /\ pass.pc = "update" /\ pass.id = id => pass.rec \in Records /\ pass.rec.sub = store[id].sub
<1> USE DEF IInv, TypeOK
<1>1. store[id] # None => store[id] \in Records /\ store[id].sub \in Subs /\ receipts[store[id].sub] = id
  BY DEF RecordsKeepIds, Records
<1>2. ASSUME NEW r \in Rows, rows[r] # None, rows[r].id = id
      PROVE  /\ rows[r] \in RiverRows /\ store[id] # None
             /\ rows[r].work # None => rows[r].work.sub = store[id].sub
  <2>1. rows[r] \in RiverRows /\ store[id] # None
    BY <1>2 DEF RowsOK
  <2>2. rows[r].work # None => rows[r].work.sub \in Subs /\ receipts[rows[r].work.sub] = id
    BY <1>2, <2>1 DEF RowsOK, RiverRows, Works
  <2> QED
    BY <1>1, <2>1, <2>2 DEF GivenOnce
<1>3. ASSUME pass.pc = "update", pass.id = id PROVE pass.rec \in Records /\ pass.rec.sub = store[id].sub
  <2>1. pass.rec \in Records /\ receipts[pass.rec.sub] = id /\ store[id] # None
    BY <1>3 DEF PassOK
  <2> QED
    BY <1>1, <2>1 DEF GivenOnce, Records
<1> QED
  BY <1>1, <1>2, <1>3

\* An id given to one user was not given to two before.
LEMMA GivenBefore ==
  ASSUME IInv, [Next]_vars, NEW id \in Ids, GivenOnce(id)'
  PROVE  GivenOnce(id)
BY Persistence, NothingIsNone DEF GivenOnce, Lasting

\* Where the record is the same job as before, what the step leaves alone is
\* still in order.
LEMMA JobStays ==
  ASSUME IInv, [Next]_vars, NEW id \in Ids, JobSighted(id), SameJob(store[id], store'[id]),
         store'[id] = store[id] \/ RecordSighted(id, store[id])',
         \A r \in Rows : rows'[r] = rows[r] \/ RowSighted(rows[r], id, store[id])',
         PassSighted(pass', id, store'[id])
  PROVE  JobSighted(id)'
<1>1. PICK rec, new : rec = store[id] /\ new = store'[id]
  OBVIOUS
<1>2. RecordSighted(id, store[id])'
  <2>1. RecordSighted(id, rec)
    BY <1>1 DEF JobSighted
  <2>2. RecordSighted(id, rec)'
    BY <2>1, RecordStays
  <2> QED
    BY <1>1, <2>2
<1>3. ASSUME NEW r \in Rows PROVE RowSighted(rows[r], id, store[id])'
  <2>1. PICK row : row = rows[r]
    OBVIOUS
  <2>2. RowSighted(row, id, rec)
    BY <1>1, <2>1 DEF JobSighted
  <2>3. RowSighted(row, id, new)'
    BY <1>1, <2>2, RowStays
  <2> QED
    BY <1>1, <2>1, <2>3
<1> QED
  BY <1>2, <1>3 DEF JobSighted

\* Submit gives a job of its own an id that no row and no pass knows.
LEMMA SubmitSighted ==
  ASSUME IInv, Sighted, NEW s \in Subs, Submit(s), [Next]_vars, NEW id \in Ids, GivenOnce(id)'
  PROVE  JobSighted(id)'
<1> USE NothingIsNone DEF IInv, TypeOK
<1> DEFINE new == (seq + 1) % IdSpace
<1>1. /\ new \in Ids /\ receipts[s] = None
      /\ store' = [store EXCEPT ![new] = NewRecord(s)] /\ receipts' = [receipts EXCEPT ![s] = new]
      /\ UNCHANGED <<rows, pass>>
  BY IdsAreIds DEF Submit
<1> HIDE DEF new
<1>2. JobSighted(id) /\ GivenOnce(id)
  BY GivenBefore DEF Sighted
<1>3. CASE id # new
  <2>1. store'[id] = store[id]
    BY <1>1, <1>3
  <2> QED
    BY <1>1, <1>2, <2>1, JobStays DEF JobSighted, SameJob
<1>4. CASE id = new
  <2>1. store[id] = None
    <3> SUFFICES ASSUME store[id] # None PROVE FALSE
      OBVIOUS
    <3>1. store[id].sub \in Subs /\ receipts[store[id].sub] = id
      BY <1>2, OneJob
    <3>2. store[id].sub # s /\ receipts'[store[id].sub] = id /\ receipts'[s] = id
      BY <1>1, <1>4, <3>1
    <3> QED
      BY <3>1, <3>2 DEF GivenOnce
  <2>2. store'[id] = NewRecord(s)
    BY <1>1, <1>4
  <2>3. \A r \in Rows : ~(rows'[r] # None /\ rows'[r].id = id)
    BY <1>1, <2>1 DEF RowsOK
  <2>4. ~(pass'.pc # "idle" /\ pass'.id = id)
    BY <1>1, <2>1 DEF PassOK
  <2>5. RecordSighted(id, store[id])'
    BY <2>2 DEF RecordSighted, HandleOf, NewRecord
  <2>6. \A r \in Rows : RowSighted(rows[r], id, store[id])'
    BY <2>3 DEF RowSighted
  <2>7. PassSighted(pass, id, store[id])'
    BY <2>4 DEF PassSighted
  <2> QED
    BY <2>5, <2>6, <2>7 DEF JobSighted
<1> QED
  BY <1>3, <1>4

\* The pass takes a job that nobody else has touched, and gives it a row.
LEMMA PassSightedStep ==
  ASSUME IInv, Sighted, [Next]_vars, NEW id \in Ids, GivenOnce(id)',
         (\E i \in Ids, c \in Clusters : PassAllocate(i, c)) \/ PassUpdate \/ PassDispatch
  PROVE  JobSighted(id)'
<1> USE NothingIsNone DEF IInv, TypeOK
<1>1. JobSighted(id) /\ GivenOnce(id)
  BY GivenBefore DEF Sighted
<1>2. ASSUME NEW i \in Ids, NEW c \in Clusters, PassAllocate(i, c) PROVE JobSighted(id)'
  <2>1. UNCHANGED <<store, rows>> /\ store[i] \in Records /\ store[i].state = "SUBMITTED"
    BY <1>2 DEF PassAllocate
  <2>2. pass'.pc = "update" /\ pass'.id = i /\ pass'.rec.handle = store[i].handle
    <3> DEFINE rec == [store[i] EXCEPT !.state = "MATCHED", !.alloc = nextID', !.cluster = c]
    <3>1. rec.handle = store[i].handle
      BY <2>1 DEF Records
    <3>2. pass' = [pc |-> "update", id |-> i, rec |-> rec]
      BY <1>2 DEF PassAllocate
    <3> HIDE DEF rec
    <3> QED
      BY <3>1, <3>2
  <2>3. id = i => store[id].handle = None
    BY <1>1, <2>1 DEF JobSighted, RecordSighted, Records
  <2>4. PassSighted(pass', id, store'[id])
    BY <2>1, <2>2, <2>3 DEF PassSighted
  <2> QED
    BY <1>1, <2>1, <2>4, JobStays DEF SameJob
<1>3. ASSUME PassUpdate PROVE JobSighted(id)'
  <2>1. /\ pass.pc = "update" /\ pass.id \in Ids /\ pass.rec \in Records /\ pass.rec.state = "MATCHED"
        /\ store' = [store EXCEPT ![pass.id] = pass.rec] /\ rows' = rows
    BY <1>3 DEF PassUpdate, PassOK
  <2>2. pass'.pc = "dispatch" /\ pass'.id = pass.id
    BY <1>3 DEF PassUpdate
  <2>3. CASE id # pass.id
    <3>1. store'[id] = store[id] /\ PassSighted(pass', id, store'[id])
      BY <2>1, <2>2, <2>3 DEF PassSighted
    <3> QED
      BY <1>1, <2>1, <3>1, JobStays DEF SameJob
  <2>4. CASE id = pass.id
    <3>1. store[id].state = "SUBMITTED" /\ pass.rec.handle = None
      BY <1>1, <2>1, <2>4 DEF JobSighted, PassSighted
    <3>2. store'[id] = pass.rec
      BY <2>1, <2>4
    <3>3. RecordSighted(id, store[id])'
      BY <2>1, <3>1, <3>2 DEF RecordSighted, HandleOf
    <3>4. \A r \in Rows : ~(rows'[r] # None /\ rows'[r].id = id)
      BY <1>1, <2>1, <3>1 DEF JobSighted, RowSighted
    <3>5. \A r \in Rows : RowSighted(rows[r], id, store[id])'
      BY <3>4 DEF RowSighted
    <3>6. PassSighted(pass, id, store[id])'
      BY <2>1, <2>2, <3>2 DEF PassSighted
    <3> QED
      BY <3>3, <3>5, <3>6 DEF JobSighted
  <2> QED
    BY <2>3, <2>4
<1>4. ASSUME PassDispatch PROVE JobSighted(id)'
  <2>1. /\ store' = store /\ pass' = NoPass /\ pass.pc = "dispatch"
        /\ rows' = [rows EXCEPT ![Place] = NewRow("dispatch", pass.id)]
    BY <1>4 DEF PassDispatch
  <2>2. PassSighted(pass', id, store'[id])
    BY <2>1 DEF PassSighted, NoPass
  <2>3. \A r \in Rows : rows'[r] = rows[r] \/ rows'[r] = NewRow("dispatch", pass.id)
    BY <2>1
  <2>4. ASSUME NEW r \in Rows, rows'[r] = NewRow("dispatch", pass.id) PROVE RowSighted(rows[r], id, store[id])'
    <3>1. PICK of, rec : of = pass.id /\ rec = store[id]
      OBVIOUS
    <3>2. CASE of = id
      <4>1. rec.state # "SUBMITTED"
        BY <1>1, <2>1, <3>1, <3>2 DEF JobSighted, PassSighted
      <4>2. RowSighted(NewRow("dispatch", of), id, rec)'
        BY <4>1, FreshSighted
      <4> QED
        BY <2>1, <2>4, <3>1, <4>2
    <3>3. CASE of # id
      BY <2>4, <3>1, <3>3 DEF RowSighted, NewRow
    <3> QED
      BY <3>2, <3>3
  <2> QED
    BY <1>1, <2>1, <2>2, <2>3, <2>4, JobStays DEF SameJob
<1> QED
  BY <1>2, <1>3, <1>4

\* A row of job of, without locals of a handler.
IsFresh(row, of) ==
  \E stage, pc : pc \in {"ready", "insert", "done"} /\ row \in {NewRow(stage, of), [NewRow(stage, of) EXCEPT !.pc = pc]}

LEMMA FreshOnes ==
  ASSUME NEW r \in Rows
  PROVE  /\ IsFresh(At(r, "done"), rows[r].id) /\ IsFresh(At(r, "insert"), rows[r].id)
         /\ IsFresh(NewRow("monitor", rows[r].id), rows[r].id) /\ IsFresh(Fresh(r), rows[r].id)
BY DEF IsFresh, At, Fresh

\* What a fresh row asks of its job.
LEMMA FreshRows ==
  ASSUME NEW r \in Rows, NEW of, IsFresh(rows'[r], of), NEW id, of = id => store'[id].state # "SUBMITTED"
  PROVE  RowSighted(rows[r], id, store[id])'
<1>1. PICK stage, pc : /\ pc \in {"ready", "insert", "done"}
                       /\ rows'[r] \in {NewRow(stage, of), [NewRow(stage, of) EXCEPT !.pc = pc]}
  BY DEF IsFresh
<1>2. PICK rec : rec = store'[id]
  OBVIOUS
<1>3. CASE of = id
  <2>1. rec.state # "SUBMITTED"
    BY <1>2, <1>3
  <2>2. /\ RowSighted(NewRow(stage, of), id, rec)'
        /\ RowSighted([NewRow(stage, of) EXCEPT !.pc = pc], id, rec)'
    BY <1>1, <2>1, FreshSighted
  <2> QED
    BY <1>1, <1>2, <2>2
<1>4. CASE of # id
  BY <1>1, <1>4 DEF RowSighted, NewRow
<1> QED
  BY <1>3, <1>4

\* A handler at work on row r touches the record of that row's job, that row,
\* and rows it makes for the same job.
LEMMA WorkSighted ==
  ASSUME IInv, [Next]_vars, NEW id \in Ids, JobSighted(id), NEW r \in Rows, rows[r] # None, pass' = pass,
         id # rows[r].id => store'[id] = store[id],
         id = rows[r].id => /\ SameJob(store[id], store'[id])
                            /\ store'[id] = store[id] \/ RecordSighted(id, store[id])',
         \A q \in Rows : \/ rows'[q] = rows[q]
                         \/ rows'[q] = None
                         \/ IsFresh(rows'[q], rows[r].id)
                         \/ /\ rows'[q].id = rows[r].id
                            /\ id = rows[r].id => RowSighted(rows[q], id, store[id])'
  PROVE  JobSighted(id)'
<1>1. id = rows[r].id => store[id].state # "SUBMITTED"
  BY DEF JobSighted, RowSighted
<1>2. SameJob(store[id], store'[id])
  BY DEF SameJob
<1>3. id = rows[r].id => store'[id].state # "SUBMITTED"
  BY <1>1, <1>2 DEF SameJob
<1>4. ASSUME NEW q \in Rows PROVE rows'[q] = rows[q] \/ RowSighted(rows[q], id, store[id])'
  <2>1. CASE rows'[q] = None
    BY <2>1 DEF RowSighted
  <2>2. CASE IsFresh(rows'[q], rows[r].id)
    BY <1>3, <2>2, FreshRows
  <2>3. CASE /\ rows'[q].id = rows[r].id
             /\ id = rows[r].id => RowSighted(rows[q], id, store[id])'
    BY <2>3 DEF RowSighted
  <2> QED
    BY <2>1, <2>2, <2>3
<1>5. PassSighted(pass', id, store'[id])
  BY <1>1, <1>3 DEF JobSighted, PassSighted
<1> QED
  BY <1>2, <1>4, <1>5, JobStays

LEMMA DispatchBeginSighted ==
  ASSUME IInv, [Next]_vars, NEW id \in Ids, GivenOnce(id), JobSighted(id), NEW r \in Rows, DispatchBegin(r)
  PROVE  JobSighted(id)'
<1> USE NothingIsNone DEF IInv, TypeOK
<1> DEFINE my == rows[r].id
<1>1. rows[r] # None /\ rows[r] \in RiverRows /\ my \in Ids /\ pass' = pass
  BY DEF DispatchBegin, Row, RiverRows
<1>2. CASE store[my] = None \/ Terminal(store[my].state)
  <2>1. store' = store /\ rows' = [rows EXCEPT ![r] = At(r, "done")]
    BY <1>2 DEF DispatchBegin
  <2>2. \A q \in Rows : rows'[q] = rows[q] \/ IsFresh(rows'[q], my)
    BY <2>1, FreshOnes
  <2>3. SameJob(store[id], store'[id])
    BY <2>1 DEF SameJob
  <2> QED
    BY <1>1, <2>1, <2>2, <2>3, WorkSighted
<1>3. CASE ~(store[my] = None \/ Terminal(store[my].state))
  <2> DEFINE work == [sub |-> store[my].sub, cluster |-> store[my].cluster]
  <2>1. /\ store' = [store EXCEPT ![my] = [store[my] EXCEPT !.state = "DISPATCHING"]]
        /\ rows' = [rows EXCEPT ![r] = [rows[r] EXCEPT !.pc = "attempt", !.work = work]]
    BY <1>3 DEF DispatchBegin
  <2>2. PICK rec, new, row : /\ rec = store[my] /\ new = store'[my] /\ row = rows'[r]
    OBVIOUS
  <2>3. rec \in Records /\ new = [rec EXCEPT !.state = "DISPATCHING"]
    BY <1>1, <1>3, <2>1, <2>2
  <2>4. row = [rows[r] EXCEPT !.pc = "attempt", !.work = work]
    BY <2>1, <2>2
  <2>5. /\ new.cluster = rec.cluster /\ new.sub = rec.sub /\ new.handle = rec.handle
        /\ new.state = "DISPATCHING"
    BY <2>3 DEF Records
  <2>6. row.pc = "attempt" /\ row.work.cluster = rec.cluster /\ row.id = my /\ row.handle = rows[r].handle
    BY <1>1, <2>2, <2>4 DEF RiverRows
  <2>7. ASSUME id = my
        PROVE  SameJob(store[id], store'[id]) /\ RecordSighted(id, store[id])' /\ RowSighted(rows[r], id, store[id])'
    <3>1. SameJob(rec, new)
      BY <2>5 DEF SameJob
    <3>2. HandleOf(rec, id, rec.handle) /\ HandleOf(rec, id, rows[r].handle)
      BY <1>1, <1>3, <2>2, <2>7 DEF JobSighted, RecordSighted, RowSighted
    <3>3. HandleOf(new, id, new.handle)' /\ HandleOf(new, id, row.handle)'
      <4>1. HandleOf(rec, id, new.handle) /\ HandleOf(rec, id, row.handle)
        BY <2>5, <2>6, <3>2
      <4> QED
        BY <3>1, <4>1, HandleLasts
    <3>4. RecordSighted(id, new)' /\ RowSighted(row, id, new)'
      BY <2>5, <2>6, <3>3 DEF RecordSighted, RowSighted
    <3> QED
      BY <2>2, <2>7, <3>1, <3>4
  <2>8. id # my => store'[id] = store[id]
    BY <2>1
  <2>9. \A q \in Rows : rows'[q] = rows[q] \/ (q = r /\ rows'[q].id = my)
    BY <2>1, <2>2, <2>6
  <2> QED
    BY <1>1, <2>7, <2>8, <2>9, WorkSighted
<1> QED
  BY <1>2, <1>3

\* The rows once the driver has replied to row r.
RowsReplied(r, answer, handle) ==
  [rows EXCEPT ![r] = [rows[r] EXCEPT !.pc = "commit", !.answer = answer, !.handle = handle]]

\* The native job a dispatch makes has the name that the record's cluster
\* settles.
LEMMA AttemptSighted ==
  ASSUME IInv, [Next]_vars, NEW id \in Ids, GivenOnce(id), JobSighted(id), NEW r \in Rows, Attempt(r)
  PROVE  JobSighted(id)'
<1> USE NothingIsNone DEF IInv, TypeOK
<1> DEFINE my == rows[r].id
           c == rows[r].work.cluster
           s == rows[r].work.sub
           h == [cluster |-> c, name |-> Name(c, s, my)]
<1>1. /\ rows[r] # None /\ rows[r] \in RiverRows /\ my \in Ids /\ pass' = pass /\ store' = store
      /\ rows[r].stage = "dispatch" /\ rows[r].work # None
  BY DEF Attempt, Row, RiverRows, RowsOK
<1>2. PICK answer, handle :
        /\ answer \in {"RUNNING", "FAILED"}
        /\ handle = None \/ (handle = h /\ c \in fleet /\ h \in DOMAIN objects')
        /\ rows' = RowsReplied(r, answer, handle)
  <2> DEFINE Replied(answer, handle) ==
        rows' = [rows EXCEPT ![r].pc = "commit", ![r].answer = answer, ![r].handle = handle]
  <2>1. Replied("FAILED", None) \/ (Replied("RUNNING", h) /\ c \in fleet /\ Created(h, s))
    BY DEF Attempt
  <2>2. Created(h, s) => h \in DOMAIN objects'
    BY DEF Created, Put
  <2>3. ASSUME NEW answer, NEW handle, Replied(answer, handle) PROVE rows' = RowsReplied(r, answer, handle)
    BY <2>3 DEF RowsReplied
  <2> HIDE DEF Replied
  <2>4. \/ rows' = RowsReplied(r, "FAILED", None)
        \/ rows' = RowsReplied(r, "RUNNING", h) /\ c \in fleet /\ h \in DOMAIN objects'
    BY <2>1, <2>2, <2>3
  <2> QED
    BY <2>4
<1>3. PICK rec, row : rec = store[my] /\ row = rows'[r]
  OBVIOUS
<1>4. /\ row.pc = "commit" /\ row.answer = answer /\ row.handle = handle
      /\ row.id = my /\ row.stage = "dispatch" /\ row.work = rows[r].work
  BY <1>1, <1>2, <1>3 DEF RiverRows, RowsReplied
<1>5. ASSUME id = my PROVE RowSighted(rows[r], id, store[id])'
  <2>1. rec.state # "SUBMITTED" /\ c = rec.cluster /\ s = rec.sub
    BY <1>1, <1>3, <1>5, OneJob DEF JobSighted, RowSighted
  <2>2. ASSUME handle # None PROVE HandleOf(rec, id, handle)'
    <3>1. handle = h /\ c \in Clusters /\ h \in DOMAIN objects' /\ kind' = kind
      BY <1>2, <2>2, WorldLasts
    <3>2. Kubernetes(c) => Name(c, s, my) = KubernetesName(c, s, my)
      BY <3>1 DEF Kubernetes, Name, KubernetesName
    <3>3. Known(handle)'
      BY <3>1 DEF Known
    <3>4. handle.cluster = rec.cluster /\ (Kubernetes(c) => handle.name = KubernetesName(c, rec.sub, id))
      BY <1>5, <2>1, <3>1, <3>2
    <3>5. handle.cluster = c
      BY <3>1
    <3> HIDE DEF h, c, s, my
    <3> QED
      BY <3>1, <3>3, <3>4, <3>5 DEF HandleOf, Kubernetes, KubernetesName
  <2>3. HandleOf(rec, id, row.handle)'
    BY <1>4, <2>2 DEF HandleOf
  <2>4. RowSighted(row, id, rec)'
    BY <1>2, <1>4, <2>1, <2>3 DEF RowSighted
  <2> QED
    BY <1>1, <1>3, <1>5, <2>4
<1>6. \A q \in Rows : rows'[q] = rows[q] \/ (q = r /\ rows'[q].id = my)
  BY <1>2, <1>3, <1>4 DEF RowsReplied
<1>7. SameJob(store[id], store'[id])
  BY <1>1 DEF SameJob
<1> HIDE DEF h, c, s
<1> QED
  BY <1>1, <1>5, <1>6, <1>7, WorkSighted

LEMMA DispatchCommitSighted ==
  ASSUME IInv, [Next]_vars, NEW id \in Ids, GivenOnce(id), JobSighted(id), NEW r \in Rows, DispatchCommit(r)
  PROVE  JobSighted(id)'
<1> USE NothingIsNone DEF IInv, TypeOK
<1> DEFINE my == rows[r].id
<1>1. /\ rows[r] # None /\ rows[r] \in RiverRows /\ my \in Ids /\ store[my] \in Records /\ pass' = pass
  BY DEF DispatchCommit, Row, RiverRows, RowsOK
<1>2. PICK rec, new : rec = store[my] /\ new = store'[my]
  OBVIOUS
<1>3. \/ new = [rec EXCEPT !.state = "RUNNING", !.handle = rows[r].handle]
      \/ new = [rec EXCEPT !.state = "FAILED", !.alloc = None]
  <2>1. \/ store' = [store EXCEPT ![my] = [store[my] EXCEPT !.state = "RUNNING", !.handle = rows[r].handle]]
        \/ store' = [store EXCEPT ![my] = [store[my] EXCEPT !.state = "FAILED", !.alloc = None]]
    BY <1>1 DEF DispatchCommit
  <2> QED
    BY <1>1, <1>2, <2>1
<1>4. /\ new.cluster = rec.cluster /\ new.sub = rec.sub /\ new.state \in {"RUNNING", "FAILED"}
      /\ new.handle = rec.handle \/ new.handle = rows[r].handle
  BY <1>1, <1>2, <1>3 DEF Records
<1>5. ASSUME id = my PROVE SameJob(store[id], store'[id]) /\ RecordSighted(id, store[id])'
  <2>1. SameJob(rec, new)
    BY <1>4 DEF SameJob
  <2>2. HandleOf(rec, id, rec.handle) /\ HandleOf(rec, id, rows[r].handle)
    BY <1>1, <1>2, <1>5 DEF JobSighted, RecordSighted, RowSighted
  <2>3. HandleOf(new, id, new.handle)'
    <3>1. HandleOf(rec, id, new.handle)
      BY <1>4, <2>2
    <3> QED
      BY <2>1, <3>1, HandleLasts
  <2>4. RecordSighted(id, new)'
    BY <1>4, <2>3 DEF RecordSighted
  <2> QED
    BY <1>2, <1>5, <2>1, <2>4
<1>6. id # my => store'[id] = store[id]
  BY DEF DispatchCommit
<1>7. \A q \in Rows : rows'[q] = rows[q] \/ IsFresh(rows'[q], my)
  BY FreshOnes DEF DispatchCommit
<1> QED
  BY <1>1, <1>5, <1>6, <1>7, WorkSighted

LEMMA MonitorBeginSighted ==
  ASSUME IInv, [Next]_vars, NEW id \in Ids, GivenOnce(id), JobSighted(id), NEW r \in Rows, MonitorBegin(r)
  PROVE  JobSighted(id)'
<1> USE NothingIsNone DEF IInv, TypeOK
<1> DEFINE my == rows[r].id
           rec == store[my]
           work == [sub |-> rec.sub, cluster |-> rec.cluster]
<1>1. /\ rows[r] # None /\ rows[r] \in RiverRows /\ my \in Ids /\ pass' = pass /\ store' = store
      /\ rows[r].stage = "monitor" /\ rows[r].pc = "ready"
  BY DEF MonitorBegin, Row, RiverRows
<1>2. SameJob(store[id], store'[id])
  BY <1>1 DEF SameJob
<1>3. CASE rec = None \/ Terminal(rec.state) \/ rec.handle = None
  <2>1. rows' = [rows EXCEPT ![r] = At(r, "done")] \/ rows' = [rows EXCEPT ![r] = At(r, "insert")]
    BY <1>3 DEF MonitorBegin
  <2>2. \A q \in Rows : rows'[q] = rows[q] \/ IsFresh(rows'[q], my)
    BY <2>1, FreshOnes
  <2> QED
    BY <1>1, <1>2, <2>2, WorkSighted
<1>4. CASE ~(rec = None \/ Terminal(rec.state) \/ rec.handle = None)
  <2>1. rows' = [rows EXCEPT ![r] = [rows[r] EXCEPT !.pc = "poll", !.handle = rec.handle, !.work = work]]
    BY <1>4 DEF MonitorBegin
  <2>2. PICK old, row : old = rec /\ row = rows'[r]
    OBVIOUS
  <2>3. /\ row.pc = "poll" /\ row.handle = old.handle /\ row.id = my /\ row.stage = "monitor"
        /\ row.work.cluster = old.cluster
    BY <1>1, <2>1, <2>2 DEF RiverRows
  <2>4. ASSUME id = my PROVE RowSighted(rows[r], id, store[id])'
    <3>1. old.state # "SUBMITTED" /\ HandleOf(old, id, row.handle) /\ old.handle # None
      BY <1>1, <1>4, <2>2, <2>3, <2>4 DEF JobSighted, RecordSighted, RowSighted
    <3>2. HandleOf(old, id, row.handle)'
      BY <3>1, HandleLasts DEF SameJob
    <3>3. RowSighted(row, id, old)'
      BY <2>3, <3>1, <3>2 DEF RowSighted
    <3> QED
      BY <1>1, <2>2, <2>4, <3>3
  <2>5. \A q \in Rows : rows'[q] = rows[q] \/ (q = r /\ rows'[q].id = my)
    BY <2>1, <2>2, <2>3
  <2> QED
    BY <1>1, <1>2, <2>4, <2>5, WorkSighted
<1> QED
  BY <1>3, <1>4

\* Status calls a native job completed that has a pod that succeeded, or is not
\* there any more.
LEMMA CompletedIsSeen ==
  ASSUME IInv, NEW h, h \in DOMAIN objects, "COMPLETED" \in StatusAnswers(h), Kubernetes(h.cluster)
  PROVE  objects[h].succeeded > 0
<1>1. objects[h] \in Objects
  BY DEF IInv, TypeOK
<1>2. "COMPLETED" \in Reading(h)
  BY DEF StatusAnswers, Taken
<1>3. CASE kind[h.cluster] = "k8s_job"
  BY <1>1, <1>2, <1>3 DEF Reading, ReadState, Objects
<1>4. CASE kind[h.cluster] = "flux_operator"
  BY <1>1, <1>2, <1>4 DEF Reading, OwnedJobState, Objects
<1> QED
  BY <1>3, <1>4 DEF Kubernetes

LEMMA PollSighted ==
  ASSUME IInv, [Next]_vars, NEW id \in Ids, GivenOnce(id), JobSighted(id), NEW r \in Rows, Poll(r)
  PROVE  JobSighted(id)'
<1> USE NothingIsNone DEF IInv, TypeOK
<1> DEFINE my == rows[r].id
<1>1. /\ rows[r] # None /\ rows[r] \in RiverRows /\ my \in Ids /\ pass' = pass /\ store' = store
      /\ rows[r].stage = "monitor" /\ rows[r].pc = "poll" /\ UNCHANGED worldVars
  BY DEF Poll, Row, RiverRows
<1>2. SameJob(store[id], store'[id])
  BY <1>1 DEF SameJob
<1>3. CASE rows[r].work.cluster \notin fleet
  <2>1. \A q \in Rows : rows'[q] = rows[q] \/ IsFresh(rows'[q], my)
    BY <1>3, FreshOnes DEF Poll
  <2> QED
    BY <1>1, <1>2, <2>1, WorkSighted
<1>4. CASE rows[r].work.cluster \in fleet
  <2>1. PICK answer \in StatusAnswers(rows[r].handle) :
          rows' = [rows EXCEPT ![r] = [rows[r] EXCEPT !.pc = "commit", !.answer = answer]]
    BY <1>4 DEF Poll
  <2>2. PICK rec, row : rec = store[my] /\ row = rows'[r]
    OBVIOUS
  <2>3. /\ row.pc = "commit" /\ row.answer = answer /\ row.handle = rows[r].handle
        /\ row.id = my /\ row.stage = "monitor" /\ row.work = rows[r].work
    BY <1>1, <2>1, <2>2 DEF RiverRows
  <2>4. ASSUME id = my PROVE RowSighted(rows[r], id, store[id])'
    <3>1. /\ rec.state # "SUBMITTED" /\ (row.work # None => row.work.cluster = rec.cluster)
          /\ HandleOf(rec, id, row.handle) /\ row.handle # None
      BY <1>1, <2>2, <2>3, <2>4 DEF JobSighted, RowSighted
    <3>2. HandleOf(rec, id, row.handle)'
      BY <3>1, HandleLasts DEF SameJob
    <3>3. ASSUME answer = "COMPLETED" PROVE Seen(row.handle)'
      <4>1. Seen(row.handle)
        BY <2>1, <2>3, <3>3, CompletedIsSeen DEF Seen
      <4> QED
        BY <3>1, <4>1, WorldLasts DEF HandleOf
    <3>4. RowSighted(row, id, rec)'
      BY <2>3, <3>1, <3>2, <3>3 DEF RowSighted
    <3> QED
      BY <1>1, <2>2, <2>4, <3>4
  <2>5. \A q \in Rows : rows'[q] = rows[q] \/ (q = r /\ rows'[q].id = my)
    BY <2>1, <2>2, <2>3
  <2> QED
    BY <1>1, <1>2, <2>4, <2>5, WorkSighted
<1> QED
  BY <1>3, <1>4

LEMMA MonitorCommitSighted ==
  ASSUME IInv, [Next]_vars, NEW id \in Ids, GivenOnce(id), JobSighted(id), NEW r \in Rows, MonitorCommit(r)
  PROVE  JobSighted(id)'
<1> USE NothingIsNone DEF IInv, TypeOK
<1> DEFINE my == rows[r].id
           answer == rows[r].answer
<1>1. /\ rows[r] # None /\ rows[r] \in RiverRows /\ my \in Ids /\ store[my] \in Records /\ pass' = pass
      /\ rows[r].stage = "monitor" /\ rows[r].pc = "commit" /\ answer \in Answers
  BY DEF MonitorCommit, Row, RiverRows, RowsOK
<1>2. PICK rec, new : rec = store[my] /\ new = store'[my]
  OBVIOUS
<1>3. \E alloc : new = [rec EXCEPT !.state = answer, !.alloc = alloc]
  <2>1. PICK alloc : store' = [store EXCEPT ![my] = [store[my] EXCEPT !.state = answer, !.alloc = alloc]]
    BY <1>1 DEF MonitorCommit
  <2> QED
    BY <1>1, <1>2, <2>1
<1>4. new.cluster = rec.cluster /\ new.sub = rec.sub /\ new.state = answer /\ new.handle = rec.handle
  BY <1>1, <1>2, <1>3 DEF Records
<1>5. ASSUME id = my PROVE SameJob(store[id], store'[id]) /\ RecordSighted(id, store[id])'
  <2>1. SameJob(rec, new)
    BY <1>1, <1>4 DEF SameJob, Answers
  <2>2. HandleOf(rec, id, rec.handle) /\ HandleOf(rec, id, rows[r].handle) /\ rows[r].handle # None
    BY <1>1, <1>2, <1>5 DEF JobSighted, RecordSighted, RowSighted
  <2>3. HandleOf(new, id, new.handle)'
    <3>1. HandleOf(rec, id, new.handle)
      BY <1>4, <2>2
    <3> QED
      BY <2>1, <3>1, HandleLasts
  <2>4. ASSUME answer = "COMPLETED" PROVE Seen(new.handle)'
    <3>1. Known(rows[r].handle) /\ Seen(rows[r].handle) /\ rows[r].handle \in Handles
      BY <1>1, <1>5, <2>2, <2>4 DEF JobSighted, RowSighted, HandleOf, RiverRows
    <3>2. PICK h, g : h = new.handle /\ g = rows[r].handle
      OBVIOUS
    <3>3. CASE h = None \/ ~Kubernetes(h.cluster)
      <4>1. kind' = kind /\ DOMAIN objects' \subseteq Handles
        BY WorldLasts, TypeStep
      <4> QED
        BY <3>2, <3>3, <4>1 DEF Seen, Kubernetes
    <3>4. CASE h # None /\ Kubernetes(h.cluster)
      <4>1. h \in Handles
        BY <1>1, <1>2, <1>4, <3>2, <3>4 DEF Records
      <4>2. h.cluster = g.cluster /\ h.name = g.name
        BY <1>4, <2>2, <3>2, <3>4 DEF HandleOf
      <4>3. h = g
        BY <3>1, <3>2, <4>1, <4>2 DEF Handles
      <4>4. Seen(g)'
        BY <3>1, <3>2, WorldLasts
      <4> QED
        BY <3>2, <4>3, <4>4
    <3> QED
      BY <3>3, <3>4
  <2>5. RecordSighted(id, new)'
    BY <1>1, <1>4, <2>3, <2>4 DEF RecordSighted, Answers
  <2> QED
    BY <1>2, <1>5, <2>1, <2>5
<1>6. id # my => store'[id] = store[id]
  BY DEF MonitorCommit
<1>7. \A q \in Rows : rows'[q] = rows[q] \/ IsFresh(rows'[q], my)
  BY FreshOnes DEF MonitorCommit
<1> QED
  BY <1>1, <1>5, <1>6, <1>7, WorkSighted

LEMMA CrashSighted ==
  ASSUME IInv, [Next]_vars, NEW id \in Ids, JobSighted(id), Crash
  PROVE  JobSighted(id)'
<1>1. store' = store /\ pass' = NoPass
  BY DEF Crash, worldVars
<1>2. ASSUME NEW r \in Rows PROVE rows'[r] = None \/ (rows[r] # None /\ IsFresh(rows'[r], rows[r].id))
  BY FreshOnes DEF Crash
<1>3. ASSUME NEW r \in Rows PROVE RowSighted(rows[r], id, store[id])'
  <2>1. CASE rows'[r] = None
    BY <2>1 DEF RowSighted
  <2>2. CASE rows[r] # None /\ IsFresh(rows'[r], rows[r].id)
    <3>1. rows[r].id = id => store'[id].state # "SUBMITTED"
      BY <1>1, <2>2 DEF JobSighted, RowSighted
    <3> QED
      BY <2>2, <3>1, FreshRows
  <2> QED
    BY <1>2, <2>1, <2>2
<1>4. PassSighted(pass', id, store'[id])
  BY <1>1 DEF PassSighted, NoPass
<1> QED
  BY <1>1, <1>3, <1>4, JobStays DEF SameJob

\* Every step keeps what the records say of their native jobs.
LEMMA SightedStep == ASSUME IInv, Sighted, [Next]_vars PROVE Sighted'
<1> SUFFICES ASSUME NEW id \in Ids, GivenOnce(id)' PROVE JobSighted(id)'
  BY DEF Sighted
<1>1. GivenOnce(id) /\ JobSighted(id)
  BY GivenBefore DEF Sighted
<1>2. CASE UNCHANGED <<store, rows, pass>>
  BY <1>1, <1>2, JobStays DEF SameJob, JobSighted
<1>3. ASSUME NEW s \in Subs, Submit(s) PROVE JobSighted(id)'
  BY <1>3, SubmitSighted
<1>4. CASE Pass
  BY <1>4, PassSightedStep DEF Pass
<1>5. ASSUME NEW r \in Rows, Work(r) PROVE JobSighted(id)'
  <2>1. CASE InsertMonitor(r) \/ Complete(r)
    <3>1. store' = store /\ pass' = pass /\ rows[r] # None
      BY <2>1 DEF InsertMonitor, Complete
    <3>2. \A q \in Rows : rows'[q] = rows[q] \/ rows'[q] = None \/ IsFresh(rows'[q], rows[r].id)
      BY <2>1, FreshOnes DEF InsertMonitor, Complete, IInv, TypeOK
    <3> QED
      BY <1>1, <3>1, <3>2, WorkSighted DEF SameJob
  <2> QED
    BY <1>1, <1>5, <2>1, DispatchBeginSighted, AttemptSighted, DispatchCommitSighted, MonitorBeginSighted,
       PollSighted, MonitorCommitSighted DEF Work
<1>6. CASE Crash
  BY <1>1, <1>6, CrashSighted
<1> QED
  BY <1>2, <1>3, <1>4, <1>5, <1>6 DEF Next, Register, serverVars, vars

\* For any number of jobs, rows and crashes: a job on a Kubernetes cluster is
\* reported completed on the evidence of its own native job
\* (k8s_driver.go:203-268, 415-450).
THEOREM CompletedOnEvidence == Spec => []SuccessIsSeen
<1>1. Init => Sighted
  BY DEF Init, Sighted, JobSighted, RecordSighted, RowSighted, PassSighted, NoPass
<1>2. IInv /\ Sighted => SuccessIsSeen
  <2> SUFFICES ASSUME IInv, Sighted, NEW id \in Ids, GivenOnce(id), store[id] # None,
                      store[id].handle \in DOMAIN objects \ gone, Kubernetes(store[id].handle.cluster),
                      store[id].state = "COMPLETED"
               PROVE  objects[store[id].handle].succeeded > 0
    <3>1. None \notin DOMAIN objects \/ ~IInv
      BY NothingIsNone DEF IInv, TypeOK
    <3> QED
      BY <3>1 DEF SuccessIsSeen
  <2> QED
    BY DEF Sighted, JobSighted, RecordSighted, Seen
<1> QED
  BY <1>1, <1>2, Inductive, SightedStep, PTL DEF Spec

=============================================================================
